--------------------------- MODULE ComponentProofs ---------------------------
(***************************************************************************)
(* Proofs about two of the components that MCComponents runs.  Locks, for  *)
(* any number of threads, buffers, calls and throws: an inductive invariant *)
(* of each part, and what follows from it.  Framing, for any limit on the  *)
(* message size and any number of messages: where the reader stands in the *)
(* text.                                                                   *)
(***************************************************************************)
EXTENDS Locks, Framing, TLAPS

\* The time the provers may take at a step that names none of them.
USE SMTT(30), ZenonT(30)

-----------------------------------------------------------------------------
(* call_once and the guards of local statics.                              *)

\* The threads in the function, and those under way with a guard's lock.
InFunc == {"run", "ran", "threw"}
HasGuard == InFunc \cup {"acquired", "unlock"}

\* call_once: the flag is 1 exactly while a thread is in the function, and 2
\* once it has returned.
CallInv ==
  kind = "call_once" =>
    /\ \A t \in Threads : pc[t] \notin {"spin", "acquired", "unlock"}
    /\ \A t \in Threads : pc[t] \in InFunc => flag = 1
    /\ \A t, u \in Threads : pc[t] \in InFunc /\ pc[u] \in InFunc => t = u
    /\ \A t \in Threads : pc[t] \in {"wake", "return"} => flag = 2
    /\ flag = 2 => done = 1
    /\ done # 0 => flag = 2 \/ \E t \in Threads : pc[t] = "ran"
    /\ flag = 1 => \E t \in Threads : pc[t] \in InFunc

\* A guard: until the byte is set one thread at most has the lock; once it is
\* set nobody is in the constructor, though a thread may find the lock free
\* and keep it.
GuardInv ==
  kind = "guard" =>
    /\ \A t \in Threads : pc[t] \notin {"wait", "wake", "rethrow"}
    /\ byte = 0 => /\ \A t \in Threads : pc[t] \in HasGuard => flag = 1
                   /\ \A t, u \in Threads : pc[t] \in HasGuard /\ pc[u] \in HasGuard => t = u
                   /\ flag = 1 => \E t \in Threads : pc[t] \in HasGuard
    /\ byte = 1 => done = 1 /\ \A t \in Threads : pc[t] \notin InFunc
    /\ \A t \in Threads : pc[t] = "return" => byte = 1
    /\ done # 0 => byte = 1 \/ \E t \in Threads : pc[t] = "ran"
    /\ flag # 2

\* Both kinds: a function that returned did so once, and who waits for
\* call_once has a thread that will wake it.
CommonInv ==
  /\ done \in 0..1
  /\ \A t \in Threads : pc[t] = "ran" => done = 1
  /\ (\E t \in Threads : pc[t] = "wait") =>
       \E t \in Threads : pc[t] \in InFunc \cup {"wake", "rethrow"}

OnceInv == Once!TypeOK /\ CallInv /\ GuardInv /\ CommonInv

\* The threads are in none of these places before any of them is called.
LEMMA OnceInit == Once!Init => OnceInv
  BY LocksAssumption
     DEF Once!Init, OnceInv, Once!TypeOK, CallInv, GuardInv, CommonInv, InFunc, HasGuard

\* Each operation of __call_once and __cxa_guard_acquire, _release and _abort
\* keeps the invariant.
LEMMA EnterStep == ASSUME OnceInv, NEW t \in Threads, Once!Enter(t) PROVE OnceInv'
<1> USE DEF OnceInv, Once!TypeOK, CallInv, GuardInv, CommonInv, InFunc, HasGuard
<1>1. CASE flag = 0
  BY <1>1 DEF Once!Enter, Once!Goes
<1>2. CASE flag = 1
  BY <1>2 DEF Once!Enter, Once!Goes
<1>3. CASE flag = 2
  BY <1>3 DEF Once!Enter, Once!Goes
<1> QED BY <1>1, <1>2, <1>3

\* The function returns or throws.
LEMMA FuncStep == ASSUME OnceInv, NEW t \in Threads, Once!Func(t) PROVE OnceInv'
  BY LocksAssumption
     DEF OnceInv, Once!TypeOK, CallInv, GuardInv, CommonInv, InFunc, HasGuard, Once!Func, Once!Goes

\* The flag becomes complete, or 0 again after a throw.
LEMMA SetFlagStep == ASSUME OnceInv, NEW t \in Threads, Once!SetFlag(t) PROVE OnceInv'
  BY DEF OnceInv, Once!TypeOK, CallInv, GuardInv, CommonInv, InFunc, HasGuard, Once!SetFlag,
         Once!Goes

\* The waiting threads are woken, and look at the flag again.
LEMMA BroadcastStep == ASSUME OnceInv, NEW t \in Threads, Once!Broadcast(t) PROVE OnceInv'
  BY DEF OnceInv, Once!TypeOK, CallInv, GuardInv, CommonInv, InFunc, HasGuard, Once!Broadcast

\* __cxa_guard_acquire compares and swaps the lock of a guard.
LEMMA AcquireStep == ASSUME OnceInv, NEW t \in Threads, Once!Acquire(t) PROVE OnceInv'
  BY DEF OnceInv, Once!TypeOK, CallInv, GuardInv, CommonInv, InFunc, HasGuard, Once!Acquire,
         Once!Goes

\* A thread that finds the lock taken tries again.
LEMMA SpinStep == ASSUME OnceInv, NEW t \in Threads, Once!Spin(t) PROVE OnceInv'
  BY DEF OnceInv, Once!TypeOK, CallInv, GuardInv, CommonInv, InFunc, HasGuard, Once!Spin, Once!Goes

\* The lock is taken: the initialiser runs unless it is done.
LEMMA AcquiredStep == ASSUME OnceInv, NEW t \in Threads, Once!Acquired(t) PROVE OnceInv'
  BY DEF OnceInv, Once!TypeOK, CallInv, GuardInv, CommonInv, InFunc, HasGuard, Once!Acquired,
         Once!Goes

\* __cxa_guard_release marks the static as initialised.
LEMMA ReleaseStep == ASSUME OnceInv, NEW t \in Threads, Once!Release(t) PROVE OnceInv'
  BY DEF OnceInv, Once!TypeOK, CallInv, GuardInv, CommonInv, InFunc, HasGuard, Once!Release,
         Once!Goes

\* __cxa_guard_abort gives the lock up after a throw.
LEMMA AbortStep == ASSUME OnceInv, NEW t \in Threads, Once!Abort(t) PROVE OnceInv'
  BY DEF OnceInv, Once!TypeOK, CallInv, GuardInv, CommonInv, InFunc, HasGuard, Once!Abort, Once!Goes

\* The invariant says that the function is done once, and that nobody waits
\* in vain.
LEMMA InvDoneOnce == OnceInv => Once!DoneOnce
<1> SUFFICES ASSUME OnceInv PROVE Once!DoneOnce
  BY Zenon
<1>1. \A t, u \in Threads : pc[t] \in InFunc /\ pc[u] \in InFunc => t = u
  BY DEF OnceInv, Once!TypeOK, CallInv, GuardInv, InFunc, HasGuard
<1>2. \A t, u \in Threads :
        pc[t] \in {"run", "ran", "threw"} /\ pc[u] \in {"run", "ran", "threw"} => t = u
  BY Zenon, <1>1 DEF InFunc
<1>3. done <= 1 /\ ((\E t \in Threads : pc[t] = "return") => done = 1)
  BY DEF OnceInv, Once!TypeOK, CallInv, GuardInv, CommonInv
<1>4. Once!SomebodyWakes
  BY Zenon DEF OnceInv, GuardInv, CommonInv, Once!SomebodyWakes, InFunc, HasGuard
<1> QED BY Zenon, <1>2, <1>3, <1>4
     DEF Once!DoneOnce, Once!ReturnsOnce, OnceInv

\* So does every step.
LEMMA OnceKept == ASSUME OnceInv, [Once!Next]_(Once!vars) PROVE OnceInv'
<1>1. CASE UNCHANGED Once!vars
  BY Zenon, <1>1 DEF Once!vars, OnceInv, Once!TypeOK, CallInv, GuardInv, CommonInv
<1>2. CASE Once!Next
  <2> PICK t \in Threads :
        \/ Once!Enter(t) \/ Once!Func(t) \/ Once!SetFlag(t) \/ Once!Broadcast(t) \/ Once!Acquire(t)
        \/ Once!Spin(t) \/ Once!Acquired(t) \/ Once!Release(t) \/ Once!Abort(t)
    BY Zenon, <1>2 DEF Once!Next
  <2> QED BY Zenon, EnterStep, FuncStep, SetFlagStep, BroadcastStep, AcquireStep, SpinStep,
             AcquiredStep, ReleaseStep, AbortStep
<1> QED BY Zenon, <1>1, <1>2

-----------------------------------------------------------------------------
(* The timed mutexes.                                                      *)

\* Who has locks has as many as __count_ says, and is __id_ if there is one.
HolderInv ==
  /\ \A t \in Threads : held[t] > 0 => held[t] = count /\ pc[t] = "run"
  /\ \A t, u \in Threads : held[t] > 0 /\ held[u] > 0 => t = u
  /\ count > 0 => \E t \in Threads : held[t] > 0

\* __id_ is kept by the recursive mutex only, and names the holder.
IdInv ==
  /\ ~Mut!Recursive => id = NoThread
  /\ Mut!Recursive => \A t \in Threads : held[t] > 0 <=> id = t

MutexInv == Mut!TypeOK /\ HolderInv /\ IdInv

\* A thread takes the mutex: it was free, or its own and below the limit.
LEMMA TakesKeeps ==
  ASSUME MutexInv, NEW t \in Threads, Mut!Takes(t), UNCHANGED kind,
         count = 0 \/ (Mut!Own(t) /\ count # Limit)
  PROVE  MutexInv'
<1> USE DEF Mut!Recursive, Mut!Own
<1>1. count + 1 \in 0..Limit
  BY LocksAssumption DEF MutexInv, Mut!TypeOK
<1>2. \A u \in Threads : held[u] \in Nat /\ held[u] <= Limit
  BY LocksAssumption DEF MutexInv, Mut!TypeOK
<1>3. \A u \in Threads : held'[u] = IF u = t THEN held[t] + 1 ELSE held[u]
  BY Zenon DEF Mut!Takes, MutexInv, Mut!TypeOK
<1>4. \A u \in Threads : pc'[u] = IF u = t THEN "run" ELSE pc[u]
  BY Zenon DEF Mut!Takes, Mut!Goes, MutexInv, Mut!TypeOK
<1>5. held[t] = count
  <2>1. CASE count = 0
    BY <2>1, <1>2 DEF MutexInv, HolderInv
  <2>2. CASE Mut!Own(t)
    BY Zenon, <2>2, <1>2 DEF MutexInv, HolderInv, IdInv
  <2> QED BY Zenon, <2>1, <2>2
<1>6. \A u \in Threads \ {t} : held[u] = 0
  <2>1. CASE count = 0
    BY <2>1, <1>2 DEF MutexInv, HolderInv
  <2>2. CASE Mut!Own(t)
    BY <2>2, <1>2 DEF MutexInv, HolderInv, IdInv
  <2> QED BY Zenon, <2>1, <2>2
<1>7. Mut!TypeOK'
  <2>1. held' \in [Threads -> 0..Limit]
    BY Zenon, <1>1, <1>5 DEF Mut!Takes, MutexInv, Mut!TypeOK
  <2>2. pc' \in [Threads -> {"run", "wait", "waitTimed", "woken", "wokenTimed", "notify"}]
    BY Zenon DEF Mut!Takes, Mut!Goes, MutexInv, Mut!TypeOK
  <2> QED BY Zenon, <1>1, <2>1, <2>2 DEF Mut!Takes, MutexInv, Mut!TypeOK
<1>8. HolderInv'
  BY <1>1, <1>2, <1>3, <1>4, <1>5, <1>6 DEF Mut!Takes, HolderInv
<1>9. IdInv'
  BY <1>2, <1>3, <1>5, <1>6, LocksAssumption DEF Mut!Takes, MutexInv, IdInv
<1> QED BY Zenon, <1>7, <1>8, <1>9 DEF MutexInv

\* A thread without locks goes on elsewhere, or stays where it is.
LEMMA WithoutKeeps ==
  ASSUME MutexInv, NEW t \in Threads, UNCHANGED <<kind, count, id, held>>,
         NEW l \in {"run", "wait", "waitTimed", "woken", "wokenTimed", "notify"},
         Mut!Goes(t, l), held[t] = 0 \/ l = "run"
  PROVE  MutexInv'
<1>1. \A u \in Threads : pc'[u] = IF u = t THEN l ELSE pc[u]
  BY Zenon DEF Mut!Goes, MutexInv, Mut!TypeOK
<1>2. Mut!TypeOK'
  BY Zenon DEF Mut!Goes, MutexInv, Mut!TypeOK
<1>3. HolderInv'
  BY <1>1 DEF MutexInv, HolderInv, Mut!TypeOK
<1>4. IdInv'
  BY Zenon DEF MutexInv, IdInv, Mut!Recursive
<1> QED BY Zenon, <1>2, <1>3, <1>4 DEF MutexInv

\* Taking the mutex leaves nobody waiting for a free one.
LEMMA TakesStep ==
  ASSUME MutexInv, NEW t \in Threads, Mut!Takes(t), UNCHANGED kind,
         count = 0 \/ (Mut!Own(t) /\ count # Limit)
  PROVE  MutexInv' /\ Mut!NoLostSignal'
<1>1. MutexInv'
  BY Zenon, TakesKeeps
<1>2. count' # 0
  BY LocksAssumption DEF Mut!Takes, MutexInv, Mut!TypeOK
<1> QED BY Zenon, <1>1, <1>2 DEF Mut!NoLostSignal

\* Neither does going to sleep, or giving up, while the mutex is taken.
LEMMA StayStep ==
  ASSUME MutexInv, NEW t \in Threads, UNCHANGED kind, count # 0,
         NEW l \in {"run", "wait", "waitTimed"},
         Mut!Without(t, l), held[t] = 0 \/ l = "run"
  PROVE  MutexInv' /\ Mut!NoLostSignal'
<1>1. MutexInv'
  BY Zenon, WithoutKeeps DEF Mut!Without
<1>2. count' # 0
  BY Zenon DEF Mut!Without
<1> QED BY Zenon, <1>1, <1>2 DEF Mut!NoLostSignal

\* The owner locks again, or is refused at the limit.
LEMMA AgainStep ==
  ASSUME MutexInv, NEW t \in Threads, UNCHANGED kind, Mut!Again(t),
         count = 0 \/ Mut!Own(t)
  PROVE  MutexInv' /\ Mut!NoLostSignal'
<1>1. CASE count = Limit
  <2>1. count # 0 /\ Mut!Without(t, "run")
    BY Zenon, <1>1, LocksAssumption DEF Mut!Again
  <2> QED BY Zenon, <2>1, StayStep
<1>2. CASE count # Limit
  BY Zenon, <1>2, TakesStep DEF Mut!Again
<1> QED BY Zenon, <1>1, <1>2

\* A thread that may lock and is not __id_ has no lock.
LEMMA CallerWithout ==
  ASSUME MutexInv, NEW t \in Threads, ~ Mut!Own(t), Mut!Calls(t) \/ pc[t] # "run"
  PROVE  held[t] = 0
<1>1. held[t] \in Nat
  BY DEF MutexInv, Mut!TypeOK
<1>2. CASE pc[t] # "run"
  BY <1>1, <1>2 DEF MutexInv, HolderInv
<1>3. CASE Mut!Calls(t)
  BY <1>1, <1>3 DEF Mut!Calls, Mut!Own, MutexInv, IdInv
<1> QED BY Zenon, <1>2, <1>3

\* notify_one() wakes a thread if one waits, and disturbs nobody else.
LEMMA NotifyWakes ==
  ASSUME Mut!TypeOK, NEW t \in Threads, pc[t] \in {"run", "notify"}, Mut!NotifyOne(t)
  PROVE  /\ pc' \in [Threads -> {"run", "wait", "waitTimed", "woken", "wokenTimed", "notify"}]
         /\ \A u \in Threads : pc[u] = "run" => pc'[u] = "run"
         /\ Mut!Waiting' # {} => \E u \in Threads : pc'[u] \in {"woken", "wokenTimed", "notify"}
<1>1. CASE Mut!Waiting = {}
  BY Zenon, <1>1 DEF Mut!NotifyOne, Mut!Goes, Mut!Waiting, Mut!TypeOK
<1>2. CASE Mut!Waiting # {}
  <2>1. PICK u \in Mut!Waiting : pc' = [pc EXCEPT ![u] = Mut!Woken(@), ![t] = "run"]
    BY Zenon, <1>2 DEF Mut!NotifyOne
  <2>2. u \in Threads /\ u # t /\ pc[u] \in {"wait", "waitTimed"}
    BY Zenon, <2>1 DEF Mut!Waiting
  <2>3. \A v \in Threads :
          pc'[v] = IF v = t THEN "run" ELSE IF v = u THEN Mut!Woken(pc[u]) ELSE pc[v]
    BY Zenon, <2>1, <2>2 DEF Mut!TypeOK
  <2>4. Mut!Woken(pc[u]) \in {"woken", "wokenTimed"}
    BY Zenon DEF Mut!Woken
  <2>5. pc' \in [Threads -> {"run", "wait", "waitTimed", "woken", "wokenTimed", "notify"}]
    BY Zenon, <2>1, <2>2, <2>4 DEF Mut!TypeOK
  <2>6. \A v \in Threads : pc[v] = "run" => pc'[v] = "run"
    BY Zenon, <2>2, <2>3
  <2>7. pc'[u] \in {"woken", "wokenTimed", "notify"}
    BY Zenon, <2>2, <2>3, <2>4
  <2> QED BY Zenon, <2>2, <2>5, <2>6, <2>7
<1> QED BY Zenon, <1>1, <1>2

\* lock() keeps the invariant: it takes the mutex, or sleeps while it is taken.
LEMMA LockStep ==
  ASSUME MutexInv, NEW t \in Threads, Mut!lock(t)
  PROVE  MutexInv' /\ Mut!NoLostSignal'
<1>1. CASE Mut!Own(t) /\ Mut!Again(t)
  BY Zenon, <1>1, AgainStep DEF Mut!lock
<1>2. CASE ~ Mut!Own(t) /\ count = 0 /\ Mut!Takes(t)
  BY Zenon, <1>2, TakesStep DEF Mut!lock
<1>3. CASE ~ Mut!Own(t) /\ count # 0 /\ Mut!Without(t, "wait")
  <2>1. held[t] = 0
    BY Zenon, <1>3, CallerWithout DEF Mut!lock
  <2> QED BY Zenon, <1>3, <2>1, StayStep DEF Mut!lock
<1> QED BY Zenon, <1>1, <1>2, <1>3 DEF Mut!lock

\* try_lock() keeps it: it takes the mutex or changes nothing.
LEMMA TryLockStep ==
  ASSUME MutexInv, Mut!NoLostSignal, NEW t \in Threads, Mut!try_lock(t)
  PROVE  MutexInv' /\ Mut!NoLostSignal'
<1>1. CASE (count = 0 \/ Mut!Own(t)) /\ Mut!Again(t)
  BY Zenon, <1>1, AgainStep DEF Mut!try_lock
<1>2. CASE Mut!Without(t, "run")
  <2>1. MutexInv'
    BY Zenon, <1>2, WithoutKeeps DEF Mut!try_lock, Mut!Without
  <2>2. pc' = pc /\ count' = count
    BY Zenon, <1>2 DEF Mut!try_lock, Mut!Calls, Mut!Without, Mut!Goes, MutexInv, Mut!TypeOK
  <2> QED BY Zenon, <2>1, <2>2 DEF Mut!NoLostSignal, Mut!Waiting
<1> QED BY Zenon, <1>1, <1>2 DEF Mut!try_lock

\* try_lock_until() keeps it: a thread gives up only while the mutex is taken.
LEMMA TryLockUntilStep ==
  ASSUME MutexInv, NEW t \in Threads, Mut!try_lock_until(t)
  PROVE  MutexInv' /\ Mut!NoLostSignal'
<1>1. CASE Mut!Own(t) /\ Mut!Again(t)
  BY Zenon, <1>1, AgainStep DEF Mut!try_lock_until
<1>2. CASE ~ Mut!Own(t) /\ count = 0 /\ Mut!Takes(t)
  BY Zenon, <1>2, TakesStep DEF Mut!try_lock_until
<1>3. CASE ~ Mut!Own(t) /\ count # 0 /\ Mut!Without(t, "run")
  BY Zenon, <1>3, StayStep DEF Mut!try_lock_until
<1>4. CASE ~ Mut!Own(t) /\ count # 0 /\ Mut!Without(t, "waitTimed")
  <2>1. held[t] = 0
    BY Zenon, <1>4, CallerWithout DEF Mut!try_lock_until, Mut!TimedEnds
  <2> QED BY Zenon, <1>4, <2>1, StayStep DEF Mut!try_lock_until
<1> QED BY Zenon, <1>1, <1>2, <1>3, <1>4 DEF Mut!try_lock_until

\* unlock() keeps it: the last one wakes a thread or is about to.
LEMMA UnlockStep ==
  ASSUME MutexInv, NEW t \in Threads, Mut!unlock(t)
  PROVE  MutexInv' /\ Mut!NoLostSignal'
<1>1. \A u \in Threads : held[u] \in Nat
  BY DEF MutexInv, Mut!TypeOK
<1>2. held[t] = count /\ count \in Nat /\ count > 0 /\ pc[t] = "run"
  BY DEF Mut!unlock, MutexInv, HolderInv, Mut!TypeOK
<1>3. \A u \in Threads \ {t} : held[u] = 0
  BY <1>1, <1>2 DEF Mut!unlock, MutexInv, HolderInv
<1>4. \A u \in Threads : held'[u] = IF u = t THEN count - 1 ELSE 0
  BY Zenon, <1>2, <1>3 DEF Mut!unlock, MutexInv, Mut!TypeOK
<1>5. count' = count - 1 /\ kind' = kind
  BY Zenon DEF Mut!unlock
<1>6. count' \in 0..Limit /\ held' \in [Threads -> 0..Limit] /\ kind' \in {"timed", "recursive"}
  BY <1>2, <1>5, LocksAssumption DEF Mut!unlock, MutexInv, Mut!TypeOK
<1>7. CASE count > 1
  <2>1. id' = id /\ pc' = pc
    BY Zenon, <1>7 DEF Mut!unlock
  <2>2. Mut!TypeOK'
    BY Zenon, <1>6, <2>1 DEF MutexInv, Mut!TypeOK
  <2>3. HolderInv'
    BY <1>2, <1>4, <1>5, <1>7, <2>1 DEF HolderInv
  <2>4. IdInv'
    BY <1>2, <1>3, <1>4, <1>5, <1>7, <2>1 DEF MutexInv, IdInv, Mut!Recursive
  <2>5. count' # 0
    BY <1>2, <1>5, <1>7
  <2> QED BY Zenon, <2>2, <2>3, <2>4, <2>5 DEF MutexInv, Mut!NoLostSignal
<1>8. CASE ~ (count > 1)
  <2>1. count = 1 /\ id' = NoThread
    BY <1>2, <1>8 DEF Mut!unlock
  <2>2. /\ pc' \in [Threads -> {"run", "wait", "waitTimed", "woken", "wokenTimed", "notify"}]
        /\ Mut!Waiting' # {} => \E u \in Threads : pc'[u] \in {"woken", "wokenTimed", "notify"}
    <3>1. CASE Mut!Recursive
      <4>1. pc' = [pc EXCEPT ![t] = "notify"]
        BY Zenon, <1>8, <3>1 DEF Mut!unlock, Mut!Goes
      <4>2. pc'[t] = "notify"
        BY Zenon, <4>1 DEF MutexInv, Mut!TypeOK
      <4> QED BY Zenon, <4>1, <4>2 DEF MutexInv, Mut!TypeOK
    <3>2. CASE ~ Mut!Recursive
      BY Zenon, <1>2, <1>8, <3>2, NotifyWakes DEF Mut!unlock, MutexInv
    <3> QED BY Zenon, <3>1, <3>2
  <2>3. \A u \in Threads : held'[u] = 0
    BY <1>4, <2>1
  <2>4. Mut!TypeOK'
    BY Zenon, <1>6, <2>1, <2>2 DEF Mut!TypeOK
  <2>5. HolderInv'
    BY <1>5, <2>1, <2>3 DEF HolderInv
  <2>6. IdInv'
    BY <2>1, <2>3, LocksAssumption DEF IdInv
  <2> QED BY Zenon, <2>2, <2>4, <2>5, <2>6 DEF MutexInv, Mut!NoLostSignal
<1> QED BY Zenon, <1>7, <1>8

\* The notification after unlock() of a recursive mutex keeps it.
LEMMA NotifyOneStep ==
  ASSUME MutexInv, NEW t \in Threads, Mut!notify_one(t)
  PROVE  MutexInv' /\ Mut!NoLostSignal'
<1>1. /\ pc' \in [Threads -> {"run", "wait", "waitTimed", "woken", "wokenTimed", "notify"}]
      /\ \A u \in Threads : pc[u] = "run" => pc'[u] = "run"
      /\ Mut!Waiting' # {} => \E u \in Threads : pc'[u] \in {"woken", "wokenTimed", "notify"}
  BY Zenon, NotifyWakes DEF Mut!notify_one, MutexInv
<1>2. Mut!TypeOK'
  BY Zenon, <1>1 DEF Mut!notify_one, MutexInv, Mut!TypeOK
<1>3. HolderInv'
  BY Zenon, <1>1 DEF Mut!notify_one, MutexInv, HolderInv
<1>4. IdInv'
  BY Zenon DEF Mut!notify_one, MutexInv, IdInv, Mut!Recursive
<1> QED BY Zenon, <1>1, <1>2, <1>3, <1>4 DEF MutexInv, Mut!NoLostSignal

\* A wake-up without a notification keeps it.
LEMMA SpuriousStep ==
  ASSUME MutexInv, NEW t \in Threads, Mut!Spurious(t)
  PROVE  MutexInv' /\ Mut!NoLostSignal'
<1>1. Mut!Woken(pc[t]) \in {"woken", "wokenTimed"} /\ pc[t] # "run"
  BY Zenon DEF Mut!Spurious, Mut!Waiting, Mut!Woken
<1>2. held[t] = 0
  BY <1>1 DEF MutexInv, HolderInv, Mut!TypeOK
<1>3. MutexInv'
  BY Zenon, <1>1, <1>2, WithoutKeeps DEF Mut!Spurious
<1>4. pc'[t] \in {"woken", "wokenTimed"}
  BY Zenon, <1>1 DEF Mut!Spurious, Mut!Goes, MutexInv, Mut!TypeOK
<1> QED BY Zenon, <1>3, <1>4 DEF Mut!NoLostSignal

\* So does every step, and at the start the mutex is free.
LEMMA MutexInit == Mut!Init => MutexInv /\ Mut!NoLostSignal
  BY LocksAssumption
     DEF Mut!Init, MutexInv, Mut!TypeOK, HolderInv, IdInv, Mut!NoLostSignal, Mut!Waiting

\* Every step of a timed mutex keeps its invariant.
LEMMA MutexKept ==
  ASSUME MutexInv, Mut!NoLostSignal, [Mut!Next]_(Mut!vars)
  PROVE  MutexInv' /\ Mut!NoLostSignal'
<1>1. CASE UNCHANGED Mut!vars
  BY Zenon, <1>1 DEF Mut!vars, MutexInv, Mut!TypeOK, HolderInv, IdInv, Mut!Recursive,
              Mut!NoLostSignal, Mut!Waiting
<1>2. CASE Mut!Next
  <2> PICK t \in Threads : \/ Mut!lock(t) \/ Mut!try_lock(t) \/ Mut!try_lock_until(t)
                           \/ Mut!unlock(t) \/ Mut!notify_one(t) \/ Mut!Spurious(t)
    BY Zenon, <1>2 DEF Mut!Next
  <2> QED BY Zenon, LockStep, TryLockStep, TryLockUntilStep, UnlockStep, NotifyOneStep, SpuriousStep
<1> QED BY Zenon, <1>1, <1>2

\* The invariant says that the mutex has one owner.
LEMMA MutexExcludes == MutexInv /\ Mut!NoLostSignal => Mut!Excludes
  BY DEF MutexInv, Mut!TypeOK, HolderInv, Mut!OneOwner, Mut!Excludes

-----------------------------------------------------------------------------
(* The emergency buffers.                                                  *)

\* A thread that gives a buffer back.
Releasing(t) == pc[t] \in {"clear", "unlock"}

\* A thread on its way to a buffer has not reached its limit.
HeldInv ==
  \A t \in Threads : pc[t] \in {"lock", "try", "wait", "held"} => emergencyBuffersHeld[t] < MaxHeld

\* A buffer that is in use or being given back is marked, and is in one of
\* these ways with one thread only.
BufferInv ==
  /\ \A t \in Threads : \A b \in own[t] : buffer_allocated[b]
  /\ \A t, u \in Threads : t # u => own[t] \intersect own[u] = {}
  /\ \A t \in Threads : Releasing(t) => buffer_allocated[arg[t]]
  /\ \A t, u \in Threads : Releasing(t) => arg[t] \notin own[u]
  /\ \A t, u \in Threads : Releasing(t) /\ Releasing(u) /\ t # u => arg[t] # arg[u]

\* A buffer is clear from the memset until its next owner writes into it.
ContentInv ==
  /\ \A b \in Pool!Buffers : ~buffer_allocated[b] => content[b] = "zero"
  /\ \A t \in Threads : pc[t] = "unlock" => content[arg[t]] = "zero"
  /\ \A t \in Threads : \A b \in own[t] :
       content[b] = t \/ (pc[t] = "held" /\ content[b] = "zero")

PoolInv == Pool!TypeOK /\ HeldInv /\ BufferInv /\ ContentInv

\* At the start nothing is taken.
LEMMA PoolInit == Pool!Init => PoolInv
<1> SUFFICES ASSUME Pool!Init PROVE PoolInv
  BY Zenon
<1>1. Pool!TypeOK
  <2>1. /\ pc \in [Threads -> {"run", "lock", "try", "wait", "held", "clear", "unlock"}]
        /\ own \in [Threads -> SUBSET Pool!Buffers]
    BY Zenon DEF Pool!Init
  <2>2. arg \in [Threads -> Pool!Buffers] /\ emergencyBuffersHeld \in [Threads -> 0..MaxHeld]
    BY LocksAssumption DEF Pool!Init, Pool!Buffers
  <2>3. buffer_allocated \in [Pool!Buffers -> BOOLEAN]
        /\ content \in [Pool!Buffers -> Threads \union {"zero"}]
    BY Zenon DEF Pool!Init
  <2>4. lock \in Threads \union {"free"} /\ ended \in BOOLEAN
    BY Zenon DEF Pool!Init
  <2> QED BY Zenon, <2>1, <2>2, <2>3, <2>4 DEF Pool!TypeOK
<1>2. HeldInv /\ BufferInv /\ ContentInv
  BY Zenon DEF Pool!Init, HeldInv, BufferInv, ContentInv, Releasing
<1> QED BY Zenon, <1>1, <1>2 DEF PoolInv

\* The operations keep the invariant.
LEMMA AllocStep == ASSUME PoolInv, NEW t \in Threads, Pool!alloc_or_die(t) PROVE PoolInv'
<1>1. Pool!TypeOK'
  BY Zenon DEF PoolInv, Pool!TypeOK, Pool!alloc_or_die, Pool!Goes
<1>2. HeldInv'
  BY LocksAssumption DEF PoolInv, Pool!TypeOK, HeldInv, Pool!alloc_or_die, Pool!Goes
<1>3. BufferInv' /\ ContentInv'
  BY DEF PoolInv, Pool!TypeOK, BufferInv, ContentInv, Releasing, Pool!alloc_or_die, Pool!Goes
<1> QED BY Zenon, <1>1, <1>2, <1>3 DEF PoolInv

\* A thread locks the mutex of the pool.
LEMMA PoolLockStep == ASSUME PoolInv, NEW t \in Threads, Pool!Lock(t) PROVE PoolInv'
<1>1. Pool!TypeOK'
  BY Zenon DEF PoolInv, Pool!TypeOK, Pool!Lock, Pool!Goes
<1>2. HeldInv' /\ BufferInv' /\ ContentInv'
  BY DEF PoolInv, Pool!TypeOK, HeldInv, BufferInv, ContentInv, Releasing, Pool!Lock, Pool!Goes
<1> QED BY Zenon, <1>1, <1>2 DEF PoolInv

\* calloc has memory again.
LEMMA CallocStep == ASSUME PoolInv, NEW t \in Threads, Pool!CallocSucceeds(t) PROVE PoolInv'
<1>1. Pool!TypeOK'
  BY Zenon DEF PoolInv, Pool!TypeOK, Pool!CallocSucceeds, Pool!Goes
<1>2. HeldInv' /\ BufferInv' /\ ContentInv'
  BY DEF PoolInv, Pool!TypeOK, HeldInv, BufferInv, ContentInv, Releasing, Pool!CallocSucceeds,
         Pool!Goes
<1> QED BY Zenon, <1>1, <1>2 DEF PoolInv

\* A free buffer is marked as allocated.
LEMMA TakeBufferStep == ASSUME PoolInv, NEW t \in Threads, Pool!TakeBuffer(t) PROVE PoolInv'
<1>1. CASE Pool!Free = {}
  <2>1. Pool!TypeOK'
    BY Zenon, <1>1 DEF PoolInv, Pool!TypeOK, Pool!TakeBuffer, Pool!Goes
  <2>2. HeldInv' /\ BufferInv' /\ ContentInv'
    BY <1>1
       DEF PoolInv, Pool!TypeOK, HeldInv, BufferInv, ContentInv, Releasing, Pool!TakeBuffer, Pool!Goes
  <2> QED BY Zenon, <2>1, <2>2 DEF PoolInv
<1>2. CASE Pool!Free # {}
  <2>1. PICK b \in Pool!Free :
          /\ buffer_allocated' = [buffer_allocated EXCEPT ![b] = TRUE]
          /\ own' = [own EXCEPT ![t] = @ \union {b}] /\ Pool!Goes(t, "held")
          /\ pc[t] = "try" /\ lock' = "free"
          /\ UNCHANGED <<arg, emergencyBuffersHeld, content, throws, ended>>
    BY Zenon, <1>2 DEF Pool!TakeBuffer
  <2>3. b \in Pool!Buffers /\ ~buffer_allocated[b] /\ content[b] = "zero"
    BY Zenon DEF Pool!Free, PoolInv, ContentInv
  <2>4. Pool!TypeOK'
    BY Zenon, <2>1, <2>3 DEF PoolInv, Pool!TypeOK, Pool!Goes
  <2>5. HeldInv'
    BY Zenon, <2>1 DEF PoolInv, Pool!TypeOK, HeldInv, Pool!Goes
  <2>6. BufferInv'
    BY <2>1, <2>3 DEF PoolInv, Pool!TypeOK, BufferInv, Releasing, Pool!Goes
  <2>7. ContentInv'
    BY <2>1, <2>3 DEF PoolInv, Pool!TypeOK, ContentInv, Pool!Goes
  <2> QED BY Zenon, <2>4, <2>5, <2>6, <2>7 DEF PoolInv
<1> QED BY Zenon, <1>1, <1>2

\* The thread that has a buffer constructs its exception there.
LEMMA HeldStep == ASSUME PoolInv, NEW t \in Threads, Pool!Held(t) PROVE PoolInv'
<1>1. Pool!TypeOK'
  BY LocksAssumption DEF PoolInv, Pool!TypeOK, HeldInv, Pool!Held, Pool!Goes
<1>2. HeldInv'
  BY Zenon, LocksAssumption DEF PoolInv, Pool!TypeOK, HeldInv, Pool!Held, Pool!Goes
<1>3. BufferInv'
  BY DEF PoolInv, Pool!TypeOK, BufferInv, Releasing, Pool!Held, Pool!Goes
<1>4. ContentInv'
  BY DEF PoolInv, Pool!TypeOK, BufferInv, ContentInv, Releasing, Pool!Held, Pool!Goes
<1> QED BY Zenon, <1>1, <1>2, <1>3, <1>4 DEF PoolInv

\* An exception is freed, in whichever thread it ends.
LEMMA FreeStep ==
  ASSUME PoolInv, NEW t \in Threads, NEW b \in Pool!Buffers, Pool!free_exception(t, b)
  PROVE  PoolInv'
<1>1. Pool!TypeOK'
  <2>1. CASE b = 0
    BY Zenon, <2>1 DEF PoolInv, Pool!TypeOK, Pool!free_exception
  <2>2. CASE b # 0
    BY <2>2 DEF PoolInv, Pool!TypeOK, Pool!free_exception, Pool!Goes
  <2> QED BY Zenon, <2>1, <2>2
<1>2. HeldInv'
  BY Zenon DEF PoolInv, Pool!TypeOK, HeldInv, Pool!free_exception, Pool!Goes
<1>3. BufferInv'
  BY DEF PoolInv, Pool!TypeOK, BufferInv, Releasing, Pool!free_exception, Pool!Goes
<1>4. ContentInv'
  BY DEF PoolInv, Pool!TypeOK, ContentInv, Pool!free_exception, Pool!Goes
<1> QED BY Zenon, <1>1, <1>2, <1>3, <1>4 DEF PoolInv

\* The buffer is cleared.
LEMMA MemsetStep == ASSUME PoolInv, NEW t \in Threads, Pool!Memset(t) PROVE PoolInv'
<1>1. Pool!TypeOK'
  BY Zenon DEF PoolInv, Pool!TypeOK, Pool!Memset, Pool!Goes
<1>2. HeldInv'
  BY Zenon DEF PoolInv, Pool!TypeOK, HeldInv, Pool!Memset, Pool!Goes
<1>3. BufferInv'
  BY DEF PoolInv, Pool!TypeOK, BufferInv, Releasing, Pool!Memset, Pool!Goes
<1>4. ContentInv'
  BY DEF PoolInv, Pool!TypeOK, BufferInv, ContentInv, Releasing, Pool!Memset, Pool!Goes
<1> QED BY Zenon, <1>1, <1>2, <1>3, <1>4 DEF PoolInv

\* The buffer is marked as free.
LEMMA GiveBackStep ==
  ASSUME PoolInv, NEW t \in Threads, Pool!emergency_malloc_free(t)
  PROVE  PoolInv'
<1>1. /\ pc[t] = "unlock" /\ buffer_allocated' = [buffer_allocated EXCEPT ![arg[t]] = FALSE]
      /\ UNCHANGED <<own, arg, emergencyBuffersHeld, content, throws, lock, ended>>
      /\ arg[t] \in Pool!Buffers
  BY Zenon DEF PoolInv, Pool!TypeOK, Pool!emergency_malloc_free
<1>2. /\ pc' \in [Threads -> {"run", "lock", "try", "wait", "held", "clear", "unlock"}]
      /\ pc'[t] = "run"
      /\ \A u \in Threads \ {t} : pc'[u] = pc[u] \/ (pc[u] = "wait" /\ pc'[u] = "lock")
  BY Zenon DEF PoolInv, Pool!TypeOK, Pool!emergency_malloc_free, Pool!Goes
<1>3. Pool!TypeOK'
  BY Zenon, <1>1, <1>2 DEF PoolInv, Pool!TypeOK
<1>4. HeldInv'
  BY Zenon, <1>1, <1>2 DEF PoolInv, HeldInv
<1>5. BufferInv'
  BY <1>1, <1>2 DEF PoolInv, Pool!TypeOK, BufferInv, Releasing
<1>6. ContentInv'
  BY <1>1, <1>2 DEF PoolInv, Pool!TypeOK, ContentInv
<1> QED BY Zenon, <1>3, <1>4, <1>5, <1>6 DEF PoolInv

\* So does every step.
LEMMA PoolKept == ASSUME PoolInv, [Pool!Next]_(Pool!vars) PROVE PoolInv'
<1>1. CASE UNCHANGED Pool!vars
  BY <1>1 DEF Pool!vars, PoolInv, Pool!TypeOK, HeldInv, BufferInv, ContentInv, Releasing
<1>2. CASE Pool!Next
  BY Zenon, <1>2, AllocStep, PoolLockStep, CallocStep, TakeBufferStep, HeldStep, FreeStep, MemsetStep,
     GiveBackStep DEF Pool!Next
<1> QED BY Zenon, <1>1, <1>2

\* The invariant says that buffers are clean.
LEMMA PoolClean == PoolInv => Pool!TypeOK /\ Pool!BuffersClean
  BY Zenon DEF PoolInv, BufferInv, ContentInv, Pool!BuffersClean

-----------------------------------------------------------------------------
(* What holds in every behaviour.                                          *)

\* A process goes on with the part it began with, one step of it at a time.
LEMMA WhichStep ==
  ASSUME [LocksNext]_<<which, pc, lockVars>>
  PROVE  /\ which' = which
         /\ which = "Once" => [Once!Next]_(Once!vars)
         /\ which = "TimedMutex" => [Mut!Next]_(Mut!vars)
         /\ which = "EmergencyPool" => [Pool!Next]_(Pool!vars)
<1>1. CASE LocksNext
  BY Zenon, <1>1 DEF LocksNext
<1>2. CASE UNCHANGED <<which, pc, lockVars>>
  BY Zenon, <1>2 DEF lockVars, onceVars, mutexVars, poolVars, Once!vars, Mut!vars, Pool!vars
<1> QED BY Zenon, <1>1, <1>2

\* The function of call_once, or the initialiser of a static, completes once,
\* whatever the threads do and however often it throws.
THEOREM CompletesOnce == LocksSpec => []DoneOnce
<1> DEFINE I == which = "Once" => OnceInv
<1>1. LocksInit => I
  BY Zenon, OnceInit DEF LocksInit
<1>2. I /\ [LocksNext]_<<which, pc, lockVars>> => I'
  BY Zenon, WhichStep, OnceKept
<1>3. I => DoneOnce
  BY Zenon, InvDoneOnce DEF DoneOnce
<1> QED BY <1>1, <1>2, <1>3, PTL DEF LocksSpec

\* Timed mutexes exclude and nobody waits for a free one unnoticed; emergency
\* buffers have one exception at a time and are clear when they are free.
THEOREM OneOwner == LocksSpec => []Excludes
<1> DEFINE I == /\ which = "TimedMutex" => MutexInv /\ Mut!NoLostSignal
                /\ which = "EmergencyPool" => PoolInv
<1>1. LocksInit => I
  BY Zenon, MutexInit, PoolInit DEF LocksInit
<1>2. I /\ [LocksNext]_<<which, pc, lockVars>> => I'
  BY Zenon, WhichStep, MutexKept, PoolKept
<1>3. I => Excludes
  BY Zenon, MutexExcludes, PoolClean DEF Excludes
<1> QED BY <1>1, <1>2, <1>3, PTL DEF LocksSpec

-----------------------------------------------------------------------------
(* Framing: sequences of characters.                                       *)

Char == {"1", "2", "3", "4", "5", "6", "7", "8", "9", "a", "sp", "nl", "?"}
Text == Seq(Char)

\* Texts of one length with the same characters are equal.
LEMMA SameText ==
  ASSUME NEW s \in Text, NEW t \in Text, Len(s) = Len(t), \A j \in 1..Len(t) : s[j] = t[j]
  PROVE  s = t
BY DEF Text

\* The characters of two texts, one after the other.
LEMMA Joint ==
  ASSUME NEW s \in Text, NEW t \in Text
  PROVE  /\ s \o t \in Text /\ Len(s \o t) = Len(s) + Len(t)
         /\ \A j \in 1..Len(s) : (s \o t)[j] = s[j]
         /\ \A j \in 1..Len(t) : (s \o t)[Len(s) + j] = t[j]
BY DEF Text

\* The characters from a to b of a text.
LEMMA Piece ==
  ASSUME NEW s \in Text, NEW a \in Nat \ {0}, NEW b \in Nat, b <= Len(s), a <= b + 1
  PROVE  /\ SubSeq(s, a, b) \in Text /\ Len(SubSeq(s, a, b)) = b - a + 1
         /\ \A j \in 1..(b - a + 1) : SubSeq(s, a, b)[j] = s[a + j - 1]
BY DEF Text

\* A text has a length.
LEMMA Length == ASSUME NEW s \in Text PROVE Len(s) \in Nat
BY DEF Text

\* What one more element does to a list.
LEMMA OneMore ==
  ASSUME NEW S, NEW s \in Seq(S), NEW x \in S
  PROVE  /\ Append(s, x) \in Seq(S) /\ Len(Append(s, x)) = Len(s) + 1 /\ Len(s) \in Nat
         /\ \A j \in 1..Len(s) : Append(s, x)[j] = s[j]
         /\ Append(s, x)[Len(s) + 1] = x
OBVIOUS

-----------------------------------------------------------------------------
(* Framing: messages and frames.                                           *)

\* A message is a text that fits the policy; a line has no newline in it.
LEMMA MessageIs ==
  ASSUME NEW p \in {"line", "length"}, NEW m \in Messages(p)
  PROVE  /\ m \in Text /\ Len(m) \in Nat \ {0}
         /\ p = "line" => Len(m) <= MAX_MSG_SIZE /\ \A j \in 1..Len(m) : m[j] # "nl"
         /\ p = "length" => Len(m) \in 1..9
<1>1. PICK n \in Sizes(p) : m \in [1..n -> Letters(p)]
  BY Zenon DEF Messages
<1>2. n \in Nat \ {0} /\ Letters(p) \subseteq Char
  <2>1. n \in Nat \ {0}
    BY FramingAssumption DEF Sizes
  <2>2. Letters(p) \subseteq Char
    BY Zenon DEF Letters, Char
  <2> QED BY Zenon, <2>1, <2>2
<1>3. m \in [1..n -> Char]
  BY Zenon, <1>1, <1>2
<1>4. m \in Seq(Char) /\ Len(m) = n
  BY ONLY SMTT(30), <1>2, <1>3
<1>5. p = "line" => \A j \in 1..n : m[j] # "nl"
  BY Zenon, <1>1 DEF Letters
<1> QED BY <1>2, <1>4, <1>5, FramingAssumption DEF Sizes, Text

\* What fits a buffer.
LEMMA LongestIs ==
  /\ MAX_MSG_SIZE \in Nat \ {0} /\ Longest("line") = MAX_MSG_SIZE - 1 /\ Longest("length") = MAX_MSG_SIZE
  /\ \A n \in Nat : n <= Longest("line") <=> n < MAX_MSG_SIZE
  /\ \A p \in {"line", "length"} : Longest(p) \in Nat /\ Longest(p) <= MAX_MSG_SIZE
<1>1. MAX_MSG_SIZE \in Nat \ {0} /\ Longest("line") = MAX_MSG_SIZE - 1 /\ Longest("length") = MAX_MSG_SIZE
  BY Zenon, FramingAssumption DEF Longest
<1> QED BY <1>1

\* A length of one digit is written with a character of its own.
LEMMA Digits ==
  /\ \A a \in 1..9 : Numerals[a] \in Char
  /\ \A a, b \in 1..9 : Numerals[a] = Numerals[b] => a = b
<1>1. \A a \in 1..9 : a \in {1, 2, 3, 4, 5, 6, 7, 8, 9}
  OBVIOUS
<1>2. /\ Numerals[1] = "1" /\ Numerals[2] = "2" /\ Numerals[3] = "3" /\ Numerals[4] = "4"
      /\ Numerals[5] = "5" /\ Numerals[6] = "6" /\ Numerals[7] = "7" /\ Numerals[8] = "8"
      /\ Numerals[9] = "9"
  BY Zenon DEF Numerals
<1> QED BY <1>1, <1>2 DEF Char

\* What Line::Put writes, character by character.
LEMMA LineFrame ==
  ASSUME NEW m \in Messages("line")
  PROVE  /\ Framed("line", m) \in Text /\ Len(Framed("line", m)) = Len(m) + 1
         /\ Framed("line", m)[Len(m) + 1] = "nl"
         /\ \A j \in 1..Len(m) : Framed("line", m)[j] = m[j]
<1>1. m \in Seq(Char) /\ "nl" \in Char
  BY Zenon, MessageIs DEF Text, Char
<1>2. Framed("line", m) = Append(m, "nl")
  BY Zenon DEF Framed
<1> QED BY ONLY SMTT(30), <1>1, <1>2, OneMore DEF Text

\* What Length::Put writes, character by character.
LEMMA LengthFrame ==
  ASSUME NEW m \in Messages("length")
  PROVE  /\ Framed("length", m) \in Text /\ Len(Framed("length", m)) = Len(m) + 2
         /\ Framed("length", m)[1] = Numerals[Len(m)]
         /\ \A j \in 1..Len(m) : Framed("length", m)[j + 2] = m[j]
<1> DEFINE h == <<Numerals[Len(m)], "sp">>
<1>1. m \in Text /\ Len(m) \in 1..9
  BY Zenon, MessageIs
<1>2. h \in Text /\ Len(h) = 2 /\ h[1] = Numerals[Len(m)] /\ 1 \in 1..Len(h)
  <2>1. Numerals[Len(m)] \in Char /\ "sp" \in Char
    BY Zenon, <1>1, Digits DEF Char
  <2> QED BY ONLY SMTT(30), <2>1 DEF Text
<1>3. Framed("length", m) = h \o m
  BY Zenon DEF Framed
<1> HIDE DEF h
<1>4. /\ h \o m \in Text /\ Len(h \o m) = Len(h) + Len(m)
      /\ \A j \in 1..Len(h) : (h \o m)[j] = h[j]
      /\ \A j \in 1..Len(m) : (h \o m)[Len(h) + j] = m[j]
  BY Zenon, <1>1, <1>2, Joint
<1>5. /\ Len(h \o m) = Len(m) + 2 /\ (h \o m)[1] = h[1]
      /\ \A j \in 1..Len(m) : (h \o m)[j + 2] = m[j]
  <2>1. Len(m) \in Nat
    BY <1>1
  <2> QED BY ONLY SMTT(30), <1>2, <1>4, <2>1
<1> QED BY Zenon, <1>2, <1>3, <1>4, <1>5

\* Both frames are texts, longer than the message.
LEMMA FramedIs ==
  ASSUME NEW p \in {"line", "length"}, NEW m \in Messages(p)
  PROVE  /\ Framed(p, m) \in Text /\ Len(Framed(p, m)) \in Nat \ {0} /\ Len(m) \in Nat \ {0}
         /\ Len(Framed(p, m)) > Len(m) /\ (p = "line" => Len(Framed(p, m)) = Len(m) + 1)
<1>1. CASE p = "line"
  BY <1>1, MessageIs, LineFrame
<1>2. CASE p = "length"
  BY <1>2, MessageIs, LengthFrame
<1> QED BY Zenon, <1>1, <1>2

-----------------------------------------------------------------------------
(* Framing: the inductive invariant.                                       *)

\* The frame f is on the pipe q behind a characters, up to the b-th, which may
\* be missing.
Frame(a, b, f, q) ==
  /\ a <= Len(q) /\ b = a + Len(f) /\ b <= Len(q) + 1
  /\ \A j \in 1..Len(f) : a + j <= Len(q) => q[a + j] = f[j]

\* st[k] characters precede the k-th message of w, or what comes after the last.
\* Only the newline of the last may be missing, when the writer has ended.
Starts(p, w, q, c, st) ==
  /\ st \in [1..(Len(w) + 1) -> Nat] /\ st[1] = 0
  /\ \A k \in 1..Len(w) :
       /\ Frame(st[k], st[k + 1], Framed(p, w[k]), q)
       /\ st[k + 1] > Len(q) => k = Len(w) /\ c /\ p = "line"

\* After the last message, at n, comes nothing or the beginning of one more.
Beginning(p, q, n, m) ==
  /\ Len(q) - n \in 1..(Len(Framed(p, m)) - 1) /\ (p = "line" => Len(q) - n < Len(m))
  /\ \A j \in 1..(Len(q) - n) : q[n + j] = Framed(p, m)[j]

Rest(p, q, c, x, n) ==
  /\ ~c => Len(q) = n /\ ~x
  /\ c /\ ~x => Len(q) <= n
  /\ x => c /\ \E m \in Messages(p) : Beginning(p, q, n, m)

\* The reader has read what was written; the next message begins at pos.
Reader(w, q, x, st, g, n, r) ==
  /\ Len(g) <= Len(w) + 1 /\ (Len(g) > Len(w) => x)
  /\ \A k \in 1..Len(g) : k <= Len(w) => g[k] = w[k]
  /\ r => n = IF Len(g) <= Len(w) /\ st[Len(g) + 1] <= Len(q) THEN st[Len(g) + 1] ELSE Len(q)

TextInv ==
  /\ FrameTypeOK /\ pipe \in Text /\ buf \in Text /\ got \in Seq(Text)
  /\ written \in Seq(Messages(policy))

PlaceInv(st) ==
  /\ Starts(policy, written, pipe, closed, st)
  /\ Rest(policy, pipe, closed, cut, st[Len(written) + 1])
  /\ Reader(written, pipe, cut, st, got, pos, reading)

FrameInv == TextInv /\ EndsWithInput /\ \E st : PlaceInv(st)

\* Nothing is written or read at the start.
LEMMA FrameStart == FrameInit => FrameInv
<1> SUFFICES ASSUME FrameInit PROVE FrameInv
  BY Zenon
<1>1. /\ Len(written) = 0 /\ Len(pipe) = 0 /\ Len(got) = 0
      /\ pipe \in Text /\ got \in Seq(Text) /\ written \in Seq(Messages(policy))
  BY DEF FrameInit, Text
<1>2. buf \in Text /\ Len(buf) = MAX_MSG_SIZE
  <2>1. "?" \in Char
    BY Zenon DEF Char
  <2> HIDE DEF Char
  <2> QED BY <2>1, FramingAssumption DEF FrameInit, Text
<1>3. TextInv
  <2>1. pos \in 0..Len(pipe) /\ \A k \in 1..Len(got) : Len(got[k]) <= Longest(policy)
    BY <1>1 DEF FrameInit
  <2>2. /\ policy \in {"line", "length"} /\ closed \in BOOLEAN /\ cut \in BOOLEAN
        /\ reading \in BOOLEAN /\ spilled \in BOOLEAN
    BY Zenon DEF FrameInit
  <2> QED BY Zenon, <1>1, <1>2, <2>1, <2>2 DEF TextInv, FrameTypeOK
<1> DEFINE st == [k \in 1..1 |-> 0]
<1>4. Starts(policy, written, pipe, closed, st)
  BY <1>1 DEF Starts
<1>5. Rest(policy, pipe, closed, cut, st[Len(written) + 1])
  BY <1>1 DEF Rest, FrameInit
<1>6. Reader(written, pipe, cut, st, got, pos, reading)
  BY <1>1 DEF Reader, FrameInit
<1>7. EndsWithInput
  BY Zenon DEF EndsWithInput, FrameInit
<1> QED BY Zenon, <1>3, <1>4, <1>5, <1>6, <1>7 DEF FrameInv, PlaceInv

-----------------------------------------------------------------------------
(* Framing: what is written.                                               *)

\* A frame that is whole on the pipe stays when more is written.
LEMMA FrameStays ==
  ASSUME NEW q \in Text, NEW t \in Text, NEW f \in Text, NEW a \in Nat, NEW b \in Nat,
         Frame(a, b, f, q), b <= Len(q)
  PROVE  Frame(a, b, f, q \o t) /\ b <= Len(q \o t)
<1>1. Len(q) \in Nat /\ Len(t) \in Nat /\ Len(f) \in Nat
  BY Zenon, Length
<1>2. /\ Len(q \o t) = Len(q) + Len(t)
      /\ \A j \in 1..Len(q) : (q \o t)[j] = q[j]
  BY Zenon, Joint
<1>3. \A j \in 1..Len(f) : (q \o t)[a + j] = f[j]
  BY <1>1, <1>2 DEF Frame
<1> QED BY <1>1, <1>2, <1>3 DEF Frame

\* A frame that is written, but for its last character, is on the pipe.
LEMMA FrameComes ==
  ASSUME NEW q \in Text, NEW t \in Text, NEW f \in Text, Len(t) <= Len(f), Len(f) <= Len(t) + 1,
         \A j \in 1..Len(t) : t[j] = f[j]
  PROVE  Frame(Len(q), Len(q) + Len(f), f, q \o t)
<1>1. Len(q) \in Nat /\ Len(t) \in Nat /\ Len(f) \in Nat
  BY Zenon, Length
<1>2. /\ Len(q \o t) = Len(q) + Len(t)
      /\ \A j \in 1..Len(t) : (q \o t)[Len(q) + j] = t[j]
  BY Zenon, Joint
<1> QED BY <1>1, <1>2 DEF Frame

\* A message m is written as t, whole or without the newline of a last line.
Writes(p, m, t, c) ==
  /\ m \in Messages(p) /\ t \in Text
  /\ \A j \in 1..Len(t) : t[j] = Framed(p, m)[j]
  /\ Len(t) = Len(Framed(p, m)) \/ (c /\ p = "line" /\ Len(t) = Len(m))

\* The messages are then in place, u instead of st.
Extends(p, w, q, st, m, t, c, u) ==
  /\ Starts(p, Append(w, m), q \o t, c, u)
  /\ \A k \in 1..(Len(w) + 1) : u[k] = st[k]
  /\ u[Len(w) + 2] >= Len(q \o t) /\ (~c => u[Len(w) + 2] = Len(q \o t))

\* The messages are in place when one more is written; c says whether the writer
\* ends with it.
LEMMA WriteStarts ==
  ASSUME NEW p \in {"line", "length"}, NEW w \in Seq(Messages(p)), NEW q \in Text, NEW st,
         Starts(p, w, q, FALSE, st), st[Len(w) + 1] = Len(q),
         NEW m, NEW t, NEW c \in BOOLEAN, Writes(p, m, t, c)
  PROVE  \E u : Extends(p, w, q, st, m, t, c, u)
<1> DEFINE f == Framed(p, m)
           u == [k \in 1..(Len(w) + 2) |-> IF k = Len(w) + 2 THEN Len(q) + Len(f) ELSE st[k]]
           W == Len(w)
           v == Append(w, m)
           r == q \o t
<1>1. m \in Messages(p) /\ t \in Text
  BY Zenon DEF Writes
<1>2. /\ f \in Text /\ Len(f) \in Nat /\ Len(q) \in Nat /\ Len(t) \in Nat /\ W \in Nat
      /\ p = "line" => Len(f) = Len(m) + 1
  BY <1>1, FramedIs, Length
<1>3. Len(v) = W + 1 /\ v[W + 1] = m /\ \A k \in 1..W : v[k] = w[k] /\ w[k] \in Messages(p)
  BY <1>1
<1>4. r \in Text /\ Len(r) = Len(q) + Len(t)
  BY Zenon, <1>1, Joint
<1>5. Len(t) = Len(f) \/ (c /\ p = "line" /\ Len(t) + 1 = Len(f))
  BY Zenon, <1>2 DEF Writes
<1> HIDE DEF f
<1>6. st \in [1..(W + 1) -> Nat] /\ st[1] = 0
  BY Zenon DEF Starts
<1>7. /\ u \in [1..(W + 2) -> Nat] /\ u[W + 2] = Len(q) + Len(f) /\ u[1] = 0
      /\ \A k \in 1..(W + 1) : u[k] = st[k]
  BY <1>2, <1>6
<1> HIDE DEF u, v, r
<1>8. ASSUME NEW k \in 1..(W + 1)
      PROVE  /\ Frame(u[k], u[k + 1], Framed(p, v[k]), r)
             /\ u[k + 1] > Len(r) => k = W + 1 /\ c /\ p = "line"
  <2>1. CASE k = W + 1
    <3>1. Frame(Len(q), Len(q) + Len(f), f, r)
      <4>1. Len(t) <= Len(f) /\ Len(f) <= Len(t) + 1
        BY <1>2, <1>5
      <4> QED BY Zenon, <1>1, <1>2, <4>1, FrameComes DEF Writes, f, r
    <3>2. u[k] = Len(q) /\ u[k + 1] = Len(q) + Len(f) /\ Framed(p, v[k]) = f
      BY <1>2, <1>3, <1>7, <2>1 DEF f
    <3> QED BY <1>2, <1>4, <1>5, <2>1, <3>1, <3>2
  <2>2. CASE k # W + 1
    <3>1. k \in 1..W /\ k + 1 \in 1..(W + 1)
      BY <1>2, <2>2
    <3>2. v[k] = w[k] /\ w[k] \in Messages(p) /\ u[k] = st[k] /\ u[k + 1] = st[k + 1]
      BY Zenon, <1>3, <1>7, <3>1
    <3>3. Frame(st[k], st[k + 1], Framed(p, w[k]), q) /\ ~(st[k + 1] > Len(q))
      BY Zenon, <3>1 DEF Starts
    <3>4. st[k] \in Nat /\ st[k + 1] \in Nat /\ Framed(p, w[k]) \in Text
      <4>1. st[k] \in Nat /\ st[k + 1] \in Nat
        BY Zenon, <1>6, <3>1
      <4> QED BY Zenon, <3>2, <4>1, FramedIs
    <3>5. st[k + 1] <= Len(q)
      BY <1>2, <3>3, <3>4
    <3>6. Frame(st[k], st[k + 1], Framed(p, w[k]), r) /\ st[k + 1] <= Len(r)
      BY Zenon, <1>1, <3>3, <3>4, <3>5, FrameStays DEF r
    <3>7. ~(st[k + 1] > Len(r))
      BY <1>2, <1>4, <3>4, <3>6
    <3> QED BY Zenon, <3>2, <3>6, <3>7
  <2> QED BY Zenon, <2>1, <2>2
<1>9. Starts(p, v, r, c, u)
  <2>1. Len(v) + 1 = W + 2
    BY <1>2, <1>3
  <2> QED BY Zenon, <1>3, <1>7, <1>8, <2>1 DEF Starts
<1>10. u[W + 2] >= Len(r) /\ (~c => u[W + 2] = Len(r))
  <2>1. ~c => Len(t) = Len(f)
    BY Zenon, <1>5
  <2> HIDE DEF W
  <2>2. Len(t) <= Len(f) /\ (Len(t) = Len(f) => u[W + 2] = Len(r))
    <3>1. Len(t) = Len(f) \/ Len(t) + 1 = Len(f)
      BY Zenon, <1>5
    <3> QED BY ONLY SMTT(30), <1>2, <1>4, <1>7, <3>1
  <2>3. u[W + 2] >= Len(r)
    BY ONLY SMTT(30), <1>2, <1>4, <1>7, <2>2
  <2> QED BY Zenon, <2>1, <2>2, <2>3
<1> QED BY Zenon, <1>7, <1>9, <1>10 DEF Extends, v, r

\* The reader stands as it did when a message is written.
LEMMA WriteReader ==
  ASSUME NEW p, NEW w \in Seq(Messages(p)), NEW q \in Text, NEW st, Starts(p, w, q, FALSE, st),
         st[Len(w) + 1] = Len(q), NEW g \in Seq(Text), NEW n, NEW r,
         Reader(w, q, FALSE, st, g, n, r),
         NEW m \in Messages(p), NEW t \in Text, NEW u, \A k \in 1..(Len(w) + 1) : u[k] = st[k]
  PROVE  Reader(Append(w, m), q \o t, FALSE, u, g, n, r)
<1> DEFINE v == Append(w, m)
           s == q \o t
<1>1. Len(v) = Len(w) + 1 /\ (\A k \in 1..Len(w) : v[k] = w[k]) /\ Len(w) \in Nat /\ Len(g) \in Nat
  OBVIOUS
<1>2. Len(s) = Len(q) + Len(t) /\ Len(q) \in Nat /\ Len(t) \in Nat
  BY Zenon, Joint, Length
<1> HIDE DEF v, s
<1>3. Len(g) <= Len(w)
  BY <1>1 DEF Reader
<1>4. u[Len(g) + 1] = st[Len(g) + 1] /\ st[Len(g) + 1] \in Nat
  BY <1>1, <1>3 DEF Starts
<1>5. st[Len(g) + 1] <= Len(q)
  <2>1. CASE Len(g) = Len(w)
    BY <1>2, <2>1
  <2>2. CASE Len(g) # Len(w)
    <3>1. Len(g) + 1 \in 1..Len(w)
      BY <1>1, <1>3, <2>2
    <3> QED BY Zenon, <3>1 DEF Starts, Frame
  <2> QED BY Zenon, <2>1, <2>2
<1>6. r => n = st[Len(g) + 1]
  BY ZenonT(30), <1>3, <1>5 DEF Reader
<1>7. u[Len(g) + 1] <= Len(s) /\ Len(g) <= Len(v) /\ ~(Len(g) > Len(v)) /\ Len(g) <= Len(v) + 1
  BY <1>1, <1>2, <1>3, <1>4, <1>5
<1>8. \A k \in 1..Len(g) : v[k] = w[k] /\ k <= Len(w)
  BY <1>1, <1>3
<1> QED BY Zenon, <1>4, <1>6, <1>7, <1>8 DEF Reader, v, s

\* The writer's part of a step that writes m as t.
WriteStep(m, t) ==
  /\ ~closed /\ Writes(policy, m, t, closed') /\ closed' \in BOOLEAN
  /\ written' = Append(written, m) /\ pipe' = pipe \o t
  /\ UNCHANGED <<policy, cut, pos, buf, got, reading, spilled>>

\* A step that writes a message keeps the invariant.
LEMMA WriteKeeps ==
  ASSUME FrameInv, NEW m, NEW t, WriteStep(m, t)
  PROVE  FrameInv'
<1>1. PICK st : PlaceInv(st)
  BY Zenon DEF FrameInv
<1>2. /\ policy \in {"line", "length"} /\ written \in Seq(Messages(policy)) /\ pipe \in Text
      /\ got \in Seq(Text) /\ m \in Messages(policy) /\ t \in Text /\ closed' \in BOOLEAN
  BY Zenon DEF FrameInv, TextInv, FrameTypeOK, WriteStep, Writes
<1>3. ~closed /\ closed = FALSE
  BY Zenon DEF FrameInv, TextInv, FrameTypeOK, WriteStep
<1>4. ~cut /\ cut = FALSE /\ st[Len(written) + 1] = Len(pipe)
  BY Zenon, <1>1, <1>3 DEF PlaceInv, Rest, FrameInv, TextInv, FrameTypeOK
<1>5. PICK u : Extends(policy, written, pipe, st, m, t, closed', u)
  <2>1. Starts(policy, written, pipe, FALSE, st) /\ Writes(policy, m, t, closed')
    BY Zenon, <1>1, <1>3 DEF PlaceInv, WriteStep
  <2> QED BY ONLY Zenon, <1>2, <1>4, <2>1, WriteStarts
<1>6. Reader(written', pipe', cut', u, got', pos', reading')
  <2>1. Starts(policy, written, pipe, FALSE, st) /\ Reader(written, pipe, FALSE, st, got, pos, reading)
    BY Zenon, <1>1, <1>3, <1>4 DEF PlaceInv
  <2>2. Reader(Append(written, m), pipe \o t, FALSE, u, got, pos, reading)
    BY Zenon, <1>2, <1>4, <1>5, <2>1, WriteReader DEF Extends
  <2> QED BY Zenon, <1>4, <2>2 DEF WriteStep
<1>7. written' \in Seq(Messages(policy)) /\ Len(written') = Len(written) + 1 /\ Len(written) \in Nat
  BY <1>2 DEF WriteStep
<1>8. pipe' \in Text /\ Len(pipe') = Len(pipe) + Len(t) /\ Len(pipe) \in Nat /\ Len(t) \in Nat
  BY Zenon, <1>2, Joint, Length DEF WriteStep
<1>9. PlaceInv(u)'
  <2>1. Starts(policy', written', pipe', closed', u)
    BY Zenon, <1>5 DEF WriteStep, Extends
  <2>2. Len(written') + 1 = Len(written) + 2
    BY <1>7
  <2>3. u[Len(written') + 1] >= Len(pipe') /\ (~closed' => u[Len(written') + 1] = Len(pipe')) /\ ~cut'
    BY Zenon, <1>4, <1>5, <2>2 DEF WriteStep, Extends
  <2>4. u[Len(written') + 1] \in Nat
    BY <1>7, <2>1 DEF Starts
  <2>5. Len(pipe') <= u[Len(written') + 1]
    BY Zenon, <1>8, <2>3, <2>4
  <2>6. Rest(policy', pipe', closed', cut', u[Len(written') + 1])
    BY Zenon, <2>3, <2>5 DEF Rest
  <2> QED BY Zenon, <1>6, <2>1, <2>6 DEF PlaceInv
<1>10. TextInv'
  <2>1. pos \in 0..Len(pipe')
    BY <1>8 DEF FrameInv, TextInv, FrameTypeOK
  <2> QED BY Zenon, <1>2, <1>7, <1>8, <2>1 DEF FrameInv, TextInv, FrameTypeOK, WriteStep
<1>11. EndsWithInput'
  <2>1. TooLong => TooLong'
    <3>1. DOMAIN written \subseteq DOMAIN written' /\ \A k \in DOMAIN written : written'[k] = written[k]
      BY <1>2 DEF WriteStep
    <3> QED BY Zenon, <3>1 DEF TooLong, WriteStep
  <2> QED BY Zenon, <1>3, <2>1 DEF EndsWithInput, FrameInv, WriteStep
<1> QED BY Zenon, <1>9, <1>10, <1>11 DEF FrameInv

\* Put keeps the invariant.
LEMMA PutFrameKeeps ==
  ASSUME FrameInv, NEW m \in Messages(policy), PutFrame(m)
  PROVE  FrameInv'
<1>1. policy \in {"line", "length"} /\ closed' \in BOOLEAN
  BY Zenon DEF FrameInv, TextInv, FrameTypeOK, PutFrame
<1>2. Framed(policy, m) \in Text
  BY Zenon, <1>1, FramedIs
<1>3. Writes(policy, m, Framed(policy, m), closed')
  BY Zenon, <1>2 DEF Writes
<1>4. WriteStep(m, Framed(policy, m))
  BY Zenon, <1>1, <1>3 DEF WriteStep, PutFrame
<1> QED BY Zenon, <1>4, WriteKeeps

\* The messages and the reader stay where they are when t follows on the pipe.
LEMMA PlacesStay ==
  ASSUME NEW p \in {"line", "length"}, NEW w \in Seq(Messages(p)), NEW q \in Text, NEW st,
         Starts(p, w, q, FALSE, st), st[Len(w) + 1] = Len(q), NEW t \in Text, NEW x,
         NEW g \in Seq(Text), NEW n, NEW r, Reader(w, q, FALSE, st, g, n, r)
  PROVE  Starts(p, w, q \o t, TRUE, st) /\ Reader(w, q \o t, x, st, g, n, r)
<1>1. /\ q \o t \in Text /\ Len(q \o t) = Len(q) + Len(t) /\ Len(q) \in Nat /\ Len(t) \in Nat
      /\ Len(w) \in Nat /\ Len(g) \in Nat
  <2>1. Len(w) \in Nat /\ Len(g) \in Nat
    OBVIOUS
  <2> QED BY Zenon, <2>1, Joint, Length
<1>2. st \in [1..(Len(w) + 1) -> Nat] /\ st[1] = 0
  BY Zenon DEF Starts
<1>3. ASSUME NEW k \in 1..Len(w)
      PROVE  /\ Frame(st[k], st[k + 1], Framed(p, w[k]), q \o t)
             /\ ~(st[k + 1] > Len(q \o t)) /\ st[k] <= Len(q)
  <2>1. /\ Frame(st[k], st[k + 1], Framed(p, w[k]), q) /\ ~(st[k + 1] > Len(q))
    BY Zenon DEF Starts
  <2>2. st[k] \in Nat /\ st[k + 1] \in Nat
    <3>1. k \in 1..(Len(w) + 1) /\ k + 1 \in 1..(Len(w) + 1)
      BY <1>1
    <3> QED BY Zenon, <1>2, <3>1
  <2>3. w[k] \in Messages(p)
    OBVIOUS
  <2>4. Framed(p, w[k]) \in Text
    BY Zenon, <2>3, FramedIs
  <2>5. st[k + 1] <= Len(q)
    BY <1>1, <2>1, <2>2
  <2>6. Frame(st[k], st[k + 1], Framed(p, w[k]), q \o t) /\ st[k + 1] <= Len(q \o t)
    BY Zenon, <2>1, <2>2, <2>4, <2>5, FrameStays
  <2>7. ~(st[k + 1] > Len(q \o t))
    BY <1>1, <2>2, <2>6
  <2> QED BY Zenon, <2>1, <2>6, <2>7 DEF Frame
<1>4. Starts(p, w, q \o t, TRUE, st)
  BY Zenon, <1>2, <1>3 DEF Starts
<1>5. Len(g) <= Len(w) /\ ~(Len(g) > Len(w)) /\ Len(g) <= Len(w) + 1
  BY <1>1 DEF Reader
<1>6. st[Len(g) + 1] <= Len(q) /\ st[Len(g) + 1] \in Nat
  <2>1. CASE Len(g) = Len(w)
    BY <1>1, <1>2, <2>1
  <2>2. CASE Len(g) # Len(w)
    <3>1. Len(g) + 1 \in 1..Len(w)
      BY <1>1, <1>5, <2>2
    <3> QED BY <1>1, <1>2, <1>3, <3>1
  <2> QED BY Zenon, <2>1, <2>2
<1>7. st[Len(g) + 1] <= Len(q \o t)
  BY <1>1, <1>6
<1> QED BY Zenon, <1>4, <1>5, <1>6, <1>7 DEF Reader

\* A step that ends the writer, with the beginning t of a message or nothing.
EndStep(t) ==
  /\ ~closed /\ closed' = TRUE /\ t \in Text /\ pipe' = pipe \o t
  /\ \/ t = <<>> /\ cut' = cut
     \/ /\ cut' = TRUE
        /\ \E m \in Messages(policy) :
             /\ Len(t) \in 1..(Len(Framed(policy, m)) - 1) /\ (policy = "line" => Len(t) < Len(m))
             /\ \A j \in 1..Len(t) : t[j] = Framed(policy, m)[j]
  /\ UNCHANGED <<policy, written, pos, buf, got, reading, spilled>>

\* It keeps the invariant.
LEMMA EndKeeps ==
  ASSUME FrameInv, NEW t, EndStep(t)
  PROVE  FrameInv'
<1>1. PICK st : PlaceInv(st)
  BY Zenon DEF FrameInv
<1>2. /\ policy \in {"line", "length"} /\ written \in Seq(Messages(policy)) /\ pipe \in Text
      /\ got \in Seq(Text) /\ t \in Text
  BY Zenon DEF FrameInv, TextInv, FrameTypeOK, EndStep
<1>3. ~closed /\ closed = FALSE
  BY Zenon DEF FrameInv, TextInv, FrameTypeOK, EndStep
<1>4. ~cut /\ cut = FALSE /\ st[Len(written) + 1] = Len(pipe)
  BY Zenon, <1>1, <1>3 DEF PlaceInv, Rest, FrameInv, TextInv, FrameTypeOK
<1>5. /\ Starts(policy, written, pipe \o t, TRUE, st)
      /\ Reader(written, pipe \o t, cut', st, got, pos, reading)
  <2>1. Starts(policy, written, pipe, FALSE, st) /\ Reader(written, pipe, FALSE, st, got, pos, reading)
    BY Zenon, <1>1, <1>3, <1>4 DEF PlaceInv
  <2> QED BY ONLY Zenon, <1>2, <1>4, <2>1, PlacesStay
<1>6. /\ pipe' \in Text /\ Len(pipe') = Len(pipe) + Len(t) /\ Len(pipe) \in Nat /\ Len(t) \in Nat
      /\ \A j \in 1..Len(t) : pipe'[Len(pipe) + j] = t[j]
  BY Zenon, <1>2, Joint, Length DEF EndStep
<1>7. Rest(policy, pipe', TRUE, cut', Len(pipe)) /\ cut' \in BOOLEAN
  <2>1. CASE t = <<>> /\ cut' = cut
    <3>1. Len(pipe') <= Len(pipe)
      BY <1>6, <2>1
    <3> QED BY Zenon, <1>4, <2>1, <3>1 DEF Rest
  <2>2. CASE ~(t = <<>> /\ cut' = cut)
    <3>1. PICK m \in Messages(policy) :
            /\ Len(t) \in 1..(Len(Framed(policy, m)) - 1) /\ (policy = "line" => Len(t) < Len(m))
            /\ \A j \in 1..Len(t) : t[j] = Framed(policy, m)[j]
      BY Zenon, <2>2 DEF EndStep
    <3>2. cut' = TRUE
      BY Zenon, <2>2 DEF EndStep
    <3>3. Len(pipe') - Len(pipe) = Len(t)
      BY <1>6
    <3>4. Beginning(policy, pipe', Len(pipe), m)
      BY Zenon, <1>6, <3>1, <3>3 DEF Beginning
    <3> QED BY Zenon, <3>2, <3>4 DEF Rest
  <2> QED BY Zenon, <2>1, <2>2
<1>8. PlaceInv(st)'
  BY Zenon, <1>4, <1>5, <1>7 DEF PlaceInv, EndStep
<1>9. TextInv'
  <2>1. pos \in 0..Len(pipe')
    BY <1>6 DEF FrameInv, TextInv, FrameTypeOK
  <2> QED BY Zenon, <1>2, <1>6, <1>7, <2>1 DEF FrameInv, TextInv, FrameTypeOK, EndStep
<1>10. EndsWithInput'
  BY Zenon, <1>3, <1>4 DEF EndsWithInput, FrameInv, EndStep, TooLong
<1> QED BY Zenon, <1>8, <1>9, <1>10 DEF FrameInv

\* The writer's end keeps the invariant.
LEMMA WriterEnds ==
  ASSUME FrameInv, End
  PROVE  FrameInv'
<1>1. /\ policy \in {"line", "length"} /\ pipe \in Text /\ ~closed /\ closed' = TRUE
      /\ UNCHANGED <<policy, pos, buf, got, reading, spilled>>
  BY Zenon DEF FrameInv, TextInv, FrameTypeOK, End
<1>2. CASE UNCHANGED <<written, pipe, cut>>
  <2>1. <<>> \in Text /\ pipe' = pipe \o <<>>
    BY <1>1, <1>2 DEF Text
  <2>2. EndStep(<<>>)
    BY Zenon, <1>1, <1>2, <2>1 DEF EndStep
  <2> QED BY Zenon, <2>2, EndKeeps
<1>3. ASSUME NEW m \in Messages(policy), NEW n \in 1..Len(Framed(policy, m)) - 1,
             pipe' = pipe \o SubSeq(Framed(policy, m), 1, n),
             IF policy = "line" /\ n = Len(m)
             THEN written' = Append(written, m) /\ UNCHANGED cut
             ELSE cut' = TRUE /\ UNCHANGED written
      PROVE  FrameInv'
  <2> DEFINE f == Framed(policy, m)
             t == SubSeq(f, 1, n)
  <2>1. /\ f \in Text /\ Len(f) \in Nat \ {0} /\ Len(m) \in Nat \ {0}
        /\ policy = "line" => Len(f) = Len(m) + 1
    BY Zenon, <1>1, FramedIs
  <2>2. /\ t \in Text /\ Len(t) = n /\ n \in 1..(Len(f) - 1) /\ \A j \in 1..Len(t) : t[j] = f[j]
    <3> HIDE DEF f
    <3>1. n \in Nat /\ n <= Len(f) /\ n \in 1..(Len(f) - 1)
      BY <2>1 DEF f
    <3> QED BY <2>1, <3>1 DEF Text
  <2> HIDE DEF t
  <2>3. CASE policy = "line" /\ n = Len(m)
    <3>1. Writes(policy, m, t, closed')
      BY Zenon, <1>1, <2>2, <2>3 DEF Writes
    <3>2. closed' \in BOOLEAN
      BY Zenon, <1>1
    <3>3. WriteStep(m, t)
      BY Zenon, <1>1, <1>3, <2>3, <3>1, <3>2 DEF WriteStep, t
    <3> QED BY Zenon, <3>3, WriteKeeps
  <2>4. CASE ~(policy = "line" /\ n = Len(m))
    <3>1. policy = "line" => Len(t) < Len(m)
      BY <2>1, <2>2, <2>4
    <3>2. EndStep(t)
      BY Zenon, <1>1, <1>3, <2>2, <2>4, <3>1 DEF EndStep, t
    <3> QED BY Zenon, <3>2, EndKeeps
  <2> QED BY Zenon, <2>3, <2>4
<1> QED BY Zenon, <1>2, <1>3 DEF End

-----------------------------------------------------------------------------
(* Framing: where the reader is.                                           *)

\* What is left to read.
LEMMA LeftIs ==
  ASSUME TextInv
  PROVE  /\ Left \in Text /\ Len(Left) \in Nat /\ Len(pipe) \in Nat /\ pos \in Nat
         /\ Len(Left) = Len(pipe) - pos /\ pos <= Len(pipe)
         /\ \A j \in 1..Len(Left) : Left[j] = pipe[pos + j]
<1>1. pipe \in Text /\ pos \in 0..Len(pipe) /\ Len(pipe) \in Nat
  BY Zenon, Length DEF TextInv, FrameTypeOK
<1> DEFINE l == SubSeq(pipe, pos + 1, Len(pipe))
<1>2. pos + 1 \in Nat \ {0} /\ Len(pipe) <= Len(pipe) /\ pos + 1 <= Len(pipe) + 1
  BY <1>1
<1>3. /\ l \in Text /\ Len(l) = Len(pipe) - (pos + 1) + 1
      /\ \A j \in 1..(Len(pipe) - (pos + 1) + 1) : l[j] = pipe[(pos + 1) + j - 1]
  BY Zenon, <1>1, <1>2, Piece
<1>4. Left = l
  BY Zenon DEF Left
<1> HIDE DEF l
<1>5. Len(l) = Len(pipe) - pos /\ pos \in Nat /\ pos <= Len(pipe)
  BY <1>1, <1>3
<1>6. \A j \in 1..Len(l) : l[j] = pipe[pos + j]
  <2> SUFFICES ASSUME NEW j \in 1..Len(l) PROVE l[j] = pipe[pos + j]
    BY Zenon
  <2>1. j \in 1..(Len(pipe) - (pos + 1) + 1) /\ (pos + 1) + j - 1 = pos + j
    BY <1>1, <1>3
  <2> QED BY Zenon, <1>3, <2>1
<1> QED BY <1>1, <1>3, <1>4, <1>5, <1>6

\* The reader is before a message, before the beginning of a last one, or at the
\* end of what was written.
BeforeMessage(st) ==
  /\ Len(got) + 1 \in 1..Len(written) /\ pos = st[Len(got) + 1]
  /\ Frame(pos, st[Len(got) + 2], Framed(policy, written[Len(got) + 1]), pipe)
  /\ st[Len(got) + 2] > Len(pipe) => Len(got) + 1 = Len(written) /\ policy = "line"

BeforePart ==
  /\ Len(got) = Len(written) /\ cut /\ \E m \in Messages(policy) : Beginning(policy, pipe, pos, m)

AtEnd == Len(got) >= Len(written) /\ pos = Len(pipe)

\* It is always in one of these places.
LEMMA ReaderIs ==
  ASSUME TextInv, NEW st, PlaceInv(st), reading
  PROVE  /\ Len(got) \in Nat /\ Len(written) \in Nat /\ Len(got) <= Len(written) + 1
         /\ BeforeMessage(st) \/ BeforePart \/ AtEnd
<1>1. /\ Len(got) \in Nat /\ Len(written) \in Nat /\ Len(pipe) \in Nat
  <2>1. got \in Seq(Text) /\ written \in Seq(Messages(policy)) /\ pipe \in Text
    BY Zenon DEF TextInv
  <2> QED BY <2>1, Length
<1>2. /\ Len(got) <= Len(written) + 1
      /\ pos = IF Len(got) <= Len(written) /\ st[Len(got) + 1] <= Len(pipe)
               THEN st[Len(got) + 1] ELSE Len(pipe)
  BY Zenon DEF PlaceInv, Reader
<1>3. CASE Len(got) < Len(written)
  <2>1. Len(got) + 1 \in 1..Len(written) /\ Len(got) <= Len(written) /\ (Len(got) + 1) + 1 = Len(got) + 2
    BY <1>1, <1>3
  <2>2. /\ Frame(st[Len(got) + 1], st[Len(got) + 2], Framed(policy, written[Len(got) + 1]), pipe)
        /\ st[Len(got) + 2] > Len(pipe) => Len(got) + 1 = Len(written) /\ policy = "line"
    BY Zenon, <2>1 DEF PlaceInv, Starts
  <2>3. st[Len(got) + 1] <= Len(pipe)
    BY Zenon, <2>2 DEF Frame
  <2> QED BY Zenon, <1>1, <1>2, <2>1, <2>2, <2>3 DEF BeforeMessage
<1>4. CASE Len(got) = Len(written)
  <2>1. Len(got) + 1 \in 1..(Len(written) + 1) /\ Len(got) <= Len(written) /\ Len(got) >= Len(written)
    BY <1>1, <1>4
  <2>2. st[Len(got) + 1] \in Nat
    BY Zenon, <2>1 DEF PlaceInv, Starts
  <2>3. CASE cut
    <3>1. PICK m \in Messages(policy) : Beginning(policy, pipe, st[Len(got) + 1], m)
      BY Zenon, <1>4, <2>3 DEF PlaceInv, Rest
    <3>2. Len(pipe) - st[Len(got) + 1] \in 1..(Len(Framed(policy, m)) - 1)
      BY Zenon, <3>1 DEF Beginning
    <3>3. st[Len(got) + 1] <= Len(pipe)
      BY <1>1, <2>2, <3>2
    <3> QED BY Zenon, <1>1, <1>2, <1>4, <2>1, <2>3, <3>1, <3>3 DEF BeforePart
  <2>4. CASE ~cut
    <3>1. Len(pipe) <= st[Len(got) + 1] \/ Len(pipe) = st[Len(got) + 1]
      BY Zenon, <1>4, <2>4 DEF PlaceInv, Rest
    <3>2. pos = Len(pipe)
      BY <1>1, <1>2, <2>1, <2>2, <3>1
    <3> QED BY Zenon, <1>1, <1>2, <2>1, <3>2 DEF AtEnd
  <2> QED BY Zenon, <2>3, <2>4
<1>5. CASE Len(got) = Len(written) + 1
  <2>1. ~(Len(got) <= Len(written)) /\ Len(got) >= Len(written)
    BY <1>1, <1>5
  <2> QED BY Zenon, <1>1, <1>2, <2>1 DEF AtEnd
<1> QED BY <1>1, <1>2, <1>3, <1>4, <1>5

\* What a Get that fails leaves behind.
LEMMA FailKeeps ==
  ASSUME FrameInv, NEW n \in Nat, n <= Len(Left), NEW over \in BOOLEAN, Stops(n, over), EndsWithInput'
  PROVE  FrameInv'
<1>1. PICK st : PlaceInv(st)
  BY Zenon DEF FrameInv
<1>2. PlaceInv(st)'
  BY Zenon, <1>1 DEF PlaceInv, Reader, Stops
<1>3. pos + n \in 0..Len(pipe)
  <2>1. TextInv
    BY Zenon DEF FrameInv
  <2> QED BY <2>1, LeftIs
<1>4. TextInv'
  BY Zenon, <1>3 DEF FrameInv, TextInv, FrameTypeOK, Stops
<1> QED BY Zenon, <1>2, <1>4 DEF FrameInv

\* The buffer after a read, and the message taken from it.
LEMMA OverIs ==
  ASSUME TextInv, NEW s \in Text, NEW len \in Nat, Len(s) <= MAX_MSG_SIZE, len <= MAX_MSG_SIZE
  PROVE  /\ Over(s) \in Text /\ Len(Over(s)) = MAX_MSG_SIZE
         /\ SubSeq(Over(s), 1, len) \in Text /\ Len(SubSeq(Over(s), 1, len)) = len
         /\ len = Len(s) => SubSeq(Over(s), 1, len) = s
<1>1. buf \in Text /\ Len(buf) = MAX_MSG_SIZE /\ Len(s) \in Nat /\ MAX_MSG_SIZE \in Nat
  BY Zenon, Length, FramingAssumption DEF TextInv, FrameTypeOK
<1> DEFINE r == SubSeq(buf, Len(s) + 1, Len(buf))
<1>2. r \in Text /\ Len(r) = MAX_MSG_SIZE - Len(s)
  <2>1. Len(s) + 1 \in Nat \ {0} /\ Len(buf) \in Nat /\ Len(buf) <= Len(buf) /\ Len(s) + 1 <= Len(buf) + 1
    BY <1>1
  <2>2. r \in Text /\ Len(r) = Len(buf) - (Len(s) + 1) + 1
    BY Zenon, <1>1, <2>1, Piece
  <2> HIDE DEF r
  <2> QED BY <1>1, <2>2
<1>3. Over(s) = s \o r
  BY Zenon DEF Over
<1> HIDE DEF r
<1>4. /\ s \o r \in Text /\ Len(s \o r) = Len(s) + Len(r)
      /\ \A j \in 1..Len(s) : (s \o r)[j] = s[j]
  BY Zenon, <1>2, Joint
<1> DEFINE o == s \o r
<1>5. o \in Text /\ Len(o) = MAX_MSG_SIZE
  BY <1>1, <1>2, <1>4
<1>6. \A j \in 1..Len(s) : o[j] = s[j]
  BY Zenon, <1>4
<1> HIDE DEF o
<1>7. /\ SubSeq(o, 1, len) \in Text /\ Len(SubSeq(o, 1, len)) = len
      /\ \A j \in 1..len : SubSeq(o, 1, len)[j] = o[j]
  BY <1>1, <1>5 DEF Text
<1>8. len = Len(s) => SubSeq(o, 1, len) = s
  <2> SUFFICES ASSUME len = Len(s) PROVE SubSeq(o, 1, len) = s
    BY Zenon
  <2>1. \A j \in 1..Len(s) : SubSeq(o, 1, len)[j] = s[j]
    BY Zenon, <1>6, <1>7
  <2> QED BY ONLY Zenon, s \in Text, len = Len(s), <1>7, <2>1, SameText
<1> QED BY Zenon, <1>3, <1>5, <1>7, <1>8 DEF o

\* A Get gives the message x, and the reader goes on behind it.
GetStep(x, n) ==
  /\ reading /\ x \in Text /\ Len(x) <= Longest(policy) /\ n \in 0..Len(pipe)
  /\ got' = Append(got, x) /\ pos' = n /\ buf' \in Text /\ Len(buf') = MAX_MSG_SIZE
  /\ UNCHANGED <<policy, written, pipe, closed, cut, reading, spilled>>

\* What Gets does is such a step.
LEMMA GetsIs ==
  ASSUME TextInv, reading, NEW n \in Nat, n <= Len(Left), NEW s \in Text, NEW len \in Nat,
         Len(s) <= len, len <= Longest(policy), Gets(n, s, len)
  PROVE  \E x : GetStep(x, pos + n) /\ (len = Len(s) => x = s)
<1>1. Len(s) <= MAX_MSG_SIZE /\ len <= MAX_MSG_SIZE
  <2>1. Longest(policy) \in Nat /\ Longest(policy) <= MAX_MSG_SIZE /\ MAX_MSG_SIZE \in Nat /\ Len(s) \in Nat
    BY Zenon, LongestIs, Length DEF TextInv, FrameTypeOK
  <2> QED BY <2>1
<1> DEFINE x == SubSeq(Over(s), 1, len)
<1>2. /\ Over(s) \in Text /\ Len(Over(s)) = MAX_MSG_SIZE /\ x \in Text /\ Len(x) = len
      /\ len = Len(s) => x = s
  BY Zenon, <1>1, OverIs
<1>3. pos + n \in 0..Len(pipe)
  BY LeftIs
<1> QED BY Zenon, <1>2, <1>3 DEF Gets, GetStep

\* The message that comes next is read, or the part behind the last one.
LEMMA GetKeeps ==
  ASSUME TextInv, EndsWithInput, NEW st, PlaceInv(st), NEW x, NEW n, GetStep(x, n),
         \/ /\ Len(got) < Len(written) /\ x = written[Len(got) + 1]
            /\ n = IF st[Len(got) + 2] <= Len(pipe) THEN st[Len(got) + 2] ELSE Len(pipe)
         \/ Len(got) = Len(written) /\ cut /\ n = Len(pipe)
  PROVE  FrameInv'
<1>1. got \in Seq(Text) /\ x \in Text /\ got' = Append(got, x) /\ written \in Seq(Messages(policy))
  BY Zenon DEF TextInv, GetStep
<1>2. /\ Len(got') = Len(got) + 1 /\ Len(got) \in Nat /\ got' \in Seq(Text) /\ got'[Len(got) + 1] = x
      /\ \A k \in 1..Len(got) : got'[k] = got[k]
  BY <1>1
<1>3. Len(written) \in Nat
  BY <1>1
<1>4. TextInv'
  <2>1. \A k \in 1..Len(got') : Len(got'[k]) <= Longest(policy)
    <3> SUFFICES ASSUME NEW k \in 1..Len(got') PROVE Len(got'[k]) <= Longest(policy)
      BY Zenon
    <3>1. k \in 1..Len(got) \/ k = Len(got) + 1
      BY <1>2
    <3> QED BY Zenon, <1>2, <3>1 DEF TextInv, FrameTypeOK, GetStep
  <2> QED BY Zenon, <1>2, <2>1 DEF TextInv, FrameTypeOK, GetStep
<1>5. EndsWithInput'
  BY Zenon DEF EndsWithInput, TooLong, GetStep
<1>6. Reader(written, pipe, cut, st, got', n, reading)
  <2>1. /\ Len(got') <= Len(written) + 1 /\ (Len(got') > Len(written) => cut)
        /\ (\A k \in 1..Len(got') : k <= Len(written) => got'[k] = written[k])
    <3>1. Len(got') <= Len(written) + 1 /\ (Len(got') > Len(written) => Len(got) = Len(written))
      BY <1>2, <1>3
    <3>2. Len(got') > Len(written) => cut
      <4>1. Len(got) = Len(written) => ~(Len(got) < Len(written))
        BY <1>2, <1>3
      <4> QED BY Zenon, <3>1, <4>1
    <3>3. ASSUME NEW k \in 1..Len(got'), k <= Len(written) PROVE got'[k] = written[k]
      <4>1. k \in 1..Len(got) \/ (k = Len(got) + 1 /\ Len(got) # Len(written))
        BY <1>2, <1>3, <3>3
      <4>2. CASE k \in 1..Len(got)
        BY Zenon, <1>2, <3>3, <4>2 DEF PlaceInv, Reader
      <4>3. CASE k = Len(got) + 1 /\ Len(got) # Len(written)
        BY Zenon, <1>2, <4>3
      <4> QED BY Zenon, <4>1, <4>2, <4>3
    <3> QED BY Zenon, <3>1, <3>2, <3>3
  <2>2. n = IF Len(got') <= Len(written) /\ st[Len(got') + 1] <= Len(pipe)
            THEN st[Len(got') + 1] ELSE Len(pipe)
    <3>1. CASE Len(got) < Len(written)
      <4>1. Len(got') <= Len(written) /\ Len(got') + 1 = Len(got) + 2 /\ Len(got) # Len(written)
        BY <1>2, <1>3, <3>1
      <4> QED BY Zenon, <4>1
    <3>2. CASE ~(Len(got) < Len(written))
      <4>1. ~(Len(got') <= Len(written))
        BY <1>2, <1>3, <3>2
      <4> QED BY Zenon, <3>2, <4>1
    <3> QED BY Zenon, <3>1, <3>2
  <2> QED BY Zenon, <2>1, <2>2 DEF Reader
<1>7. PlaceInv(st)'
  BY Zenon, <1>6 DEF PlaceInv, GetStep
<1> QED BY Zenon, <1>4, <1>5, <1>7 DEF FrameInv

-----------------------------------------------------------------------------
(* Framing: what Get reads.                                                *)

\* getline stops after k characters of l.
LineEnd(l, k) ==
  /\ k \in 0..Len(l) /\ (\A j \in 1..k : l[j] # "nl") /\ (k < Len(l) => l[k + 1] = "nl")

\* There is one such place.
LEMMA OneLineEnd ==
  ASSUME NEW l \in Text, NEW a, NEW b, LineEnd(l, a), LineEnd(l, b)
  PROVE  a = b
<1>1. Len(l) \in Nat /\ a \in 0..Len(l) /\ b \in 0..Len(l)
  BY Zenon, Length DEF LineEnd
<1>2. ~(a < b)
  <2> SUFFICES ASSUME a < b PROVE FALSE
    BY Zenon
  <2>1. a + 1 \in 1..b /\ a < Len(l)
    BY <1>1
  <2> QED BY Zenon, <2>1 DEF LineEnd
<1>3. ~(b < a)
  <2> SUFFICES ASSUME b < a PROVE FALSE
    BY Zenon
  <2>1. b + 1 \in 1..a /\ b < Len(l)
    BY <1>1
  <2> QED BY Zenon, <2>1 DEF LineEnd
<1> QED BY <1>1, <1>2, <1>3

\* Where it is: behind the message that comes next, or at the end of the input.
LEMMA LineEnds ==
  ASSUME TextInv, NEW st, PlaceInv(st), reading, policy = "line"
  PROVE  \/ /\ BeforeMessage(st) /\ LineEnd(Left, Len(written[Len(got) + 1]))
            /\ SubSeq(Left, 1, Len(written[Len(got) + 1])) = written[Len(got) + 1]
            /\ st[Len(got) + 2] = pos + Len(written[Len(got) + 1]) + 1
            /\ Len(written[Len(got) + 1]) \in Nat \ {0}
         \/ BeforePart /\ LineEnd(Left, Len(Left)) /\ Len(Left) \in Nat \ {0} /\ Len(Left) < MAX_MSG_SIZE
         \/ AtEnd /\ LineEnd(Left, Len(Left)) /\ Len(Left) = 0
<1>1. /\ Left \in Text /\ Len(Left) \in Nat /\ Len(pipe) \in Nat /\ pos \in Nat
      /\ Len(Left) = Len(pipe) - pos /\ pos <= Len(pipe)
      /\ \A j \in 1..Len(Left) : Left[j] = pipe[pos + j]
  BY Zenon, LeftIs
<1>2. /\ Len(got) \in Nat /\ Len(written) \in Nat
      /\ BeforeMessage(st) \/ BeforePart \/ AtEnd
  BY Zenon, ReaderIs
<1>3. CASE BeforeMessage(st)
  <2> DEFINE m == written[Len(got) + 1]
             f == Framed("line", m)
  <2>1. m \in Messages("line")
    <3>1. written \in Seq(Messages("line")) /\ Len(got) + 1 \in 1..Len(written)
      BY Zenon, <1>3 DEF TextInv, BeforeMessage
    <3> QED BY ONLY SMTT(30), <3>1
  <2> HIDE DEF m
  <2>2. /\ m \in Text /\ Len(m) \in Nat \ {0} /\ \A j \in 1..Len(m) : m[j] # "nl"
    BY Zenon, <2>1, MessageIs
  <2>3. Len(f) = Len(m) + 1 /\ f[Len(m) + 1] = "nl" /\ \A j \in 1..Len(m) : f[j] = m[j]
    BY Zenon, <2>1, LineFrame
  <2>4. Frame(pos, st[Len(got) + 2], f, pipe)
    BY Zenon, <1>3 DEF BeforeMessage, m
  <2> HIDE DEF f
  <2>5. /\ st[Len(got) + 2] = pos + Len(m) + 1 /\ pos + Len(m) <= Len(pipe)
        /\ \A j \in 1..(Len(m) + 1) : pos + j <= Len(pipe) => pipe[pos + j] = f[j]
    BY <1>1, <2>2, <2>3, <2>4 DEF Frame
  <2>6. Len(m) \in 0..Len(Left) /\ \A j \in 1..Len(m) : Left[j] = m[j]
    BY <1>1, <2>2, <2>3, <2>5
  <2>7. Len(m) < Len(Left) => Left[Len(m) + 1] = "nl"
    BY <1>1, <2>2, <2>3, <2>5
  <2>8. LineEnd(Left, Len(m))
    BY Zenon, <2>2, <2>6, <2>7 DEF LineEnd
  <2>9. SubSeq(Left, 1, Len(m)) = m
    <3>1. /\ SubSeq(Left, 1, Len(m)) \in Text /\ Len(SubSeq(Left, 1, Len(m))) = Len(m)
          /\ \A j \in 1..Len(m) : SubSeq(Left, 1, Len(m))[j] = Left[j]
      BY <1>1, <2>2, <2>6 DEF Text
    <3>2. \A j \in 1..Len(m) : SubSeq(Left, 1, Len(m))[j] = m[j]
      BY Zenon, <2>6, <3>1
    <3> QED BY ONLY ZenonT(30), <2>2, <3>1, <3>2, SameText
  <2> QED BY Zenon, <1>3, <2>2, <2>5, <2>8, <2>9 DEF m
<1>4. CASE BeforePart
  <2>1. PICK m \in Messages("line") : Beginning("line", pipe, pos, m)
    BY Zenon, <1>4 DEF BeforePart
  <2>2. /\ m \in Text /\ Len(m) \in Nat \ {0} /\ Len(m) <= MAX_MSG_SIZE
        /\ \A j \in 1..Len(m) : m[j] # "nl"
    BY Zenon, <2>1, MessageIs
  <2>3. Len(Framed("line", m)) = Len(m) + 1 /\ \A j \in 1..Len(m) : Framed("line", m)[j] = m[j]
    BY Zenon, <2>1, LineFrame
  <2>4. /\ Len(Left) \in 1..(Len(Framed("line", m)) - 1) /\ Len(Left) < Len(m)
        /\ \A j \in 1..Len(Left) : pipe[pos + j] = Framed("line", m)[j]
    BY Zenon, <1>1, <2>1 DEF Beginning
  <2>5. /\ Len(Left) \in Nat \ {0} /\ Len(Left) < MAX_MSG_SIZE /\ Len(Left) \in 0..Len(Left)
        /\ ~(Len(Left) < Len(Left))
    BY <1>1, <2>2, <2>4, FramingAssumption
  <2>6. \A j \in 1..Len(Left) : Left[j] # "nl"
    <3> SUFFICES ASSUME NEW j \in 1..Len(Left) PROVE Left[j] # "nl"
      BY Zenon
    <3>1. j \in 1..Len(m)
      BY <1>1, <2>2, <2>4
    <3> QED BY Zenon, <1>1, <2>2, <2>3, <2>4, <3>1
  <2> QED BY Zenon, <1>4, <2>5, <2>6 DEF LineEnd
<1>5. CASE AtEnd
  <2>1. Len(Left) = 0
    BY <1>1, <1>5 DEF AtEnd
  <2>2. LineEnd(Left, Len(Left))
    BY <2>1 DEF LineEnd
  <2> QED BY Zenon, <1>5, <2>1, <2>2
<1> QED BY Zenon, <1>2, <1>3, <1>4, <1>5

\* Line::Get keeps the invariant.
LEMMA LineGetKeeps ==
  ASSUME FrameInv, LineGet
  PROVE  FrameInv'
<1>1. TextInv /\ EndsWithInput /\ reading /\ policy = "line"
  BY Zenon DEF FrameInv, LineGet
<1>2. PICK st : PlaceInv(st)
  BY Zenon DEF FrameInv
<1>3. /\ Left \in Text /\ Len(Left) \in Nat /\ Len(pipe) \in Nat /\ pos \in Nat
      /\ Len(Left) = Len(pipe) - pos /\ pos <= Len(pipe)
  BY Zenon, <1>1, LeftIs
<1>4. /\ Len(got) \in Nat /\ Len(written) \in Nat /\ MAX_MSG_SIZE \in Nat \ {0}
  BY Zenon, <1>1, <1>2, ReaderIs, FramingAssumption
<1> DEFINE n == LineLen(Left)
           s == SubSeq(Left, 1, n)
<1>5. \/ n >= MAX_MSG_SIZE /\ Stops(MAX_MSG_SIZE - 1, FALSE)
      \/ n < MAX_MSG_SIZE /\ n < Len(Left) /\ Gets(n + 1, s, n)
      \/ n < MAX_MSG_SIZE /\ n = Len(Left) /\ closed /\ n > 0 /\ Gets(n, s, n)
      \/ n = Len(Left) /\ closed /\ n = 0 /\ Stops(0, FALSE)
  BY Zenon DEF LineGet
<1>6. ASSUME NEW k, LineEnd(Left, k) PROVE n = k
  <2>1. k \in 0..Len(Left) /\ (\A j \in 1..k : Left[j] # "nl") /\ (k < Len(Left) => Left[k + 1] = "nl")
    BY Zenon, <1>6 DEF LineEnd
  <2>2. LineEnd(Left, n)
    BY Zenon, <2>1 DEF LineEnd, LineLen
  <2> QED BY Zenon, <1>3, <1>6, <2>2, OneLineEnd
<1> HIDE DEF n
<1>7. ASSUME n \in Nat, n <= Len(Left)
      PROVE  s \in Text /\ Len(s) = n
  BY <1>3, <1>7 DEF Text
<1> HIDE DEF s
<1>8. ASSUME BeforeMessage(st), LineEnd(Left, Len(written[Len(got) + 1])),
             SubSeq(Left, 1, Len(written[Len(got) + 1])) = written[Len(got) + 1],
             st[Len(got) + 2] = pos + Len(written[Len(got) + 1]) + 1,
             Len(written[Len(got) + 1]) \in Nat \ {0}
      PROVE  FrameInv'
  <2>1. n = Len(written[Len(got) + 1]) /\ n \in Nat \ {0} /\ n <= Len(Left)
    <3>1. n = Len(written[Len(got) + 1]) /\ n \in 0..Len(Left)
      BY Zenon, <1>6, <1>8 DEF LineEnd
    <3> QED BY <1>3, <1>8, <3>1
  <2>2. s = written[Len(got) + 1] /\ s \in Text /\ Len(s) = n
    BY Zenon, <1>7, <1>8, <2>1 DEF s
  <2>3. Len(got) + 1 \in 1..Len(written) /\ Len(got) < Len(written)
    BY <1>4, <1>8 DEF BeforeMessage
  <2>4. CASE n >= MAX_MSG_SIZE /\ Stops(MAX_MSG_SIZE - 1, FALSE)
    <3>1. MAX_MSG_SIZE - 1 \in Nat /\ MAX_MSG_SIZE - 1 <= Len(Left)
      BY <1>3, <1>4, <2>1, <2>4
    <3>2. Len(got) + 1 \in DOMAIN written
      <4>1. written \in Seq(Messages(policy))
        BY Zenon, <1>1 DEF TextInv
      <4> QED BY <2>3, <4>1
    <3>3. EndsWithInput'
      <4>1. Len(written[Len(got) + 1]) > Longest(policy)
        BY <1>1, <2>1, <2>4, LongestIs
      <4> QED BY Zenon, <3>2, <4>1, <2>4 DEF EndsWithInput, TooLong, Stops
    <3> QED BY Zenon, <2>4, <3>1, <3>3, FailKeeps
  <2>5. CASE n < MAX_MSG_SIZE /\ n < Len(Left) /\ Gets(n + 1, s, n)
    <3>0. n <= Longest(policy)
      BY Zenon, <1>1, <2>1, <2>5, LongestIs
    <3>1. n + 1 \in Nat /\ n + 1 <= Len(Left) /\ Len(s) <= n
      BY <1>3, <2>1, <2>2, <2>5
    <3>2. PICK x : GetStep(x, pos + (n + 1)) /\ (n = Len(s) => x = s)
      BY ONLY Zenon, <1>1, <2>1, <2>2, <2>5, <3>0, <3>1, GetsIs
    <3>3. pos + (n + 1) = IF st[Len(got) + 2] <= Len(pipe) THEN st[Len(got) + 2] ELSE Len(pipe)
      BY <1>3, <1>8, <2>1, <3>1
    <3> QED BY ZenonT(30), <1>1, <1>2, <2>2, <2>3, <3>2, <3>3, GetKeeps
  <2>6. CASE n < MAX_MSG_SIZE /\ n = Len(Left) /\ closed /\ n > 0 /\ Gets(n, s, n)
    <3>0. n <= Longest(policy)
      BY Zenon, <1>1, <2>1, <2>6, LongestIs
    <3>1. n <= Len(Left) /\ Len(s) <= n
      BY Zenon, <1>3, <2>1, <2>2, <2>6
    <3>2. PICK x : GetStep(x, pos + n) /\ (n = Len(s) => x = s)
      BY ONLY ZenonT(30), <1>1, <2>1, <2>2, <2>6, <3>0, <3>1, GetsIs
    <3>3. pos + n = IF st[Len(got) + 2] <= Len(pipe) THEN st[Len(got) + 2] ELSE Len(pipe)
      BY <1>3, <1>8, <2>1, <2>6
    <3> QED BY ZenonT(30), <1>1, <1>2, <2>2, <2>3, <3>2, <3>3, GetKeeps
  <2> QED BY Zenon, <1>5, <2>1, <2>4, <2>5, <2>6
<1>9. ASSUME BeforePart, LineEnd(Left, Len(Left)), Len(Left) \in Nat \ {0}, Len(Left) < MAX_MSG_SIZE
      PROVE  FrameInv'
  <2>1. n = Len(Left) /\ n \in Nat /\ n <= Len(Left)
    BY <1>3, <1>6, <1>9
  <2>2. s \in Text /\ Len(s) = n /\ Len(s) <= n
    BY Zenon, <1>3, <1>7, <2>1
  <2>3. n <= Longest(policy) /\ Gets(n, s, n)
    <3>1. n < MAX_MSG_SIZE /\ ~(n >= MAX_MSG_SIZE) /\ ~(n < Len(Left)) /\ n > 0
      BY <1>1, <1>3, <1>4, <1>9, <2>1
    <3>2. Gets(n, s, n)
      BY Zenon, <1>5, <3>1
    <3> QED BY Zenon, <1>1, <2>1, <3>1, <3>2, LongestIs
  <2>4. PICK x : GetStep(x, pos + n)
    BY ONLY Zenon, <1>1, <2>1, <2>2, <2>3, GetsIs
  <2>5. pos + n = Len(pipe)
    BY <1>3, <2>1
  <2> QED BY Zenon, <1>1, <1>2, <1>9, <2>4, <2>5, GetKeeps DEF BeforePart
<1>10. ASSUME AtEnd, LineEnd(Left, Len(Left)), Len(Left) = 0
       PROVE  FrameInv'
  <2>1. n = 0
    BY Zenon, <1>6, <1>10
  <2>2. closed /\ Stops(0, FALSE)
    <3>1. ~(0 >= MAX_MSG_SIZE) /\ ~(0 < Len(Left)) /\ ~(0 > 0)
      BY <1>4, <1>10
    <3> QED BY Zenon, <1>5, <2>1, <3>1
  <2>3. EndsWithInput'
    BY Zenon, <1>10, <2>2 DEF EndsWithInput, Stops, AtEnd
  <2>4. 0 \in Nat /\ 0 <= Len(Left)
    BY <1>10
  <2> QED BY Zenon, <2>2, <2>3, <2>4, FailKeeps
<1> QED BY Zenon, <1>1, <1>2, <1>8, <1>9, <1>10, LineEnds

\* Length::Get keeps the invariant.
LEMMA LengthGetKeeps ==
  ASSUME FrameInv, LengthGet
  PROVE  FrameInv'
<1>1. TextInv /\ EndsWithInput /\ reading /\ policy = "length"
  BY Zenon DEF FrameInv, LengthGet
<1>2. PICK st : PlaceInv(st)
  BY Zenon DEF FrameInv
<1>3. /\ Left \in Text /\ Len(Left) \in Nat /\ Len(pipe) \in Nat /\ pos \in Nat
      /\ Len(Left) = Len(pipe) - pos /\ pos <= Len(pipe)
      /\ \A j \in 1..Len(Left) : Left[j] = pipe[pos + j]
  BY Zenon, <1>1, LeftIs
<1>4. /\ Len(got) \in Nat /\ Len(written) \in Nat /\ Len(got) <= Len(written) + 1
      /\ BeforeMessage(st) \/ BeforePart \/ AtEnd
  BY Zenon, <1>1, <1>2, ReaderIs
<1>5. CASE closed /\ Len(Left) < 2 /\ Stops(Len(Left), FALSE)
  <2>1. ~BeforeMessage(st)
    <3> SUFFICES ASSUME BeforeMessage(st) PROVE FALSE
      BY Zenon
    <3>1. written[Len(got) + 1] \in Messages("length")
      <4>1. written \in Seq(Messages("length")) /\ Len(got) + 1 \in 1..Len(written)
        BY Zenon, <1>1 DEF TextInv, BeforeMessage
      <4> QED BY ONLY SMTT(30), <4>1
    <3>2. Len(Framed("length", written[Len(got) + 1])) > 2
      BY <3>1, MessageIs, LengthFrame
    <3>3. /\ Frame(pos, st[Len(got) + 2], Framed("length", written[Len(got) + 1]), pipe)
          /\ ~(st[Len(got) + 2] > Len(pipe))
      BY Zenon, <1>1 DEF BeforeMessage
    <3>4. Len(Framed("length", written[Len(got) + 1])) \in Nat
      BY <3>1, MessageIs, LengthFrame
    <3> QED BY <1>3, <1>5, <3>2, <3>3, <3>4 DEF Frame
  <2>2. Len(got) >= Len(written)
    BY <1>4, <2>1 DEF BeforePart, AtEnd
  <2>3. EndsWithInput'
    BY Zenon, <1>5, <2>2 DEF EndsWithInput, Stops
  <2>4. Len(Left) <= Len(Left)
    BY <1>3
  <2> QED BY ZenonT(30), <1>3, <1>5, <2>3, <2>4, FailKeeps
<1>6. ASSUME Len(Left) >= 2, NEW size \in 1..9, Left[1] = Numerals[size],
             NEW end, end = IF Len(Left) < size + 2 THEN Len(Left) ELSE size + 2,
             \/ size <= MAX_MSG_SIZE /\ Gets(end, SubSeq(Left, 3, end), size)
             \/ size > MAX_MSG_SIZE /\ Stops(end, TRUE)
      PROVE  FrameInv'
  <2> DEFINE s == SubSeq(Left, 3, end)
  <2>1. end \in Nat /\ end <= Len(Left) /\ end <= size + 2 /\ end >= 2
    BY <1>3, <1>6
  <2>2. s \in Text /\ Len(s) = end - 2 /\ Len(s) <= size /\ \A j \in 1..(end - 2) : s[j] = Left[j + 2]
    <3>1. 3 \in Nat \ {0} /\ 3 <= end + 1
      BY <2>1
    <3>2. /\ s \in Text /\ Len(s) = end - 3 + 1
          /\ \A j \in 1..(end - 3 + 1) : s[j] = Left[3 + j - 1]
      BY Zenon, <1>3, <2>1, <3>1, Piece
    <3> HIDE DEF s
    <3>3. Len(s) = end - 2 /\ Len(s) <= size /\ end - 3 + 1 = end - 2
      BY <2>1, <3>2
    <3>4. \A j \in 1..(end - 2) : 3 + j - 1 = j + 2
      BY <2>1
    <3> QED BY Zenon, <3>2, <3>3, <3>4
  <2> HIDE DEF s
  <2>3. 1 \in 1..Len(Left) /\ Left[1] = pipe[pos + 1]
    BY <1>3, <1>6
  <2>7. Longest(policy) = MAX_MSG_SIZE /\ size \in Nat
    BY <1>1, LongestIs
  <2>4. CASE BeforeMessage(st)
    <3> DEFINE m == written[Len(got) + 1]
               f == Framed("length", m)
    <3>1. m \in Messages("length")
      <4>1. written \in Seq(Messages("length")) /\ Len(got) + 1 \in 1..Len(written)
        BY Zenon, <1>1, <2>4 DEF TextInv, BeforeMessage
      <4> QED BY ONLY SMTT(30), <4>1
    <3>2. Len(got) < Len(written)
      BY <1>4, <2>4 DEF BeforeMessage
    <3> HIDE DEF m
    <3>3. m \in Text /\ Len(m) \in 1..9
      BY Zenon, <3>1, MessageIs
    <3>4. Len(f) = Len(m) + 2 /\ f[1] = Numerals[Len(m)] /\ \A j \in 1..Len(m) : f[j + 2] = m[j]
      BY Zenon, <3>1, LengthFrame
    <3>5. Frame(pos, st[Len(got) + 2], f, pipe) /\ ~(st[Len(got) + 2] > Len(pipe))
      BY Zenon, <1>1, <2>4 DEF BeforeMessage, m
    <3> HIDE DEF f
    <3>6. /\ st[Len(got) + 2] = pos + Len(f) /\ st[Len(got) + 2] <= Len(pipe)
          /\ \A j \in 1..Len(f) : pipe[pos + j] = f[j]
      BY <1>3, <3>3, <3>4, <3>5 DEF Frame
    <3>7. size = Len(m)
      <4>1. pipe[pos + 1] = f[1]
        BY <3>3, <3>4, <3>6
      <4> QED BY ZenonT(30), <1>6, <2>3, <3>3, <3>4, <4>1, Digits
    <3>8. end = Len(m) + 2 /\ pos + end = st[Len(got) + 2]
      BY <1>3, <1>6, <3>3, <3>4, <3>6, <3>7
    <3>9. s = m
      <4>1. Len(s) = Len(m)
        BY <2>2, <3>3, <3>8
      <4>2. ASSUME NEW j \in 1..Len(m) PROVE s[j] = m[j]
        <5>1. j \in 1..(end - 2) /\ j + 2 \in 1..Len(Left) /\ j + 2 \in 1..Len(f)
          BY <1>3, <2>1, <3>3, <3>4, <3>8
        <5> QED BY ZenonT(30), <1>3, <2>2, <3>4, <3>6, <5>1
      <4> QED BY ONLY ZenonT(30), <2>2, <3>3, <4>1, <4>2, SameText
    <3>10. CASE size <= MAX_MSG_SIZE /\ Gets(end, s, size)
      <4>1. size <= Longest(policy) /\ size = Len(s)
        BY Zenon, <2>7, <3>7, <3>9, <3>10
      <4>2. PICK x : GetStep(x, pos + end) /\ (size = Len(s) => x = s)
        BY ONLY Zenon, <1>1, <2>1, <2>2, <2>7, <3>10, <4>1, GetsIs
      <4>3. pos + end = IF st[Len(got) + 2] <= Len(pipe) THEN st[Len(got) + 2] ELSE Len(pipe)
        BY Zenon, <3>6, <3>8
      <4> QED BY Zenon, <1>1, <1>2, <3>2, <3>9, <4>1, <4>2, <4>3, GetKeeps DEF m
    <3>11. CASE size > MAX_MSG_SIZE /\ Stops(end, TRUE)
      <4>1. Len(written[Len(got) + 1]) > Longest(policy)
        BY Zenon, <2>7, <3>7, <3>11 DEF m
      <4>2. Len(got) + 1 \in DOMAIN written
        <5>1. written \in Seq(Messages(policy)) /\ Len(got) + 1 \in 1..Len(written)
          BY Zenon, <1>1, <2>4 DEF TextInv, BeforeMessage
        <5> QED BY <5>1
      <4>3. EndsWithInput'
        BY Zenon, <1>1, <3>11, <4>1, <4>2 DEF EndsWithInput, TooLong, Stops
      <4> QED BY Zenon, <2>1, <3>11, <4>3, FailKeeps
    <3> QED BY Zenon, <1>6, <3>10, <3>11 DEF s
  <2>5. CASE BeforePart
    <3>1. PICK m \in Messages("length") : Beginning("length", pipe, pos, m)
      BY Zenon, <1>1, <2>5 DEF BeforePart
    <3>2. Len(m) \in 1..9
      BY Zenon, <3>1, MessageIs
    <3>3. Len(Framed("length", m)) = Len(m) + 2 /\ Framed("length", m)[1] = Numerals[Len(m)]
      BY Zenon, <3>1, LengthFrame
    <3>4. /\ Len(Left) \in 1..(Len(Framed("length", m)) - 1)
          /\ \A j \in 1..Len(Left) : pipe[pos + j] = Framed("length", m)[j]
      BY Zenon, <1>3, <3>1 DEF Beginning
    <3>5. size = Len(m)
      BY ZenonT(30), <1>6, <2>3, <3>2, <3>3, <3>4, Digits
    <3>6. end = Len(Left) /\ pos + end = Len(pipe)
      BY <1>3, <1>6, <3>2, <3>3, <3>4, <3>5
    <3>7. CASE size <= MAX_MSG_SIZE /\ Gets(end, s, size)
      <4>1. size <= Longest(policy)
        BY Zenon, <2>7, <3>7
      <4>2. PICK x : GetStep(x, pos + end)
        BY ONLY Zenon, <1>1, <2>1, <2>2, <2>7, <3>7, <4>1, GetsIs
      <4> QED BY Zenon, <1>1, <1>2, <2>5, <3>6, <4>2, GetKeeps DEF BeforePart
    <3>8. CASE size > MAX_MSG_SIZE /\ Stops(end, TRUE)
      <4>1. closed /\ cut
        BY Zenon, <1>2, <2>5 DEF PlaceInv, Rest, BeforePart
      <4>2. Len(got) >= Len(written)
        BY <1>4, <2>5 DEF BeforePart
      <4>3. EndsWithInput'
        BY Zenon, <1>1, <3>8, <4>1, <4>2 DEF EndsWithInput, Stops
      <4> QED BY Zenon, <2>1, <3>8, <4>3, FailKeeps
    <3> QED BY Zenon, <1>6, <3>7, <3>8 DEF s
  <2>6. ~AtEnd
    BY <1>3, <1>6 DEF AtEnd
  <2> QED BY Zenon, <1>4, <2>4, <2>5, <2>6
<1> QED BY Zenon, <1>5, <1>6 DEF LengthGet

-----------------------------------------------------------------------------
\* Whatever is put on the pipe and however the writer ends, the readers of
\* line.hpp and length.hpp return the messages as they were written, in order,
\* and the filter loop ends only with the input or at a message longer than the
\* buffer; only such a one, or one cut off, goes over the end of the buffer: for
\* any number of messages and any buffer size, lengths being of one digit.
THEOREM FramesAreRight == FrameSpec => []FramesRight
<1>1. FrameInv /\ [FrameNext]_frameVars => FrameInv'
  <2> SUFFICES ASSUME FrameInv, [FrameNext]_frameVars PROVE FrameInv'
    BY Zenon
  <2>1. ASSUME NEW m \in Messages(policy), PutFrame(m) PROVE FrameInv'
    BY Zenon, <2>1, PutFrameKeeps
  <2>2. CASE UNCHANGED frameVars
    BY Zenon, <2>2 DEF FrameInv, TextInv, FrameTypeOK, EndsWithInput, TooLong, PlaceInv, frameVars
  <2> QED BY Zenon, <2>1, <2>2, WriterEnds, LineGetKeeps, LengthGetKeeps DEF FrameNext
<1>2. FrameInv => FramesRight
  <2> SUFFICES ASSUME FrameInv PROVE FramesRight
    BY Zenon
  <2>1. FrameTypeOK /\ EndsWithInput /\ got \in Seq(Text) /\ written \in Seq(Messages(policy))
    BY Zenon DEF FrameInv, TextInv
  <2>2. /\ Len(got) <= Len(written) + 1 /\ (Len(got) > Len(written) => cut)
        /\ \A k \in 1..Len(got) : k <= Len(written) => got[k] = written[k]
    BY Zenon DEF FrameInv, PlaceInv, Reader
  <2> DEFINE n == IF Len(got) <= Len(written) THEN Len(got) ELSE Len(written)
  <2>3. /\ n \in Nat /\ n <= Len(got) /\ n <= Len(written) /\ Len(got) \in Nat /\ Len(written) \in Nat
    BY <2>1
  <2>4. Len(got) > Len(written) => Len(got) = Len(written) + 1
    BY <2>2, <2>3
  <2> HIDE DEF n
  <2>5. \A k \in 1..n : got[k] = written[k]
    BY <2>2, <2>3
  <2>6. SubSeq(got, 1, n) = [k \in 1..n |-> got[k]] /\ SubSeq(written, 1, n) = [k \in 1..n |-> written[k]]
    BY <2>1, <2>3
  <2>7. SubSeq(got, 1, n) = SubSeq(written, 1, n)
    BY Zenon, <2>5, <2>6
  <2> QED BY Zenon, <2>1, <2>2, <2>4, <2>7 DEF FramesRight, ReadAsWritten, n
<1> QED BY FrameStart, <1>1, <1>2, PTL DEF FrameSpec

=============================================================================
