-------------------------------- MODULE Once --------------------------------
(***************************************************************************)
(* Doing something once: std::call_once (mutex.cpp of libcxx), on which    *)
(* locale::id rests, and the guards of local statics (guard.cc of          *)
(* libcxxrt), on which the rest of the library and its users do.  The      *)
(* function, or constructor, may throw; the next thread then tries again.  *)
(***************************************************************************)
EXTENDS Naturals

CONSTANTS Threads,
          MaxThrows      \* attempts that throw

VARIABLES kind,          \* "call_once" or "guard"
          pc,            \* where each thread is
          flag,          \* call_once: 0, 1 while it runs, 2 for ~0ul;
                         \* guard: the lock in the low word
          byte,          \* guard: the first byte
          throws,        \* attempts that threw
          done           \* attempts that returned

vars == <<kind, pc, flag, byte, throws, done>>

TypeOK ==
  /\ kind \in {"call_once", "guard"} /\ flag \in 0..2 /\ byte \in 0..1
  /\ pc \in [Threads -> {"call", "wait", "run", "ran", "threw", "wake", "rethrow", "spin", "acquired",
                         "unlock", "return", "failed"}]
  /\ throws \in 0..MaxThrows /\ done \in Nat

Goes(t, l) == pc' = [pc EXCEPT ![t] = l]

-----------------------------------------------------------------------------
(* __call_once.  The mutex is held for the test and for each assignment.   *)

Enter(t) ==
  /\ kind = "call_once" /\ pc[t] = "call" /\ UNCHANGED <<kind, byte, throws, done>>
  /\ CASE flag = 1 -> Goes(t, "wait") /\ UNCHANGED flag
       [] flag = 0 -> Goes(t, "run") /\ flag' = 1
       [] flag = 2 -> Goes(t, "return") /\ UNCHANGED flag

\* func(arg) returns or throws.
Func(t) ==
  /\ pc[t] = "run" /\ UNCHANGED <<kind, flag, byte>>
  /\ \/ Goes(t, "ran") /\ done' = done + 1 /\ UNCHANGED throws
     \/ Goes(t, "threw") /\ throws < MaxThrows /\ throws' = throws + 1 /\ UNCHANGED done

SetFlag(t) ==
  /\ kind = "call_once" /\ pc[t] \in {"ran", "threw"}
  /\ flag' = IF pc[t] = "ran" THEN 2 ELSE 0
  /\ Goes(t, IF pc[t] = "ran" THEN "wake" ELSE "rethrow")
  /\ UNCHANGED <<kind, byte, throws, done>>

\* Mutant: one of the threads that wait is woken.
BroadcastOne(t) ==
  /\ kind = "call_once" /\ pc[t] \in {"wake", "rethrow"}
  /\ LET next == IF pc[t] = "wake" THEN "return" ELSE "failed"
     IN IF \A u \in Threads : pc[u] # "wait" THEN Goes(t, next)
        ELSE \E u \in Threads : pc[u] = "wait" /\ pc' = [pc EXCEPT ![t] = next, ![u] = "call"]
  /\ UNCHANGED <<kind, flag, byte, throws, done>>

\* After the unlock.  A thread that threw goes on with its exception.
Broadcast(t) ==
  /\ kind = "call_once" /\ pc[t] \in {"wake", "rethrow"}
  /\ pc' = [u \in Threads |-> IF u = t THEN IF pc[t] = "wake" THEN "return" ELSE "failed"
                              ELSE IF pc[u] = "wait" THEN "call" ELSE pc[u]]
  /\ UNCHANGED <<kind, flag, byte, throws, done>>

-----------------------------------------------------------------------------
(* __cxa_guard_acquire, with 64-bit guards.                                *)

Acquire(t) ==
  /\ kind = "guard" /\ pc[t] = "call"
  /\ Goes(t, IF byte = 1 THEN "return" ELSE "spin") /\ UNCHANGED <<kind, flag, byte, throws, done>>

\* The compare and swap; when it fails the byte is looked at.
Spin(t) ==
  /\ kind = "guard" /\ pc[t] = "spin"
  /\ IF flag = 0 THEN flag' = 1 /\ Goes(t, "acquired")
     ELSE Goes(t, IF byte = 1 THEN "acquired" ELSE "spin") /\ UNCHANGED flag
  /\ UNCHANGED <<kind, byte, throws, done>>

\* A thread that finds the object made leaves the lock taken, if it took it.
Acquired(t) ==
  /\ kind = "guard" /\ pc[t] = "acquired"
  /\ Goes(t, IF byte = 1 THEN "return" ELSE "run") /\ UNCHANGED <<kind, flag, byte, throws, done>>

\* The first store of __cxa_guard_release, or the way to __cxa_guard_abort.
Release(t) ==
  /\ kind = "guard" /\ pc[t] \in {"ran", "threw"}
  /\ byte' = IF pc[t] = "ran" THEN 1 ELSE byte
  /\ Goes(t, "unlock") /\ UNCHANGED <<kind, flag, throws, done>>

Abort(t) ==
  /\ kind = "guard" /\ pc[t] = "unlock" /\ flag' = 0
  /\ Goes(t, IF byte = 1 THEN "return" ELSE "failed") /\ UNCHANGED <<kind, byte, throws, done>>

Init ==
  /\ kind \in {"call_once", "guard"} /\ pc = [t \in Threads |-> "call"]
  /\ flag = 0 /\ byte = 0 /\ throws = 0 /\ done = 0

Next == \E t \in Threads : \/ Enter(t) \/ Func(t) \/ SetFlag(t) \/ Broadcast(t)
                           \/ Acquire(t) \/ Spin(t) \/ Acquired(t) \/ Release(t) \/ Abort(t)

Spec == Init /\ [][Next]_vars

-----------------------------------------------------------------------------
\* One thread at a time is in the function, it returns once, and no other
\* thread goes on before it has: neither __call_once nor __cxa_guard_acquire
\* lets two threads in, or lets one out early, whichever attempts threw.
ReturnsOnce ==
  /\ \A t, u \in Threads :
       pc[t] \in {"run", "ran", "threw"} /\ pc[u] \in {"run", "ran", "threw"} => t = u
  /\ done <= 1
  /\ (\E t \in Threads : pc[t] = "return") => done = 1

\* No thread sleeps on when there is nothing left to wait for: a waiting
\* thread of __call_once has one that runs the function or is about to wake
\* it, and one that spins on a guard finds it free or finds it done unless a
\* thread that took the lock is under way.
SomebodyWakes ==
  /\ (\E t \in Threads : pc[t] = "wait") =>
       \E t \in Threads : pc[t] \in {"run", "ran", "threw", "wake", "rethrow"}
  /\ (kind = "guard" /\ flag = 1 /\ byte = 0) =>
       \E t \in Threads : pc[t] \in {"acquired", "run", "ran", "threw", "unlock"}

\* What __call_once and the guards promise: done once, and no waiting for
\* nobody.
DoneOnce == TypeOK /\ ReturnsOnce /\ SomebodyWakes

=============================================================================
