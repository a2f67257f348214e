-------------------------------- MODULE Locks -------------------------------
(***************************************************************************)
(* The parts of libcxx and libcxxrt in which threads exclude each other:   *)
(* call_once and the guards of local statics, the timed mutexes, and the   *)
(* emergency buffers.  A behaviour is one of the part named by which; the  *)
(* variables that this part does not have stay "idle".                     *)
(***************************************************************************)
EXTENDS Parts, Integers

CONSTANTS NoThread,
          Limit,                  \* TimedMutex: largest count
          MaxThrows,              \* Once, EmergencyPool
          NumBuffers, MaxHeld     \* EmergencyPool

\* Threads are not mistaken for the values that stand for none, a mutex can be
\* locked once and the pool has a buffer.
ASSUME LocksAssumption ==
  /\ {NoThread, "zero", "free"} \cap Threads = {}
  /\ Limit \in Nat \ {0} /\ MaxThrows \in Nat
  /\ NumBuffers \in Nat \ {0} /\ MaxHeld \in Nat

VARIABLES
  kind,                                    \* Once, TimedMutex
  throws,                                  \* Once, EmergencyPool
  flag, byte, done,                        \* Once
  count, id, held,                         \* TimedMutex
  own, arg, emergencyBuffersHeld, buffer_allocated, content, lock, ended
                                           \* EmergencyPool

onceVars  == <<flag, byte, done>>
mutexVars == <<count, id, held>>
poolVars  == <<own, arg, emergencyBuffersHeld, buffer_allocated, content, lock, ended>>
lockVars  == <<kind, throws, onceVars, mutexVars, poolVars>>

Once == INSTANCE Once
Mut  == INSTANCE TimedMutex
Pool == INSTANCE EmergencyPool

-----------------------------------------------------------------------------
OnceIdle  == flag = "idle" /\ byte = "idle" /\ done = "idle"
MutexIdle == count = "idle" /\ id = "idle" /\ held = "idle"
PoolIdle  ==
  /\ own = "idle" /\ arg = "idle" /\ emergencyBuffersHeld = "idle"
  /\ buffer_allocated = "idle" /\ content = "idle" /\ lock = "idle" /\ ended = "idle"

LocksInit ==
  \/ which = "Once" /\ Once!Init /\ MutexIdle /\ PoolIdle
  \/ which = "TimedMutex" /\ Mut!Init /\ OnceIdle /\ PoolIdle /\ throws = "idle"
  \/ which = "EmergencyPool" /\ Pool!Init /\ OnceIdle /\ MutexIdle /\ kind = "idle"

LocksNext ==
  \/ which = "Once" /\ Once!Next /\ UNCHANGED <<which, mutexVars, poolVars>>
  \/ which = "TimedMutex" /\ Mut!Next /\ UNCHANGED <<which, throws, onceVars, poolVars>>
  \/ which = "EmergencyPool" /\ Pool!Next /\ UNCHANGED <<which, kind, onceVars, mutexVars>>

LocksSpec == LocksInit /\ [][LocksNext]_<<which, pc, lockVars>>

-----------------------------------------------------------------------------
\* Once: the function of call_once, or an initialiser, completes once, and
\* nobody sleeps on a once_flag that no thread will broadcast.
DoneOnce == which = "Once" => Once!DoneOnce

\* TimedMutex: a timed mutex has one owner, as often as its count says, and
\* nobody waits for a free mutex unnoticed.  EmergencyPool: a buffer has one
\* exception at a time, and one that is free is clear.
Excludes ==
  /\ which = "TimedMutex" => Mut!Excludes
  /\ which = "EmergencyPool" => Pool!TypeOK /\ Pool!BuffersClean
=============================================================================
