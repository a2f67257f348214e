----------------------------- MODULE References -----------------------------
(***************************************************************************)
(* The parts of libcxx in which threads share what the last of them has to *)
(* delete: the counts of shared_ptr, and promises with their futures.  A   *)
(* behaviour is one of the part named by which; the variables that this    *)
(* part does not have stay "idle".                                         *)
(***************************************************************************)
EXTENDS Parts, Integers, FiniteSets

CONSTANTS MaxRefs,                \* SharedCount
          Producers, Consumers    \* Future

\* There are finitely many threads, each can have a reference, and those that
\* use a promise have no future of it.
ASSUME ReferencesAssumption ==
  /\ IsFiniteSet(Threads) /\ MaxRefs \in Nat \ {0}
  /\ IsFiniteSet(Producers) /\ IsFiniteSet(Consumers)
  /\ Producers \cap (Consumers \cup {"null", "broken"}) = {}

VARIABLES
  shared_owners,                                             \* both
  weak_owners, object, control, shared, weak, object_owners, \* SharedCount
  constructed, ready, exception, attached, freed, promise, exits \* Future

countVars == <<weak_owners, object, control, shared, weak, object_owners>>
futVars   == <<constructed, ready, exception, attached, freed, promise, exits>>
refVars   == <<shared_owners, countVars, futVars>>

Cnt == INSTANCE SharedCount
Fut == INSTANCE Future

-----------------------------------------------------------------------------
CountIdle ==
  /\ weak_owners = "idle" /\ object = "idle" /\ control = "idle"
  /\ shared = "idle" /\ weak = "idle" /\ object_owners = "idle"
FutIdle   ==
  /\ constructed = "idle" /\ ready = "idle" /\ exception = "idle"
  /\ attached = "idle" /\ freed = "idle" /\ promise = "idle" /\ exits = "idle"

RefsInit ==
  \/ which = "SharedCount" /\ Cnt!Init /\ FutIdle
  \/ which = "Future" /\ Fut!Init /\ CountIdle

RefsNext ==
  \/ which = "SharedCount" /\ Cnt!Next /\ UNCHANGED <<which, futVars>>
  \/ which = "Future" /\ Fut!Next /\ UNCHANGED <<which, countVars>>

RefsSpec == RefsInit /\ [][RefsNext]_<<which, pc, refVars>>

-----------------------------------------------------------------------------
\* SharedCount: an object lives exactly as long as its shared references, and
\* the counts exactly as long as any reference.
ReferencesCounted ==
  which = "SharedCount" => Cnt!TypeOK /\ Cnt!ObjectLives /\ Cnt!ControlLives

\* Future: a shared state gets one result, is not deleted while it is used,
\* and nobody waits for one that no thread will make ready.
ResultArrives ==
  which = "Future" => Fut!TypeOK /\ Fut!OneResult /\ Fut!StateLives /\ Fut!WaitEnds
=============================================================================
