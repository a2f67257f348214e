--------------------------- MODULE EmergencyPool ----------------------------
(***************************************************************************)
(* Memory for exceptions when there is none (exception.cc of libcxxrt):    *)
(* threads that throw while calloc fails share a few static buffers.       *)
(***************************************************************************)
EXTENDS Naturals

CONSTANTS Threads,
          NumBuffers,   \* 16 in the code
          MaxHeld,      \* 4 in the code
          MaxThrows     \* exceptions a thread allocates

VARIABLES pc,           \* what each thread does
          own,          \* the buffers of each thread's exceptions
          arg,          \* the buffer a thread gives back
          emergencyBuffersHeld,
          buffer_allocated,
          content,      \* who wrote into a buffer last, "zero" if it is clear
          throws,       \* exceptions allocated by each thread
          lock,         \* owner of emergency_malloc_lock, or "free"
          ended         \* the program was terminated

vars == <<pc, own, arg, emergencyBuffersHeld, buffer_allocated, content, throws, lock, ended>>

Buffers == 0..NumBuffers - 1

TypeOK ==
  /\ pc \in [Threads -> {"run", "lock", "try", "wait", "held", "clear", "unlock"}]
  /\ own \in [Threads -> SUBSET Buffers] /\ arg \in [Threads -> Buffers]
  /\ emergencyBuffersHeld \in [Threads -> 0..MaxHeld]
  /\ buffer_allocated \in [Buffers -> BOOLEAN]
  /\ content \in [Buffers -> Threads \union {"zero"}]
  /\ lock \in Threads \union {"free"} /\ ended \in BOOLEAN

Goes(t, l) == pc' = [pc EXCEPT ![t] = l]

-----------------------------------------------------------------------------
\* alloc_or_die when calloc fails; when it does not, nothing here changes.
alloc_or_die(t) ==
  /\ pc[t] = "run" /\ throws[t] < MaxThrows
  /\ throws' = [throws EXCEPT ![t] = @ + 1]
  /\ IF emergencyBuffersHeld[t] > MaxHeld - 1
     THEN ended' = TRUE /\ UNCHANGED pc
     ELSE Goes(t, "lock") /\ UNCHANGED ended
  /\ UNCHANGED <<own, arg, emergencyBuffersHeld, buffer_allocated, content, lock>>

Lock(t) ==
  /\ pc[t] = "lock" /\ lock = "free" /\ lock' = t /\ Goes(t, "try")
  /\ UNCHANGED <<own, arg, emergencyBuffersHeld, buffer_allocated, content, throws, ended>>

\* Memory has become available while the thread waited.
CallocSucceeds(t) ==
  /\ pc[t] = "try" /\ lock' = "free" /\ Goes(t, "run")
  /\ UNCHANGED <<own, arg, emergencyBuffersHeld, buffer_allocated, content, throws, ended>>

Free == {b \in Buffers : ~buffer_allocated[b]}

\* The first buffer that is free, or a wait, which gives up the lock.
TakeBuffer(t) ==
  /\ pc[t] = "try" /\ lock' = "free"
  /\ IF Free = {} THEN Goes(t, "wait") /\ UNCHANGED <<own, buffer_allocated>>
     ELSE \E b \in Free :
            /\ \A c \in Free : b <= c
            /\ buffer_allocated' = [buffer_allocated EXCEPT ![b] = TRUE]
            /\ own' = [own EXCEPT ![t] = @ \union {b}] /\ Goes(t, "held")
  /\ UNCHANGED <<arg, emergencyBuffersHeld, content, throws, ended>>

\* After the unlock; the thread then writes its exception.  The count is never
\* taken down again.
Held(t) ==
  /\ pc[t] = "held" /\ Goes(t, "run")
  /\ emergencyBuffersHeld' = [emergencyBuffersHeld EXCEPT ![t] = @ + 1]
  /\ content' = [b \in Buffers |-> IF b \in own[t] THEN t ELSE content[b]]
  /\ UNCHANGED <<own, arg, buffer_allocated, throws, lock, ended>>

-----------------------------------------------------------------------------
\* Mutant: the buffer is marked free before it is cleared.
free_exception_early(t, b) ==
  /\ pc[t] = "run" /\ b \in own[t]
  /\ IF b = 0 THEN ended' = TRUE /\ UNCHANGED <<pc, own, arg, buffer_allocated>>
     ELSE /\ Goes(t, "clear") /\ arg' = [arg EXCEPT ![t] = b]
          /\ own' = [own EXCEPT ![t] = @ \ {b}] /\ UNCHANGED ended
          /\ buffer_allocated' = [buffer_allocated EXCEPT ![b] = FALSE]
  /\ UNCHANGED <<emergencyBuffersHeld, content, throws, lock>>

\* The first buffer starts at the address of the pool, and is taken for
\* memory of the heap: free() of it ends the program.
free_exception(t, b) ==
  /\ pc[t] = "run" /\ b \in own[t]
  /\ IF b = 0 THEN ended' = TRUE /\ UNCHANGED <<pc, own, arg>>
     ELSE /\ Goes(t, "clear") /\ arg' = [arg EXCEPT ![t] = b]
          /\ own' = [own EXCEPT ![t] = @ \ {b}] /\ UNCHANGED ended
  /\ UNCHANGED <<emergencyBuffersHeld, buffer_allocated, content, throws, lock>>

\* emergency_malloc_free, its memset and then its critical section.
Memset(t) ==
  /\ pc[t] = "clear" /\ Goes(t, "unlock")
  /\ content' = [content EXCEPT ![arg[t]] = "zero"]
  /\ UNCHANGED <<own, arg, emergencyBuffersHeld, buffer_allocated, throws, lock, ended>>

\* One thread that waits is woken, and tries calloc first: if that succeeds
\* the buffer stays free while the others wait on.
emergency_malloc_free(t) ==
  /\ pc[t] = "unlock" /\ lock = "free"
  /\ buffer_allocated' = [buffer_allocated EXCEPT ![arg[t]] = FALSE]
  /\ IF \A u \in Threads : pc[u] # "wait" THEN Goes(t, "run")
     ELSE \E u \in Threads : pc[u] = "wait" /\ pc' = [pc EXCEPT ![t] = "run", ![u] = "lock"]
  /\ UNCHANGED <<own, arg, emergencyBuffersHeld, content, throws, lock, ended>>

Init ==
  /\ pc = [t \in Threads |-> "run"] /\ own = [t \in Threads |-> {}]
  /\ arg = [t \in Threads |-> 0] /\ emergencyBuffersHeld = [t \in Threads |-> 0]
  /\ buffer_allocated = [b \in Buffers |-> FALSE] /\ content = [b \in Buffers |-> "zero"]
  /\ throws = [t \in Threads |-> 0] /\ lock = "free" /\ ended = FALSE

Next ==
  /\ ~ended
  /\ \E t \in Threads :
       \/ alloc_or_die(t) \/ Lock(t) \/ CallocSucceeds(t) \/ TakeBuffer(t) \/ Held(t)
       \/ \E b \in Buffers : free_exception(t, b)
       \/ Memset(t) \/ emergency_malloc_free(t)

Spec == Init /\ [][Next]_vars

-----------------------------------------------------------------------------
\* A buffer belongs to one exception at a time, is clear when it is handed
\* out, and is not cleared under the exception that has it: emergency_malloc
\* "is expected to return 0-initialized data" and leaves that to the release.
BuffersClean ==
  /\ \A t, u \in Threads : t # u => own[t] \intersect own[u] = {}
  /\ \A t \in Threads : \A b \in own[t] :
       content[b] = IF pc[t] = "held" /\ content[b] = "zero" THEN "zero" ELSE t

=============================================================================
