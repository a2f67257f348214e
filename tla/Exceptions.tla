----------------------------- MODULE Exceptions -----------------------------
(***************************************************************************)
(* Life of the exceptions of a program: what the calls that a compiler     *)
(* emits for throw, catch and rethrow do to the structures of the bundled  *)
(* libcxxrt (exception.cc), and what exception_ptr does (exception.cpp of  *)
(* libcxx).  A thread's program is a stack of catch blocks it is in and of *)
(* exceptions that unwind it; code run by an unwinding, a destructor, may  *)
(* throw and catch within itself.                                          *)
(***************************************************************************)
EXTENDS Integers, Sequences, FiniteSets

CONSTANTS Threads,
          MaxExc,    \* exceptions allocated
          MaxDepth,  \* catch blocks and unwindings of a thread
          MaxAgain,  \* rethrown exceptions that a thread catches again
          Slots      \* variables of type exception_ptr

VARIABLES exc,       \* the exceptions allocated so far
          caught,    \* caughtExceptions of each thread, 0 if there is none
          uncaught,  \* uncaughtExceptions of each thread
          prog,      \* the program's stack: <<"catch", e>> or <<"fly", e>>
          ptr        \* the exception each exception_ptr refers to, or 0

vars == <<exc, caught, uncaught, prog, ptr>>

Exc == 1..Len(exc)
Top(t) == prog[t][Len(prog[t])]
Below(t) == SubSeq(prog[t], 1, Len(prog[t]) - 1)
In(t, what) == prog[t] # <<>> /\ Top(t)[1] = what

\* primary is 0 but in a dependent exception; inner is what the object of a
\* nested_exception refers to.
TypeOK ==
  /\ \A e \in Exc : exc[e] \in [live : BOOLEAN, ref : 0..MaxExc + 9, primary : 0..MaxExc,
                                inner : 0..MaxExc, next : 0..MaxExc,
                                handlerCount : -MaxDepth..MaxDepth]
  /\ caught \in [Threads -> 0..MaxExc] /\ uncaught \in [Threads -> -MaxAgain - MaxDepth..MaxDepth]
  /\ ptr \in [Slots -> 0..MaxExc]
  /\ \A t \in Threads : Len(prog[t]) <= MaxDepth

-----------------------------------------------------------------------------
(* Reference counts.  x is the table of exceptions.                        *)

realException(x, e) == IF x[e].primary # 0 THEN x[e].primary ELSE e

\* releaseException, __cxa_free_exception and __cxa_free_dependent_exception:
\* the destructor of the object gives up what the object refers to.
RECURSIVE releaseException(_, _)
releaseException(x, e) ==
  IF x[e].primary # 0 THEN releaseException([x EXCEPT ![e].live = FALSE], x[e].primary)
  ELSE IF x[e].ref # 1 THEN [x EXCEPT ![e].ref = @ - 1]
  ELSE LET y == [x EXCEPT ![e].ref = 0, ![e].live = FALSE]
       IN IF x[e].inner # 0 THEN releaseException(y, x[e].inner) ELSE y

Refer(x, e) == [x EXCEPT ![e].ref = @ + 1]

-----------------------------------------------------------------------------
(* Throwing.                                                               *)

CanThrow(t) == Len(prog[t]) < MaxDepth

\* __cxa_allocate_exception, __cxa_throw: the exception starts to unwind.
throw_exception(t, x, new) ==
  /\ exc' = Append(x, new)
  /\ uncaught' = [uncaught EXCEPT ![t] = @ + 1]
  /\ prog' = [prog EXCEPT ![t] = Append(@, <<"fly", Len(x) + 1>>)]
  /\ UNCHANGED <<caught, ptr>>

New == [live |-> TRUE, ref |-> 1, primary |-> 0, inner |-> 0, next |-> 0, handlerCount |-> 0]

cxa_throw(t) ==
  /\ CanThrow(t) /\ Len(exc) < MaxExc /\ throw_exception(t, exc, New)

\* throw_with_nested: the object holds the current exception.
ThrowNested(t) ==
  /\ CanThrow(t) /\ Len(exc) < MaxExc /\ caught[t] # 0
  /\ LET e == realException(exc, caught[t])
     IN throw_exception(t, Refer(exc, e), [New EXCEPT !.inner = e])

\* rethrow_exception
cxa_rethrow_primary_exception(t, s) ==
  /\ CanThrow(t) /\ Len(exc) < MaxExc /\ ptr[s] # 0
  /\ throw_exception(t, Refer(exc, ptr[s]), [New EXCEPT !.ref = 0, !.primary = ptr[s]])

\* The exception stays on the list until its catch block is left.  It is not
\* counted as uncaught again, and the count falls below 0 when it is caught.
cxa_rethrow(t) ==
  /\ CanThrow(t) /\ In(t, "catch") /\ uncaught[t] > -MaxAgain
  /\ exc' = [exc EXCEPT ![caught[t]].handlerCount = -@]
  /\ prog' = [prog EXCEPT ![t] = Append(@, <<"fly", caught[t]>>)]
  /\ UNCHANGED <<caught, uncaught, ptr>>

-----------------------------------------------------------------------------
(* Catching.                                                               *)

cxa_begin_catch(t) ==
  /\ In(t, "fly")
  /\ LET e == Top(t)[2]
         first == exc[e].handlerCount = 0
     IN /\ exc' = [exc EXCEPT ![e].next = IF first THEN caught[t] ELSE @,
                              ![e].handlerCount = IF @ < 0 THEN -@ + 1 ELSE @ + 1]
        /\ caught' = IF first THEN [caught EXCEPT ![t] = e] ELSE caught
        /\ prog' = [prog EXCEPT ![t] = Append(Below(t), <<"catch", e>>)]
  /\ uncaught' = [uncaught EXCEPT ![t] = @ - 1] /\ UNCHANGED ptr

\* Mutant: an exception that was rethrown is released all the same.
end_catch_releases(t) ==
  LET e == caught[t]
      n == IF exc[e].handlerCount < 0 THEN exc[e].handlerCount + 1
                                      ELSE exc[e].handlerCount - 1
      x == [exc EXCEPT ![e].handlerCount = n]
  IN /\ exc' = IF n = 0 THEN releaseException(x, e) ELSE x
     /\ caught' = IF n = 0 THEN [caught EXCEPT ![t] = exc[e].next] ELSE caught
     /\ UNCHANGED <<uncaught, ptr>>

cxa_end_catch(t) ==
  LET e == caught[t]
      rethrown == exc[e].handlerCount < 0
      n == IF rethrown THEN exc[e].handlerCount + 1 ELSE exc[e].handlerCount - 1
      x == [exc EXCEPT ![e].handlerCount = n]
  IN /\ exc' = IF n = 0 /\ ~rethrown THEN releaseException(x, e) ELSE x
     /\ caught' = IF n = 0 THEN [caught EXCEPT ![t] = exc[e].next] ELSE caught
     /\ UNCHANGED <<uncaught, ptr>>

\* A catch block ends.
Leave(t) == In(t, "catch") /\ prog' = [prog EXCEPT ![t] = Below(t)] /\ cxa_end_catch(t)

\* An exception unwinds the catch block it was thrown in.
UnwindCatch(t) ==
  /\ In(t, "fly") /\ Len(prog[t]) > 1 /\ Below(t)[Len(prog[t]) - 1][1] = "catch"
  /\ prog' = [prog EXCEPT ![t] = Append(SubSeq(@, 1, Len(@) - 2), Top(t))]
  /\ cxa_end_catch(t)

-----------------------------------------------------------------------------
(* exception_ptr                                                           *)

\* Assignment counts the new exception before it gives up the old one.
Assign(x, s, e) ==
  /\ ptr' = [ptr EXCEPT ![s] = e]
  /\ exc' = IF ptr[s] = e \/ ptr[s] = 0 THEN x ELSE releaseException(x, ptr[s])
  /\ UNCHANGED <<caught, uncaught, prog>>

\* s = current_exception()
current_exception(t, s) ==
  /\ caught[t] # 0
  /\ LET e == realException(exc, caught[t])
     IN Assign(IF ptr[s] = e THEN exc ELSE Refer(exc, e), s, e)

Copy(r, s) ==
  /\ r # s /\ ptr[r] # 0 /\ Assign(IF ptr[s] = ptr[r] THEN exc ELSE Refer(exc, ptr[r]), s, ptr[r])

Drop(s) == ptr[s] # 0 /\ Assign(exc, s, 0)

Init ==
  /\ exc = <<>> /\ caught = [t \in Threads |-> 0] /\ uncaught = [t \in Threads |-> 0]
  /\ prog = [t \in Threads |-> <<>>] /\ ptr = [s \in Slots |-> 0]

Next ==
  \/ \E t \in Threads :
       \/ cxa_throw(t) \/ ThrowNested(t) \/ cxa_rethrow(t)
       \/ cxa_begin_catch(t) \/ Leave(t) \/ UnwindCatch(t)
       \/ \E s \in Slots : cxa_rethrow_primary_exception(t, s) \/ current_exception(t, s)
  \/ \E r, s \in Slots : Copy(r, s)
  \/ \E s \in Slots : Drop(s)

-----------------------------------------------------------------------------
Blocks(t) == SelectSeq(prog[t], LAMBDA f : f[1] = "catch")

Referred ==
  {f[2] : f \in UNION {{prog[t][k] : k \in 1..Len(prog[t])} : t \in Threads}}
  \union {caught[t] : t \in Threads} \union {ptr[s] : s \in Slots}
  \union UNION {{exc[e].primary, exc[e].inner, exc[e].next} :
                  e \in {d \in Exc : exc[d].live /\ exc[d].handlerCount # 0}}
  \union UNION {{exc[e].primary, exc[e].inner} : e \in {d \in Exc : exc[d].live}}

\* An exception is freed exactly when nothing refers to it any more: no catch
\* block, no unwinding, no exception_ptr, no dependent and no nesting
\* exception, in whatever order __cxa_end_catch, rethrows and releases come.
FreedInTime == {e \in Exc : exc[e].live} = Referred \ {0}

\* Inside a catch block, throw; and current_exception() mean the exception
\* that the innermost block caught, also after other exceptions were thrown
\* and caught within it: the list of caught exceptions is the program's
\* blocks, and an exception's count is that of its blocks.
CurrentIsInnermost ==
  \A t \in Threads :
    /\ caught[t] = IF Blocks(t) = <<>> THEN 0 ELSE Blocks(t)[Len(Blocks(t))][2]
    /\ \A e \in Exc :
         LET n == Cardinality({k \in 1..Len(prog[t]) : prog[t][k] = <<"catch", e>>})
         IN n > 0 => exc[e].handlerCount \in {n, -n}

=============================================================================
