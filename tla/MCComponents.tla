---------------------------- MODULE MCComponents ----------------------------
(***************************************************************************)
(* The components that need no fairness and no other component, checked    *)
(* together.  A behaviour is one of the component named by which: one of   *)
(* Locks, References, Framing, IosBase or LogTools, or one of those below, *)
(* whose variables are v1 to v9.  Those that a component does not have     *)
(* stay as they are.                                                       *)
(***************************************************************************)
EXTENDS Locks, References, Framing, IosBase, LogTools

VARIABLES v1, v2, v3, v4, v5, v6, v7, v8, v9

-----------------------------------------------------------------------------
(* Values of the constants.                                                *)

\* Both sides of the boundaries of one, two, three and four bytes, of the
\* surrogates and of the byte order mark; a Maxcode between an allowed character
\* and its first byte.
MCCodes == {65, 128, 2047, 2048, 55296, 56320, 65279, 65535, 65536, 1114111}
MCHeads == {65, 193, 194, 224, 237, 239, 240, 244, 245, 254, 216}
MCSeconds == {65, 128, 143, 144, 159, 160, 187, 191, 220, 255}
MCTails == {65, 128, 220}
MCMaxcodes == {127, 160, 1114111}

MCGroupings == {<<>>, <<3>>, <<3, 2>>, <<1>>, <<2, 1>>, <<3, 127>>, <<0>>}
MCDates ==
  {<<a, s, b, t, c>> : a, b, c \in {"%d", "%m", "%y", "%Y", "%b", "%B", "%A", "%%"},
                       s, t \in {" ", "/"}}
    \cup {<<a, s, b, t, c>> : a, b, c \in {"%p", "%I", "%H", "%M", "%S", "%a"}, s, t \in {" ", ":"}}
    \cup {<<"%d", " ", " ", "%m", ".", " ", "%Y">>, <<"%d">>, <<"%Y", "/", "%m">>}

\* Around the table's end, squares of primes and the largest prime.
MCTried ==
  0..450 \cup 44400..44620 \cup 46900..47100 \cup 49700..49800 \cup 177200..177250
    \cup 259070..259090 \cup 262100..262144

MCNames ==
  {<<"q">>, <<"q", "/">>, <<"q", "/", "/">>, <<"/", "q">>, <<"q", "/", "q">>, <<"q", "#">>,
   <<"q", "#", "/">>, <<"q", "#", "q">>, <<"q", ",", "q">>, <<"q", "/", ",", "/">>, <<"/">>,
   <<"q", "/", "/", "q">>}

\* Functions with nested try blocks, clean-ups and exception specifications;
\* some offsets need two bytes.
Site(a, n, p, c) == [start |-> a, size |-> n, pad |-> p, clauses |-> c]
Frame(s, ip) == [sites |-> s, ip |-> ip, encoding |-> IF ip > 100 THEN 1 ELSE 1 + (ip % 4)]
Nested == <<Site(0, 4, 20, <<2, 1>>), Site(4, 3, 30, <<1, 0>>), Site(130, 4, 40, <<-1, 0>>),
            Site(140, 2, 0, <<>>)>>
Clean == <<Site(2, 3, 60, <<>>), Site(5, 2, 150, <<3, -1, 0>>), Site(9, 2, 70, <<-2>>),
           Site(20, 5, 80, <<-3, 4>>)>>
MCShapes == {Frame(Nested, ip) : ip \in {4, 5, 8, 134, 141, 150}}
              \cup {Frame(Clean, ip) : ip \in {2, 5, 7, 11, 23}} \cup {Frame(<<>>, 3)}

-----------------------------------------------------------------------------
Conv == INSTANCE Conversion WITH
  Codes <- MCCodes, Heads <- MCHeads, Seconds <- MCSeconds, Tails <- MCTails,
  Maxcodes <- MCMaxcodes, f <- v1, mc <- v2, mode <- v3, dir <- v4, src <- v5,
  orig <- v6, pos <- v7, dst <- v8, last <- v9

Form == INSTANCE Formatting WITH
  MaxDigits <- 7, Groupings <- MCGroupings, Dates <- MCDates, job <- v1

Num == INSTANCE Numerals WITH
  LargestPrime <- 262139, Root <- 512, Tried <- MCTried, IntMax <- 3,
  LongMax <- 15, Lengths <- {0, 1, 9, 10, 11, 20, 22, 23, 24, 45, 46, 47, 48},
  Capacities <- {5, 10, 22, 23}, call <- v1

Name == INSTANCE Naming WITH
  Addrs <- {"s1", "s2"}, Names <- MCNames, MaxDirs <- 3, dirs <- v1,
  files <- v2, sub <- v3

Unw == INSTANCE Unwinding WITH
  Shapes <- MCShapes, MaxFrames <- 3, Thrown <- {"base", "derived", "other"},
  Bases <- {<<"base", "derived">>}, stack <- v1, type <- v2, phase <- v3,
  at <- v4, handler <- v5, catchTemp <- v6, landings <- v7

Exc == INSTANCE Exceptions WITH
  Threads <- {"t1", "t2"}, MaxExc <- 3, MaxDepth <- 3, MaxAgain <- 1,
  Slots <- {"s1", "s2"}, exc <- v1, caught <- v2, uncaught <- v3, prog <- v4,
  ptr <- v5

Db == INSTANCE DebugDb WITH
  Containers <- {1, 3}, Iterators <- {1, 2, 3}, Nobody <- 0, ctab <- v1,
  csz <- v2, itab <- v3, isz <- v4, beg <- v5, cap <- v6, owner <- v7,
  truth <- v8

-----------------------------------------------------------------------------
LocksIdle == OnceIdle /\ MutexIdle /\ PoolIdle /\ kind = "idle" /\ throws = "idle"
RefsIdle  == CountIdle /\ FutIdle /\ shared_owners = "idle"

FrameIdle == FrameInit /\ policy = "line"
LogIdle   == LogInit /\ last = "f1"
Unused ==
  /\ v1 = "idle" /\ v2 = "idle" /\ v3 = "idle" /\ v4 = "idle" /\ v5 = "idle"
  /\ v6 = "idle" /\ v7 = "idle" /\ v8 = "idle" /\ v9 = "idle"

libVars == <<which, pc, lockVars, refVars, frameVars, iosVars, logVars>>

Init ==
  \/ /\ (LocksInit /\ RefsIdle) \/ (RefsInit /\ LocksIdle)
     /\ FrameIdle /\ IosInit /\ LogIdle /\ Unused
  \/ /\ LocksIdle /\ RefsIdle /\ pc = "idle"
     /\ IosInit /\ Unused
     /\ \/ which = "Framing" /\ FrameInit /\ LogIdle
        \/ which = "IosBase" /\ FrameIdle /\ LogIdle
        \/ which = "LogTools" /\ FrameIdle /\ LogInit
  \/ /\ LocksIdle /\ RefsIdle /\ pc = "idle" /\ FrameIdle /\ IosInit /\ LogIdle
     /\ \/ which = "Conversion" /\ Conv!Init
        \/ which = "Formatting" /\ Form!Init
             /\ v2 = "idle" /\ v3 = "idle" /\ v4 = "idle" /\ v5 = "idle" /\ v6 = "idle"
             /\ v7 = "idle" /\ v8 = "idle" /\ v9 = "idle"
        \/ which = "Numerals" /\ Num!Init
             /\ v2 = "idle" /\ v3 = "idle" /\ v4 = "idle" /\ v5 = "idle" /\ v6 = "idle"
             /\ v7 = "idle" /\ v8 = "idle" /\ v9 = "idle"
        \/ which = "Naming" /\ Name!Init
             /\ v4 = "idle" /\ v5 = "idle" /\ v6 = "idle" /\ v7 = "idle" /\ v8 = "idle"
             /\ v9 = "idle"
        \/ which = "Unwinding" /\ Unw!Init /\ v8 = "idle" /\ v9 = "idle"
        \/ which = "Exceptions" /\ Exc!Init
             /\ v6 = "idle" /\ v7 = "idle" /\ v8 = "idle" /\ v9 = "idle"
        \/ which = "DebugDb" /\ Db!Init /\ v9 = "idle"

Next ==
  \/ LocksNext /\ UNCHANGED <<refVars, frameVars, iosVars, logVars, v1, v2, v3, v4, v5, v6, v7, v8, v9>>
  \/ RefsNext /\ UNCHANGED <<lockVars, frameVars, iosVars, logVars, v1, v2, v3, v4, v5, v6, v7, v8, v9>>
  \/ which = "Conversion" /\ Conv!Next /\ UNCHANGED libVars
  \/ which = "Formatting" /\ Form!Next /\ UNCHANGED <<libVars, v2, v3, v4, v5, v6, v7, v8, v9>>
  \/ which = "Numerals" /\ Num!Next /\ UNCHANGED <<libVars, v2, v3, v4, v5, v6, v7, v8, v9>>
  \/ /\ which = "Framing" /\ FrameNext
     /\ UNCHANGED <<which, pc, lockVars, refVars, iosVars, logVars, v1, v2, v3, v4, v5, v6, v7, v8, v9>>
  \/ /\ which = "LogTools" /\ LogNext
     /\ UNCHANGED <<which, pc, lockVars, refVars, frameVars, iosVars, v1, v2, v3, v4, v5, v6, v7, v8, v9>>
  \/ which = "Naming" /\ Name!Next /\ UNCHANGED <<libVars, v4, v5, v6, v7, v8, v9>>
  \/ which = "Unwinding" /\ Unw!Next /\ UNCHANGED <<libVars, v8, v9>>
  \/ which = "Exceptions" /\ Exc!Next /\ UNCHANGED <<libVars, v6, v7, v8, v9>>
  \/ which = "DebugDb" /\ Db!Next /\ UNCHANGED <<libVars, v9>>
  \/ /\ which = "IosBase" /\ IosNext
     /\ UNCHANGED <<which, pc, lockVars, refVars, frameVars, logVars, v1, v2, v3, v4, v5, v6, v7, v8, v9>>

-----------------------------------------------------------------------------
\* Conversion: whatever is given to the facets in pieces, what comes out is
\* the encoding or decoding of what was used; a conversion fails only at
\* something that is no allowed character, or whose first byte is above Maxcode
\* where do_in makes UTF-16; what do_out wrote, do_in reads back as it was, up
\* to such a character; do_length counts the bytes that do_in uses; and
\* max_length() bytes are enough for do_in to get on.
ConversionsRight ==
  which = "Conversion" =>
    /\ Conv!Converts /\ Conv!ErrorsRight /\ Conv!RoundTrip
    /\ Conv!LengthAgrees /\ Conv!MaxLengthEnough


\* Numerals: __next_prime finds the next prime; stoi and its kin tell apart
\* values, range errors and no number; to_string neither cuts nor pads.
NumbersRight ==
  which = "Numerals" => Num!NextPrimeRight /\ Num!ParseRight /\ Num!ShownWhole

\* Naming: a publisher lists exactly the subscribers of its destination, with
\* the branch that each asked for, and subscribers share a key file exactly if
\* they share a queue.
NamesRight ==
  which = "Naming" => Name!TypeOK /\ Name!ListedRight /\ Name!SharedOrOwn

\* Unwinding: an exception lands in the innermost handler for its type, and
\* on the way there all clean-ups run, once and in order.
UnwindsRight == which = "Unwinding" => Unw!LandsRight /\ Unw!CleanupsRun

\* Exceptions: an exception object lives exactly as long as it is referred to,
\* and current_exception() is the innermost one being handled.
ExceptionsLive ==
  which = "Exceptions" => Exc!TypeOK /\ Exc!FreedInTime /\ Exc!CurrentIsInnermost

\* DebugDb: the debug registry knows the container of each iterator, its
\* lists and back pointers agree, and its tables find what they hold.
RegistryRight ==
  which = "DebugDb" => Db!TypeOK /\ Db!OwnersRight /\ Db!ListsAgree /\ Db!TablesWhole
=============================================================================
