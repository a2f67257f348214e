------------------------------ MODULE Recorder ------------------------------
(***************************************************************************)
(* wissbi-record (src/record.cpp): the main thread copies lines from       *)
(* standard input to standard output and keeps the last ones in a deque,   *)
(* the gc thread drops the old ones, and exit(), called at the end of      *)
(* main, by the SIGINT handler in the main thread or by the SIGPIPE        *)
(* handler in the thread that flushes, writes the deque to a file.         *)
(***************************************************************************)
EXTENDS Integers, Sequences

CONSTANTS MaxNum,    \* WISSBI_RECORD_MAX_MSGNUM; 0 is no limit
          MaxIn      \* bound on the lines of the input

ASSUME RecorderAssumption == MaxNum \in Nat /\ MaxIn \in Nat

Nobody == "nobody"
Thread == {"main", "gc", "flush"}

VARIABLES
  useTtl,             \* WISSBI_RECORD_TTL is set: the gc thread runs
  mainPc, nread, blank, \* main thread; lines read; whether the last was empty
  mq, pushed,         \* the deque; history: how many lines went in
  mq_mtx,             \* who holds the mutex
  exiter, second,     \* the thread that called exit(); a second call came
  dumpPc, dumped      \* progress of dump_mq_and_exit; what it wrote

mainVars == <<useTtl, mainPc, nread, blank>>
dumpVars == <<exiter, second, dumpPc, dumped>>
recVars  == <<mainVars, mq, pushed, mq_mtx, dumpVars>>

Exited == dumpPc \in {"done", "cut"}

RecTypeOK ==
  /\ useTtl \in BOOLEAN
  /\ mainPc \in {"get", "lock", "push", "put", "exit"}
  /\ nread \in 0..MaxIn /\ blank \in BOOLEAN
  /\ mq \in Seq(1..MaxIn) /\ pushed \in 0..MaxIn
  /\ mq_mtx \in Thread \cup {Nobody} /\ exiter \in Thread \cup {Nobody}
  /\ second \in BOOLEAN /\ dumpPc \in {"lock", "write", "done", "cut"} /\ dumped \in Seq(1..MaxIn)
  /\ MaxNum > 0 => Len(mq) <= MaxNum

RecInit ==
  /\ useTtl \in BOOLEAN
  /\ mainPc = "get" /\ nread = 0 /\ blank = FALSE
  /\ mq = <<>> /\ pushed = 0 /\ mq_mtx = Nobody
  /\ exiter = Nobody /\ second = FALSE /\ dumpPc = "lock" /\ dumped = <<>>

-----------------------------------------------------------------------------
(* Main thread: FilterLoop from Line to Line.                              *)

\* Line::Get.
Get(b) ==
  /\ ~Exited /\ mainPc = "get" /\ nread < MaxIn
  /\ mainPc' = "lock"
  /\ nread' = nread + 1 /\ blank' = b
  /\ UNCHANGED <<useTtl, mq, pushed, mq_mtx, dumpVars>>

\* The filter function takes the mutex, makes room and appends.
Lock ==
  /\ ~Exited /\ mainPc = "lock" /\ mq_mtx = Nobody
  /\ mainPc' = "push"
  /\ mq_mtx' = "main"
  /\ UNCHANGED <<useTtl, nread, blank, mq, pushed, dumpVars>>

\* Mutant: the newest message goes out instead of the oldest.
PushDropsNewest ==
  /\ ~Exited /\ mainPc = "push"
  /\ mainPc' = "put"
  /\ mq' = Append(IF MaxNum > 0 /\ Len(mq) = MaxNum
                  THEN SubSeq(mq, 1, Len(mq) - 1) ELSE mq, nread)
  /\ pushed' = pushed + 1
  /\ mq_mtx' = Nobody
  /\ UNCHANGED <<useTtl, nread, blank, dumpVars>>

Push ==
  /\ ~Exited /\ mainPc = "push"
  /\ mainPc' = "put"
  /\ mq' = Append(IF MaxNum > 0 /\ Len(mq) = MaxNum THEN Tail(mq) ELSE mq, nread)
  /\ pushed' = pushed + 1
  /\ mq_mtx' = Nobody
  /\ UNCHANGED <<useTtl, nread, blank, dumpVars>>

\* Thread t calls exit(); the first call runs dump_mq_and_exit.
CallExit(t) ==
  /\ exiter' = IF exiter = Nobody THEN t ELSE exiter
  /\ second' = (exiter # Nobody)
  /\ UNCHANGED <<mq, pushed, mq_mtx, dumpPc, dumped>>

Put ==
  /\ ~Exited /\ mainPc = "put" /\ ~blank
  /\ mainPc' = "get"
  /\ UNCHANGED <<useTtl, nread, blank, mq, pushed, mq_mtx, dumpVars>>

\* Line::Put refuses an empty line, or Line::Get fails: main returns.
MainReturns ==
  /\ ~Exited
  /\ mainPc = "get" \/ (mainPc = "put" /\ blank)
  /\ mainPc' = "exit"
  /\ CallExit("main")
  /\ UNCHANGED <<useTtl, nread, blank>>

-----------------------------------------------------------------------------
(* gc thread.                                                              *)

\* The handlers clear running without a lock, so the thread may go on for
\* some turns after it was cleared.
GcLock ==
  /\ ~Exited /\ useTtl /\ mq_mtx = Nobody
  /\ mq_mtx' = "gc"
  /\ UNCHANGED <<mainVars, mq, pushed, dumpVars>>

\* Mutant: the gc thread does not give the mutex back.
GcKeepsMutex ==
  /\ ~Exited /\ mq_mtx = "gc"
  /\ \E k \in 0..Len(mq) : mq' = SubSeq(mq, k + 1, Len(mq))
  /\ UNCHANGED <<mainVars, pushed, mq_mtx, dumpVars>>

\* Any number of messages at the front may be older than ttl.
GcDrop ==
  /\ ~Exited /\ mq_mtx = "gc"
  /\ \E k \in 0..Len(mq) : mq' = SubSeq(mq, k + 1, Len(mq))
  /\ mq_mtx' = Nobody
  /\ UNCHANGED <<mainVars, pushed, dumpVars>>

-----------------------------------------------------------------------------
(* Signals and the exit.                                                   *)

\* SIGINT stops the main thread wherever it is, in exit() too.
SigInt ==
  /\ ~Exited /\ ~second
  /\ mainPc' = "exit"
  /\ CallExit("main")
  /\ UNCHANGED <<useTtl, nread, blank>>

\* SIGPIPE comes to the thread of auto_flush; the main thread goes on.
SigPipe ==
  /\ ~Exited /\ ~second /\ exiter # "flush"
  /\ CallExit("flush")
  /\ UNCHANGED mainVars

\* A second exit() finds dump_mq_and_exit taken from the list of handlers: it
\* destroys the deque and ends the process, wherever the first one is.  Or it
\* comes too late, or waits, as the library has it.
SecondExit ==
  /\ ~Exited /\ second
  /\ dumpPc' = "cut"
  /\ UNCHANGED <<mainVars, mq, pushed, mq_mtx, exiter, second, dumped>>

\* dump_mq_and_exit takes the mutex; a thread that holds it already waits for
\* itself.
DumpLock ==
  /\ exiter # Nobody /\ dumpPc = "lock" /\ mq_mtx = Nobody
  /\ dumpPc' = "write"
  /\ mq_mtx' = exiter
  /\ UNCHANGED <<mainVars, mq, pushed, exiter, second, dumped>>

\* It writes the deque, and the process ends.
Dump ==
  /\ dumpPc = "write"
  /\ dumpPc' = "done"
  /\ dumped' = mq
  /\ mq_mtx' = Nobody
  /\ UNCHANGED <<mainVars, mq, pushed, exiter, second>>

-----------------------------------------------------------------------------
MainRuns == Lock \/ Push \/ Put \/ MainReturns

RecNext ==
  \/ MainRuns \/ \E b \in BOOLEAN : Get(b)
  \/ GcLock \/ GcDrop \/ SigInt \/ SigPipe \/ SecondExit \/ DumpLock \/ Dump

RecSpec == RecInit /\ [][RecNext]_recVars

\* Threads are scheduled; gc sleeps a second between its turns, so a thread
\* that waits for the mutex gets it.
RecFairness ==
  /\ WF_recVars(Lock \/ Push \/ Put) /\ WF_recVars(GcDrop)
  /\ SF_recVars(DumpLock) /\ WF_recVars(Dump)

RecFairSpec == RecSpec /\ RecFairness

-----------------------------------------------------------------------------
(* Properties.                                                             *)

\* The dump, unless a second exit() cut it off, has the last lines that were
\* recorded, in order and without a gap: MaxNum of them, or all if there were
\* fewer or there is no limit; with a time to live possibly fewer.
DumpIsTail ==
  LET k == Len(dumped)
      n == IF MaxNum > 0 /\ MaxNum < pushed THEN MaxNum ELSE pushed
  IN  dumpPc = "done" => /\ dumped = [i \in 1..k |-> pushed - k + i]
                         /\ IF useTtl THEN k <= n ELSE k = n

\* Once exit() is called outside the critical section of the main thread
\* (record.cpp:91-97) the dump is written, also while gc holds the mutex,
\* unless exit() is called again.
ExitDumps == exiter # Nobody /\ mq_mtx # "main" ~> dumpPc = "done" \/ second

=============================================================================
