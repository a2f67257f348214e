----------------------------- MODULE Publisher ------------------------------
(***************************************************************************)
(* One wissbi-pub process: the main thread that reads standard input and   *)
(* tees every message to the branch queues (src/pub.cpp, io_policy/tee.hpp,*)
(* io_policy/sysv_mq.hpp), the Connector thread that follows the meta      *)
(* directory (src/connector.hpp) and the detached producer threads that    *)
(* move messages from a branch queue to a subscriber's socket              *)
(* (src/connector.hpp, src/msg_filter.hpp, io_policy/tcp.hpp).             *)
(* The subscribers, the meta directory, TCP and the signals a user sends   *)
(* are the environment.                                                    *)
(***************************************************************************)
EXTENDS Integers, Sequences, FiniteSets

CONSTANTS Addr,         \* conn_str of every subscriber that may appear
          Dest,         \* real_dest names, one branch queue each
          DestOf,       \* the real_dest in the entry of each address
          Thread,       \* slots for producer threads (bound on live threads)
          NoAddr,       \* "no address": the Connector is not about to insert
          QCap,         \* messages a System V queue holds before it is full
          MaxMsg,       \* bound on the messages read from standard input
          CounterMod,   \* 2^w for the w bits of std::atomic_uint
          DropMessage   \* FALSE iff WISSBI_DROP_MESSAGE is "no"

ASSUME PublisherAssumption ==
  /\ DestOf \in [Addr -> Dest]
  /\ NoAddr \notin Addr
  /\ QCap \in Nat \ {0}
  /\ MaxMsg \in Nat
  /\ CounterMod \in Nat \ {0}
  /\ DropMessage \in BOOLEAN

\* There are finitely many branches and threads, and the process teed fewer
\* than 2^w messages in its life: a message whose put failed or whose line was
\* blank is never subtracted from pending_counter again.
ASSUME CounterAssumption ==
  /\ IsFiniteSet(Dest) /\ IsFiniteSet(Thread)
  /\ MaxMsg * Cardinality(Dest) < CounterMod

Msg     == 1..MaxMsg      \* the i-th line read is message i
Empty   == 0              \* any message of length 0
Payload == 0..MaxMsg

VARIABLES
  mainPc, nread, cur,   \* main thread: where it is, lines read, msg_buf_
  left,                 \* branches the iteration of Tee::Put still has to meet
  teeCount, failedCount,\* last_tee_count_, last_failed_count_
  dropped,              \* last_processed of the drop metric
  pending,              \* pending_counter
  branch,               \* keys of branch_map_
  mq, queues, stale,    \* kernel: contents, existing queues, threads whose
                        \* mqid_ names a removed queue
  inserting,            \* Connector: the conn_str it is about to insert
  producer_set,
  thState, thAddr, thMsg, \* producer threads: where, conn_str, msg_buf_
  thLast,               \* history: last message written on the connection
  processed,            \* total_processed of each destination's metric
  accepted, sent, writes, lost, \* history, see module Delivery
  requeued              \* history: destinations a message was put back on

mainRest == <<nread, cur, left, teeCount, failedCount, dropped>>
mqVars   == <<mq, queues, stale>>
connVars == <<inserting, producer_set, branch>>
thVars   == <<thState, thAddr, thMsg, thLast>>
histVars == <<accepted, sent, writes, lost, requeued>>
counters == <<pending, processed>>
vars     == <<mainPc, mainRest, mqVars, connVars, thVars, histVars, counters>>

ThState == {"idle", "connect", "init", "get", "write", "post", "requeue",
            "erase"}
MainPc  == {"pre", "get", "tee", "drain", "report", "destroyed", "exited"}

HasQueue(t) == thState[t] \in {"get", "write", "post", "requeue"}

ThDest(t) == DestOf[thAddr[t]]

\* The thread has a message in its buffer that is in no queue and not sent.
Holds(t, m) == thState[t] \in {"write", "requeue"} /\ thMsg[t] = m

Held(d, m) == \E t \in Thread : Holds(t, m) /\ ThDest(t) = d

\* The queue of d contains m; it contains m at most once.
Occurs(s, m)   == \E i \in 1..Len(s) : s[i] = m
AtMostOne(s, m) == \A i, j \in 1..Len(s) : s[i] = m /\ s[j] = m => i = j
InQueue(d, m)  == Occurs(mq[d], m)

Full(d) == Len(mq[d]) >= QCap

Alive == mainPc \notin {"destroyed", "exited"}

TypeOK ==
  /\ mainPc \in MainPc /\ nread \in 0..MaxMsg /\ cur \in Payload
  /\ left \subseteq Dest /\ teeCount \in Nat /\ failedCount \in Nat
  /\ dropped \in Nat /\ pending \in 0..(CounterMod - 1)
  /\ branch \subseteq Dest /\ queues \subseteq Dest /\ stale \subseteq Thread
  /\ mq \in [Dest -> Seq(Payload)]
  /\ inserting \in Addr \cup {NoAddr}
  /\ producer_set \subseteq Addr
  /\ thState \in [Thread -> ThState]
  /\ thAddr \in [Thread -> Addr \cup {NoAddr}]
  /\ thMsg \in [Thread -> Payload]
  /\ thLast \in [Thread -> Payload]
  /\ processed \in [Dest -> Nat]
  /\ accepted \in [Dest -> SUBSET Msg]
  /\ sent \in [Dest -> SUBSET Msg] /\ writes \in Nat
  /\ lost \in [Dest -> SUBSET Msg]
  /\ requeued \subseteq Dest

Init ==
  /\ mainPc = "pre" /\ nread = 0 /\ cur = Empty
  /\ left = {} /\ teeCount = 0 /\ failedCount = 0
  /\ dropped = 0 /\ pending = 0
  /\ branch = {} /\ queues = {} /\ stale = {}
  /\ mq = [d \in Dest |-> <<>>]
  /\ inserting = NoAddr
  /\ producer_set = {}
  /\ thState = [t \in Thread |-> "idle"]
  /\ thAddr = [t \in Thread |-> NoAddr]
  /\ thMsg = [t \in Thread |-> Empty]
  /\ thLast = [t \in Thread |-> Empty]
  /\ processed = [d \in Dest |-> 0]
  /\ accepted = [d \in Dest |-> {}]
  /\ sent = [d \in Dest |-> {}] /\ writes = 0
  /\ lost = [d \in Dest |-> {}]
  /\ requeued = {}

-----------------------------------------------------------------------------
(* Main thread: input_filter.FilterLoop(), then the end of run().          *)

\* The main thread moves on and changes nothing else.
MainGoes(from, to) ==
  /\ mainPc = from /\ mainPc' = to
  /\ UNCHANGED <<mainRest, mqVars, connVars, thVars, histVars, counters>>

\* sleep_while leaves its loop as soon as a branch exists, or when the wait
\* timeout has passed; the pre-filter returns true in both cases.
PreFilterReady   == branch # {} /\ MainGoes("pre", "get")
PreFilterTimeout == branch = {} /\ MainGoes("pre", "get")

\* Line::Get reads a line, which may be blank, and Tee::Put starts.
ReadLine(blank) ==
  /\ mainPc = "get" /\ nread < MaxMsg
  /\ mainPc' = "tee"
  /\ nread' = nread + 1
  /\ cur' = IF blank THEN Empty ELSE nread + 1
  /\ left' = branch
  /\ teeCount' = 0 /\ failedCount' = 0
  /\ UNCHANGED <<dropped, mqVars, connVars, thVars, histVars, counters>>

\* Line::Get returns false: end of input, or a line that does not fit.
ReadFails == MainGoes("get", "drain")

\* SysvMq::Put of the main thread on one branch: msgsnd takes the message.
TeePut(d) ==
  /\ mainPc = "tee" /\ d \in left /\ ~Full(d)
  /\ mq' = [mq EXCEPT ![d] = Append(@, cur)]
  /\ accepted' = [accepted EXCEPT ![d] = @ \cup ({cur} \ {Empty})]
  /\ left' = left \ {d}
  /\ teeCount' = teeCount + 1
  /\ UNCHANGED <<mainPc, nread, cur, failedCount, dropped, queues, stale,
                 connVars, thVars, sent, writes, lost, requeued, counters>>

\* msgsnd on a full queue fails; Tee::Put counts the branch all the same.
TeePutFails(d) ==
  /\ mainPc = "tee" /\ d \in left /\ Full(d)
  /\ left' = left \ {d}
  /\ teeCount' = teeCount + 1
  /\ failedCount' = failedCount + 1
  /\ UNCHANGED <<mainPc, nread, cur, dropped, mqVars, connVars, thVars,
                 histVars, counters>>

\* It fails at once under IPC_NOWAIT.  Otherwise it blocks until there is room
\* (TeePut), and fails only if a signal interrupts it.
TeePutDrops(d) == DropMessage /\ TeePutFails(d)

\* Mutant: the counter goes up by one per message, not per branch.
PostFilterPerMessage ==
  /\ mainPc = "tee" /\ left = {}
  /\ mainPc' = "pre"
  /\ pending' = (pending + (IF teeCount > 0 THEN 1 ELSE 0)) % CounterMod
  /\ dropped' = dropped + failedCount
  /\ UNCHANGED <<nread, cur, left, teeCount, failedCount, mqVars, connVars,
                 thVars, histVars, processed>>

\* post_filter_func_ after Tee::Put has returned true.
PostFilter ==
  /\ mainPc = "tee" /\ left = {}
  /\ mainPc' = "pre"
  /\ pending' = (pending + teeCount) % CounterMod
  /\ dropped' = dropped + failedCount
  /\ UNCHANGED <<nread, cur, left, teeCount, failedCount, mqVars, connVars,
                 thVars, histVars, processed>>

\* The second sleep_while: until the counter is 0, or the timeout passes.
DrainDone    == pending = 0 /\ MainGoes("drain", "report")
DrainTimeout == pending > 0 /\ MainGoes("drain", "report")

\* Mutant: the destructor leaves the queue, as after set_cleanup(false).
DestroyKeepsQueues == MainGoes("report", "destroyed")

\* run() returns: every branch's SysvMq is destroyed and its queue removed.
Destroy ==
  /\ mainPc = "report"
  /\ mainPc' = "destroyed"
  /\ queues' = {}
  /\ mq' = [d \in Dest |-> <<>>]
  /\ stale' = {t \in Thread : HasQueue(t)}
  /\ lost' = [d \in Dest |-> lost[d] \cup {m \in Msg : InQueue(d, m)}]
  /\ UNCHANGED <<mainRest, connVars, thVars, accepted, sent, writes,
                 requeued, counters>>

\* main() returns: the detached threads end with the process.
Exit ==
  /\ mainPc = "destroyed"
  /\ mainPc' = "exited"
  /\ thState' = [t \in Thread |-> "idle"]
  /\ thAddr' = [t \in Thread |-> NoAddr]
  /\ thMsg' = [t \in Thread |-> Empty]
  /\ thLast' = [t \in Thread |-> Empty]
  /\ stale' = {}
  /\ lost' = [d \in Dest |-> lost[d] \cup {m \in Msg : Held(d, m)}]
  /\ UNCHANGED <<mainRest, mq, queues, connVars, accepted, sent, writes,
                 requeued, counters>>

-----------------------------------------------------------------------------
(* Connector thread: ConnectorLoop.  It stops to matter once run() has     *)
(* destroyed the objects it refers to.                                     *)

\* sub_dir.GetSubList(): entries <<a, DestOf[a]>>.  The directory belongs to
\* the subscribers and may list any of them when it is read.
GetSubList == Addr

\* An address without a producer thread: make the branch if there is none and
\* start a thread.  Nothing orders AddBranch against a Tee::Put that is under
\* way, which may or may not meet the new branch.
Open(a, t) ==
  LET d == DestOf[a] IN
  /\ Alive /\ inserting = NoAddr
  /\ a \in GetSubList \ producer_set
  /\ thState[t] = "idle"
  /\ branch' = branch \cup {d}
  /\ queues' = queues \cup {d}
  /\ left' \in IF mainPc = "tee" /\ d \notin branch
               THEN {left, left \cup {d}} ELSE {left}
  /\ thState' = [thState EXCEPT ![t] = "connect"]
  /\ thAddr' = [thAddr EXCEPT ![t] = a]
  /\ inserting' = a
  /\ UNCHANGED <<mainPc, nread, cur, teeCount, failedCount, dropped, mq,
                 stale, producer_set, thMsg, thLast, histVars, counters>>

\* producer_set.insert(conn_str), once the thread has been started.  No lock
\* orders it against the erase of a producer thread: when one is about to
\* erase, the insertion into the hash set may be lost.
Insert ==
  /\ Alive /\ inserting # NoAddr
  /\ \/ producer_set' = producer_set \cup {inserting}
     \/ /\ \E t \in Thread : thState[t] = "erase"
        /\ UNCHANGED producer_set
  /\ inserting' = NoAddr
  /\ UNCHANGED <<mainPc, mainRest, mqVars, branch, thVars, histVars,
                 counters>>

-----------------------------------------------------------------------------
(* Producer threads: connect, then producerFilter.FilterLoop().            *)

\* The thread moves on and changes nothing else.
ThreadGoes(t, from, to) ==
  /\ thState[t] = from
  /\ thState' = [thState EXCEPT ![t] = to]
  /\ UNCHANGED <<mainPc, mainRest, mqVars, connVars, thAddr, thMsg, thLast,
                 histVars, counters>>

Connect(t) ==
  /\ thState[t] = "connect"
  /\ thState' = [thState EXCEPT ![t] = "init"]
  /\ thLast' = [thLast EXCEPT ![t] = Empty]
  /\ UNCHANGED <<mainPc, mainRest, mqVars, connVars, thAddr, thMsg, histVars,
                 counters>>

\* connect() fails and the exception handler goes on to erase.
ConnectFails(t) == ThreadGoes(t, "connect", "erase")

\* Mutant: the thread returns before its FilterLoop and without the erase.
MqInitReturns(t) == ThreadGoes(t, "init", "idle")

\* mq_init: the branch's queue, or a new one if that has been removed.
MqInit(t) ==
  /\ thState[t] = "init"
  /\ thState' = [thState EXCEPT ![t] = "get"]
  /\ queues' = queues \cup {ThDest(t)}
  /\ UNCHANGED <<mainPc, mainRest, mq, stale, connVars, thAddr, thMsg, thLast,
                 histVars, counters>>

\* Mutant: msgrcv takes the last message.
GetLast(t) ==
  LET d == ThDest(t) IN
  /\ thState[t] = "get" /\ t \notin stale
  /\ mq[d] # <<>>
  /\ thMsg' = [thMsg EXCEPT ![t] = mq[d][Len(mq[d])]]
  /\ mq' = [mq EXCEPT ![d] = SubSeq(@, 1, Len(@) - 1)]
  /\ thState' = [thState EXCEPT ![t] = "write"]
  /\ UNCHANGED <<mainPc, mainRest, queues, stale, connVars, thAddr, thLast,
                 histVars, counters>>

\* SysvMq::Get: msgrcv takes the first message of the queue.
Get(t) ==
  LET d == ThDest(t) IN
  /\ thState[t] = "get" /\ t \notin stale
  /\ mq[d] # <<>>
  /\ thMsg' = [thMsg EXCEPT ![t] = Head(mq[d])]
  /\ mq' = [mq EXCEPT ![d] = Tail(@)]
  /\ thState' = [thState EXCEPT ![t] = "write"]
  /\ UNCHANGED <<mainPc, mainRest, queues, stale, connVars, thAddr, thLast,
                 histVars, counters>>

\* Mutant: the length is left as it was, so the last message is put back.
GetKeepsBuffer(t) == ThreadGoes(t, "get", "requeue")

\* msgrcv fails, the length becomes 0 and the post filter sees false.
GetReturnsFalse(t) ==
  /\ thState[t] = "get"
  /\ thMsg' = [thMsg EXCEPT ![t] = Empty]
  /\ thState' = [thState EXCEPT ![t] = "requeue"]
  /\ UNCHANGED <<mainPc, mainRest, mqVars, connVars, thAddr, thLast, histVars,
                 counters>>

\* The queue was removed (EIDRM, EINVAL), or a signal came (EINTR).
GetFails(t)       == t \in stale /\ GetReturnsFalse(t)
GetInterrupted(t) == GetReturnsFalse(t) /\ t \notin stale /\ mq[ThDest(t)] = <<>>

\* Mutant: a message that went out is reported as a failure.
WriteReportsFailure(t) ==
  LET d == ThDest(t)  m == thMsg[t] IN
  /\ thState[t] = "write" /\ m # Empty
  /\ thState' = [thState EXCEPT ![t] = "requeue"]
  /\ sent' = [sent EXCEPT ![d] = @ \cup {m}]
  /\ writes' = writes + 1
  /\ thLast' = [thLast EXCEPT ![t] = m]
  /\ UNCHANGED <<mainPc, mainRest, mqVars, connVars, thAddr, thMsg, accepted,
                 lost, requeued, counters>>

\* TCP::Put: both writes succeed.  The kernel also takes the bytes when the
\* peer has gone and its reset has not arrived yet.
Write(t) ==
  LET d == ThDest(t)  m == thMsg[t] IN
  /\ thState[t] = "write" /\ m # Empty
  /\ thState' = [thState EXCEPT ![t] = "post"]
  /\ sent' = [sent EXCEPT ![d] = @ \cup {m}]
  /\ writes' = writes + 1
  /\ thLast' = [thLast EXCEPT ![t] = m]
  /\ UNCHANGED <<mainPc, mainRest, mqVars, connVars, thAddr, thMsg, accepted,
                 lost, requeued, counters>>

\* Mutant: after a failed write the message is not put back.
WriteForgets(t) == thMsg[t] # Empty /\ ThreadGoes(t, "write", "erase")

\* TCP::Put refuses an empty message, and fails when the connection is dead.
WriteRefused(t) == thMsg[t] = Empty /\ ThreadGoes(t, "write", "requeue")
WriteFails(t)   == thMsg[t] # Empty /\ ThreadGoes(t, "write", "requeue")

\* The post filter after a message went out.
Processed(t) ==
  /\ thState[t] = "post"
  /\ thState' = [thState EXCEPT ![t] = "get"]
  /\ pending' = (pending + CounterMod - 1) % CounterMod
  /\ processed' = [processed EXCEPT ![ThDest(t)] = @ + 1]
  /\ UNCHANGED <<mainPc, mainRest, mqVars, connVars, thAddr, thMsg, thLast,
                 histVars>>

\* Mutant: the failure branch falls through to the counting of a success.
RequeueCounts(t) ==
  LET d == ThDest(t)  m == thMsg[t] IN
  /\ thState[t] = "requeue" /\ t \notin stale /\ ~Full(d)
  /\ mq' = [mq EXCEPT ![d] = Append(@, m)]
  /\ requeued' = IF m = Empty THEN requeued ELSE requeued \cup {d}
  /\ thState' = [thState EXCEPT ![t] = "erase"]
  /\ pending' = (pending + CounterMod - 1) % CounterMod
  /\ processed' = [processed EXCEPT ![d] = @ + 1]
  /\ UNCHANGED <<mainPc, mainRest, queues, stale, connVars, thAddr, thMsg,
                 thLast, accepted, sent, writes, lost>>

\* The post filter after a failure: the buffer goes back on the queue, at its
\* end, and FilterLoop ends.
Requeue(t) ==
  LET d == ThDest(t)  m == thMsg[t] IN
  /\ thState[t] = "requeue" /\ t \notin stale /\ ~Full(d)
  /\ mq' = [mq EXCEPT ![d] = Append(@, m)]
  /\ requeued' = IF m = Empty THEN requeued ELSE requeued \cup {d}
  /\ thState' = [thState EXCEPT ![t] = "erase"]
  /\ UNCHANGED <<mainPc, mainRest, queues, stale, connVars, thAddr, thMsg,
                 thLast, accepted, sent, writes, lost, counters>>

\* That Put fails on a removed queue.  On a full one it fails or blocks: the
\* put_flag_ of the thread's SysvMq was never set, so either may happen.
RequeueLost(t) ==
  LET d == ThDest(t)  m == thMsg[t] IN
  /\ thState[t] = "requeue"
  /\ t \in stale \/ Full(d)
  /\ lost' = [lost EXCEPT ![d] = @ \cup ({m} \ {Empty})]
  /\ thState' = [thState EXCEPT ![t] = "erase"]
  /\ UNCHANGED <<mainPc, mainRest, mqVars, connVars, thAddr, thMsg, thLast,
                 accepted, sent, writes, requeued, counters>>

\* producer_set.erase(conn_str), unordered with the Connector's insert and
\* with other threads' erase, and so possibly lost; then the socket closes.
Erase(t) ==
  /\ thState[t] = "erase"
  /\ \/ producer_set' = producer_set \ {thAddr[t]}
     \/ /\ inserting # NoAddr \/ \E u \in Thread \ {t} : thState[u] = "erase"
        /\ UNCHANGED producer_set
  /\ thState' = [thState EXCEPT ![t] = "idle"]
  /\ thAddr' = [thAddr EXCEPT ![t] = NoAddr]
  /\ thMsg' = [thMsg EXCEPT ![t] = Empty]
  /\ thLast' = [thLast EXCEPT ![t] = Empty]
  /\ stale' = stale \ {t}
  /\ UNCHANGED <<mainPc, mainRest, mq, queues, inserting, branch, histVars,
                 counters>>

-----------------------------------------------------------------------------
\* What each thread does of its own accord.
MainRuns ==
  \/ PreFilterReady \/ PostFilter \/ DrainDone \/ Destroy \/ Exit
  \/ \E d \in Dest : TeePut(d) \/ TeePutDrops(d)

ConnectorRuns == Insert \/ \E a \in Addr, t \in Thread : Open(a, t)

ThreadRuns(t) ==
  \/ Connect(t) \/ MqInit(t) \/ Get(t) \/ GetFails(t) \/ Write(t)
  \/ WriteRefused(t) \/ Processed(t) \/ Requeue(t) \/ Erase(t)

\* No failure happens: no blank line, no signal, no connection refused or cut.
\* When input arrives or ends, and when a timeout passes, is still open.
CalmNext ==
  \/ MainRuns \/ ConnectorRuns \/ \E t \in Thread : ThreadRuns(t)
  \/ ReadLine(FALSE) \/ ReadFails \/ PreFilterTimeout \/ DrainTimeout

Next ==
  \/ CalmNext \/ ReadLine(TRUE)
  \/ \E d \in Dest : TeePutFails(d)
  \/ \E t \in Thread : \/ ConnectFails(t) \/ WriteFails(t)
                      \/ GetInterrupted(t) \/ RequeueLost(t)

Spec == Init /\ [][Next]_vars

\* Every thread of the process keeps being scheduled.
Fairness ==
  /\ WF_vars(MainRuns) /\ WF_vars(ConnectorRuns)
  /\ \A t \in Thread : WF_vars(ThreadRuns(t))

CalmSpec == Init /\ [][CalmNext]_vars /\ Fairness

-----------------------------------------------------------------------------
(* Properties.                                                             *)

\* At most one copy of a message exists per destination: it is in the queue
\* once, or in the buffer of one producer thread, or sent, or lost.  The
\* put back of a failed write (connector.hpp:97) is where a copy could be made.
AtMostOnce ==
  \A d \in Dest, m \in Msg :
    /\ AtMostOne(mq[d], m)
    /\ \A t, u \in Thread :
         Holds(t, m) /\ Holds(u, m) /\ ThDest(t) = d /\ ThDest(u) = d => t = u
    /\ Held(d, m) => ~InQueue(d, m)
    /\ m \in sent[d] \cup lost[d] => ~InQueue(d, m) /\ ~Held(d, m)
    /\ m \notin sent[d] \cap lost[d]

\* A message a queue accepted does not disappear: it is queued, held by a
\* producer thread, sent, or lost at one of the places where the code gives
\* up (a put back that fails, the removal of the queues, the exit).
NothingForgotten ==
  \A d \in Dest : \A m \in accepted[d] :
    InQueue(d, m) \/ Held(d, m) \/ m \in sent[d] \cup lost[d]

\* When the main thread, at the end of its input, finds pending_counter at 0
\* and stops waiting, every message any queue accepted has been written.
DrainSound ==
  mainPc = "drain" /\ pending = 0 => \A d \in Dest : accepted[d] \subseteq sent[d]

\* One connection carries messages in the order of the input, as long as no
\* failed write has put a message back at the end of the queue.
OrderOnConnection ==
  \A t \in Thread :
    thState[t] = "write" /\ thMsg[t] # Empty /\ ThDest(t) \notin requeued
      => thMsg[t] > thLast[t]

\* A queue that outlives the process, because a thread ran mq_init after the
\* queues were removed, holds no message a later process could pick up.
LeftoverClean ==
  mainPc = "exited" => \A d \in queues, m \in Msg : ~InQueue(d, m)

\* While run() lasts, total_processed of a destination counts each message
\* that was written once, and no other.
MetricExact ==
  Alive => \A d \in Dest :
    processed[d] + Cardinality({t \in Thread : thState[t] = "post" /\ ThDest(t) = d})
      = Cardinality(sent[d])

\* What the threads count agrees with what they did: pending_counter lets the
\* main thread go only when all is written, total_processed is exact, and no
\* counter leaves its range.
CountersSound == TypeOK /\ DrainSound /\ MetricExact

\* Without failures the main thread is never blocked for good on a full
\* queue, even if messages are not dropped: the producers make room.
MainNeverStuck == mainPc = "tee" ~> mainPc # "tee"

\* Without failures every accepted message is written, unless the wait at the
\* end of the input times out first.
AcceptedIsSent ==
  \A d \in Dest, m \in Msg :
    m \in accepted[d] ~> m \in sent[d] \/ mainPc \in {"report", "destroyed", "exited"}

\* Without failures neither the main thread nor a message is stuck.
NobodyStuck == MainNeverStuck /\ AcceptedIsSent

D == INSTANCE Delivery

\* A publisher implements at-most-once delivery per destination.
DeliversAtMostOnce == D!Spec
=============================================================================
