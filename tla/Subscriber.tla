----------------------------- MODULE Subscriber -----------------------------
(***************************************************************************)
(* One wissbi-sub process (src/sub.cpp): the main thread that keeps the    *)
(* entry in the meta directory alive and accepts connections, a detached   *)
(* receiver thread per connection that moves messages from the socket to   *)
(* the process's queue, the output thread that moves them from the queue   *)
(* to standard output, and the thread that flushes it.  The publishers,    *)
(* TCP, signals and whoever removes entries are the environment.           *)
(***************************************************************************)
EXTENDS Integers, Sequences

CONSTANTS Conn,     \* connections that publishers may open
          MaxMsg,   \* bound on the messages sent on one connection
          QCap      \* messages the System V queue holds before it is full

ASSUME SubscriberAssumption == MaxMsg \in Nat /\ QCap \in Nat \ {0}

Index == 1..MaxMsg
Item  == Conn \X Index      \* the i-th message of connection c

VARIABLES
  pc, run, entry,       \* main thread; the flag; the file in the meta directory
  backlog,              \* connections the kernel made, not accepted yet
  recv, stale,          \* receiver threads; those whose queue was removed
  peer, nsent, nread,   \* the publisher's end; messages sent on and read from
                        \* each connection
  mq,                   \* the queue
  outPc, outMsg,        \* output thread and its msg_buf_
  obuf, broken,         \* obuf[c]: messages of c not flushed yet; standard
                        \* output is broken
  out                   \* out[c]: indices of the messages of c printed

mainVars == <<pc, run, entry>>
netVars  == <<backlog, peer, nsent>>
recvVars == <<recv, stale, nread>>
outVars  == <<outPc, outMsg, obuf, broken, out>>
vars     == <<mainVars, netVars, recvVars, mq, outVars>>

Pc     == {"listen", "entry", "output", "loop", "renew", "poll", "destroy",
           "unlink", "return", "exited", "killed"}
RecvPc == {"none", "backlog", "init", "read", "put",
           "eof",      \* Get found the end of the stream
           "ended"}    \* the connection was given up, or the process ended

Running   == pc \notin {"exited", "killed"}
Listening == Running /\ pc # "listen"
TornDown  == pc \in {"unlink", "return", "exited", "killed"}
Full      == Len(mq) >= QCap

TypeOK ==
  /\ pc \in Pc /\ run \in BOOLEAN /\ entry \in BOOLEAN /\ broken \in BOOLEAN
  /\ backlog \in Seq(Conn) /\ mq \in Seq(Item) /\ obuf \in [Conn -> Seq(Index)]
  /\ recv \in [Conn -> RecvPc] /\ stale \subseteq Conn
  /\ peer \in [Conn -> {"none", "open", "closed", "cut"}]
  /\ nsent \in [Conn -> 0..MaxMsg] /\ nread \in [Conn -> 0..MaxMsg]
  /\ outPc \in {"none", "get", "put", "ended"} /\ outMsg \in Item \cup {<<>>}
  /\ out \in [Conn -> Seq(Index)]

Init ==
  /\ pc = "listen" /\ run = TRUE /\ entry = FALSE /\ broken = FALSE
  /\ backlog = <<>> /\ mq = <<>>
  /\ recv = [c \in Conn |-> "none"] /\ stale = {}
  /\ peer = [c \in Conn |-> "none"]
  /\ nsent = [c \in Conn |-> 0] /\ nread = [c \in Conn |-> 0]
  /\ outPc = "none" /\ outMsg = <<>>
  /\ out = [c \in Conn |-> <<>>] /\ obuf = out

-----------------------------------------------------------------------------
(* Main thread: run_sub.                                                   *)

Listen ==
  /\ pc = "listen" /\ pc' = "entry"
  /\ UNCHANGED <<run, entry, netVars, recvVars, mq, outVars>>

\* The constructor of SubEntry.
CreateEntry ==
  /\ pc = "entry" /\ pc' = "output"
  /\ entry' = TRUE
  /\ UNCHANGED <<run, netVars, recvVars, mq, outVars>>

\* The output writer's queue and thread.
StartOutput ==
  /\ pc = "output" /\ pc' = "loop"
  /\ outPc' = "get"
  /\ UNCHANGED <<run, entry, netVars, recvVars, mq, outMsg, obuf, broken, out>>

\* Mutant: the loop does not look at run.
WhileTrue ==
  /\ pc = "loop" /\ pc' = "renew"
  /\ UNCHANGED <<run, entry, netVars, recvVars, mq, outVars>>

WhileRun ==
  /\ pc = "loop"
  /\ pc' = IF run THEN "renew" ELSE "destroy"
  /\ UNCHANGED <<run, entry, netVars, recvVars, mq, outVars>>

\* Mutant: open without O_CREAT, so a removed entry stays removed.
RenewOnlyTouches ==
  /\ pc = "renew" /\ pc' = "poll"
  /\ UNCHANGED <<run, entry, netVars, recvVars, mq, outVars>>

Renew ==
  /\ pc = "renew" /\ pc' = "poll"
  /\ entry' = TRUE
  /\ UNCHANGED <<run, netVars, recvVars, mq, outVars>>

\* poll returns 0 after heartbeat_millis.
PollTimeout ==
  /\ pc = "poll" /\ backlog = <<>>
  /\ pc' = "loop"
  /\ UNCHANGED <<run, entry, netVars, recvVars, mq, outVars>>

\* poll and accept succeed; a receiver thread is started.
Accept ==
  /\ pc = "poll" /\ backlog # <<>>
  /\ pc' = "loop"
  /\ backlog' = Tail(backlog)
  /\ recv' = [recv EXCEPT ![Head(backlog)] = "init"]
  /\ UNCHANGED <<run, entry, peer, nsent, stale, nread, mq, outVars>>

\* The locals of run_sub go in reverse order: first output_writer, whose
\* destructor removes the queue with what is in it.
Destroy ==
  /\ pc = "destroy" /\ pc' = "unlink"
  /\ mq' = <<>>
  /\ stale' = {c \in Conn : recv[c] \in {"read", "put"}}
  /\ UNCHANGED <<run, entry, netVars, recv, nread, outVars>>

\* Mutant: the destructor of SubEntry does not unlink.
UnlinkForgotten ==
  /\ pc = "unlink" /\ pc' = "return"
  /\ UNCHANGED <<run, entry, netVars, recvVars, mq, outVars>>

\* Then sub_entry.
Unlink ==
  /\ pc = "unlink" /\ pc' = "return"
  /\ entry' = FALSE
  /\ UNCHANGED <<run, netVars, recvVars, mq, outVars>>

\* Mutant: what was flushed stays in the buffer.
FlushTwice ==
  /\ obuf' = obuf
  /\ out' = IF broken THEN out
            ELSE [c \in Conn |-> out[c] \o obuf[c]]

\* Everything in the buffer of standard output reaches it.
FlushBuffer ==
  /\ obuf' = [c \in Conn |-> <<>>]
  /\ out' = IF broken THEN out
            ELSE [c \in Conn |-> out[c] \o obuf[c]]

\* main returns: standard output is flushed and the detached threads end.
Exit ==
  /\ pc = "return" /\ pc' = "exited"
  /\ FlushBuffer
  /\ recv' = [c \in Conn |-> IF recv[c] = "none" THEN "none" ELSE "ended"]
  /\ backlog' = <<>>
  /\ outPc' = "ended" /\ outMsg' = <<>>
  /\ UNCHANGED <<run, entry, peer, nsent, stale, nread, mq, broken>>

-----------------------------------------------------------------------------
(* Receiver thread of connection c: FilterLoop of TCP to SysvMq.           *)

ReceiverGoes(c, from, to) ==
  /\ Running /\ recv[c] = from
  /\ recv' = [recv EXCEPT ![c] = to]
  /\ UNCHANGED <<mainVars, netVars, stale, nread, outVars>>

\* mq_init: the queue of the process, or a new one if that was removed.
MqInit(c) == ReceiverGoes(c, "init", "read") /\ UNCHANGED mq

\* TCP::Get reads a whole message.
ReadMsg(c) ==
  /\ Running /\ recv[c] = "read"
  /\ peer[c] # "cut" /\ nread[c] < nsent[c]
  /\ nread' = [nread EXCEPT ![c] = @ + 1]
  /\ recv' = [recv EXCEPT ![c] = "put"]
  /\ UNCHANGED <<mainVars, netVars, stale, mq, outVars>>

\* TCP::Get fails at the end of the stream; a message that was cut short is
\* dropped.  A reset also drops what had arrived and was not read.
ReadEnds(c) ==
  /\ \/ peer[c] = "cut"
     \/ peer[c] = "closed" /\ nread[c] = nsent[c]
  /\ ReceiverGoes(c, "read", "eof") /\ UNCHANGED mq

\* SysvMq::Put takes the message.
PutMsg(c) ==
  /\ c \notin stale /\ ~Full
  /\ ReceiverGoes(c, "put", "read")
  /\ mq' = Append(mq, <<c, nread[c]>>)

\* Mutant: the loop goes on after a failed Put.
PutFailsGoesOn(c) ==
  /\ c \in stale \/ Full
  /\ ReceiverGoes(c, "put", "read") /\ UNCHANGED mq

\* It fails on a removed queue; on a full one it fails or blocks, for
\* put_flag_ was never set.  FilterLoop ends and the connection is closed.
PutFails(c) ==
  /\ c \in stale \/ Full
  /\ ReceiverGoes(c, "put", "ended") /\ UNCHANGED mq

-----------------------------------------------------------------------------
(* Output thread and the thread of auto_flush.                             *)

OutGet ==
  /\ Running /\ outPc = "get" /\ ~TornDown /\ mq # <<>>
  /\ outMsg' = Head(mq) /\ mq' = Tail(mq)
  /\ outPc' = "put"
  /\ UNCHANGED <<mainVars, netVars, recvVars, obuf, broken, out>>

\* msgrcv fails once the queue is removed.
OutGetFails ==
  /\ Running /\ outPc = "get" /\ TornDown
  /\ outPc' = "ended"
  /\ UNCHANGED <<mainVars, netVars, recvVars, mq, outMsg, obuf, broken, out>>

Buffered == \E c \in Conn : obuf[c] # <<>>

\* The buffer with one more line.
Insert(x) == [obuf EXCEPT ![x[1]] = Append(@, x[2])]

\* Mutant: FilterLoop of the output thread ends after one message.
OutPutOnce ==
  /\ Running /\ outPc = "put"
  /\ obuf' = IF broken THEN obuf ELSE Insert(outMsg)
  /\ outMsg' = <<>>
  /\ outPc' = "ended"
  /\ UNCHANGED <<mainVars, netVars, recvVars, mq, broken, out>>

\* Line::Put returns true whether or not the stream is broken.
OutPut ==
  /\ Running /\ outPc = "put"
  /\ obuf' = IF broken THEN obuf ELSE Insert(outMsg)
  /\ outMsg' = <<>>
  /\ outPc' = "get"
  /\ UNCHANGED <<mainVars, netVars, recvVars, mq, broken, out>>

Flush ==
  /\ Running /\ Buffered
  /\ FlushBuffer
  /\ UNCHANGED <<mainVars, netVars, recvVars, mq, outPc, outMsg, broken>>

\* The reader of standard output has gone: SIGPIPE comes to the flushing
\* thread, so run becomes false and nobody wakes the main thread.
FlushFails ==
  /\ Running /\ Buffered
  /\ broken' = TRUE /\ obuf' = [c \in Conn |-> <<>>]
  /\ run' = FALSE
  /\ UNCHANGED <<pc, entry, netVars, recvVars, mq, outPc, outMsg, out>>

-----------------------------------------------------------------------------
(* Environment.                                                            *)

\* SIGINT or SIGTERM, taken by the main thread: poll fails with EINTR.  A
\* signal between the test of run and poll does not keep poll from waiting.
Signal ==
  /\ Running /\ run' = FALSE
  /\ pc' = IF pc = "poll" THEN "loop" ELSE pc
  /\ UNCHANGED <<entry, netVars, recvVars, mq, outVars>>

\* The same signal taken by the output thread while it waits in msgrcv.
SignalOutput ==
  /\ Running /\ outPc = "get" /\ (TornDown \/ mq = <<>>)
  /\ run' = FALSE
  /\ outPc' = "ended"
  /\ UNCHANGED <<pc, entry, netVars, recvVars, mq, outMsg, obuf, broken, out>>

\* SIGKILL, or an exception nobody catches (renew_, mq_init).
Kill ==
  /\ Running /\ pc' = "killed"
  /\ UNCHANGED <<run, entry, netVars, recvVars, mq, outVars>>

\* A publisher that found the entry connects, sends, and closes; or the
\* connection is cut.
Dial(c) ==
  /\ Listening /\ recv[c] = "none"
  /\ peer' = [peer EXCEPT ![c] = "open"]
  /\ recv' = [recv EXCEPT ![c] = "backlog"]
  /\ backlog' = Append(backlog, c)
  /\ UNCHANGED <<mainVars, nsent, stale, nread, mq, outVars>>

Send(c) ==
  /\ peer[c] = "open" /\ nsent[c] < MaxMsg
  /\ nsent' = [nsent EXCEPT ![c] = @ + 1]
  /\ UNCHANGED <<mainVars, backlog, peer, recvVars, mq, outVars>>

Hangup(c, how) ==
  /\ peer[c] = "open"
  /\ peer' = [peer EXCEPT ![c] = how]
  /\ UNCHANGED <<mainVars, backlog, nsent, recvVars, mq, outVars>>

\* wsbmetad, or a user, removes the entry.
RemoveEntry ==
  /\ entry /\ entry' = FALSE
  /\ UNCHANGED <<pc, run, netVars, recvVars, mq, outVars>>

-----------------------------------------------------------------------------
MainRuns ==
  \/ Listen \/ CreateEntry \/ StartOutput \/ WhileRun \/ Renew \/ PollTimeout
  \/ Accept \/ Destroy \/ Unlink \/ Exit

ReceiverRuns(c) == MqInit(c) \/ ReadMsg(c) \/ ReadEnds(c)

OutputRuns == OutGet \/ OutGetFails \/ OutPut

Environment ==
  \/ Signal \/ SignalOutput \/ Kill \/ RemoveEntry \/ FlushFails
  \/ \E c \in Conn : \/ Dial(c) \/ Send(c)
                     \/ Hangup(c, "closed") \/ Hangup(c, "cut")

Next ==
  \/ MainRuns \/ OutputRuns \/ Flush \/ Environment
  \/ \E c \in Conn : ReceiverRuns(c) \/ PutMsg(c) \/ PutFails(c)

Spec == Init /\ [][Next]_vars

\* Every thread keeps being scheduled.  The kernel wakes blocked senders in
\* the order they came, so a receiver that waits for room gets it: PutMsg is
\* strongly fair.
Fairness ==
  /\ WF_vars(MainRuns) /\ WF_vars(OutputRuns) /\ WF_vars(Flush)
  /\ \A c \in Conn : WF_vars(ReceiverRuns(c)) /\ SF_vars(PutMsg(c))

FairSpec == Spec /\ Fairness

-----------------------------------------------------------------------------
(* Properties.                                                             *)

\* The message is between the socket and standard output.
Underway(x) ==
  \/ recv[x[1]] = "put" /\ nread[x[1]] = x[2]
  \/ \E i \in 1..Len(mq) : mq[i] = x
  \/ outMsg = x
  \/ \E i \in 1..Len(obuf[x[1]]) : obuf[x[1]][i] = x[2]

\* As long as the queue has not been removed, standard output works and the
\* process lives, a message that was read is printed or on its way to be
\* printed; only the last one of a connection that was given up, because the
\* queue was full (sysv_mq.hpp:84), is missing.  The variables keep their
\* types.
NothingSkipped ==
  TypeOK /\ (~TornDown /\ ~broken =>
    \A c \in Conn : \A i \in 1..nread[c] :
      \/ Underway(<<c, i>>) \/ \E k \in 1..Len(out[c]) : out[c][k] = i
      \/ recv[c] = "ended" /\ i = nread[c])

\* While the entry stands a publisher can connect, unless the process was
\* killed: listen comes before SubEntry, and ~SubEntry before the exit.
EntryReachable == entry => Listening \/ pc = "killed"

\* SIGINT, SIGTERM or SIGPIPE ends the process, whatever the threads do.
SignalEnds == ~run ~> ~Running

\* An entry that was removed is made again (renew_sub_entry.sh).
EntryRestored == ~entry /\ run /\ Running ~> entry \/ ~run \/ ~Running

\* A message that was sent is printed, also when its publisher has closed the
\* connection since, unless the process is told to stop or dies, or the
\* connection is cut or given up because of a full queue (PutFails).
SentIsPrinted ==
  \A c \in Conn, i \in Index :
    nsent[c] >= i ~> \/ Len(out[c]) >= i \/ ~run \/ ~Running
                     \/ peer[c] = "cut" \/ recv[c] = "ended"

S == INSTANCE Stream WITH
       Item <- Index,
       stream <- [c \in Conn |-> [i \in 1..nsent[c] |-> i]],
       delivered <- out

\* What is printed of a connection is a prefix of what was sent on it.
PrintsPrefix == S!Spec
=============================================================================
