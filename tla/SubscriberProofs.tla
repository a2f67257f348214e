-------------------------- MODULE SubscriberProofs --------------------------
(***************************************************************************)
(* Proofs about Subscriber, for any number of connections and messages and *)
(* any capacity of the queue, and about IosBase, the arrays of the streams *)
(* it reads and prints with, for any number of streams, words and calls.   *)
(***************************************************************************)
EXTENDS Subscriber, IosBase, TLAPS

\* The time the provers may take at a step that names none of them.
USE SMTT(30), ZenonT(30)

-----------------------------------------------------------------------------
(* The inductive invariant.                                                *)

\* How far connection c has got at the output end of the queue: printed,
\* buffered, or with the output thread.
Written(c) == Len(out[c]) + Len(obuf[c])
Taken(c)   == Written(c) + (IF outMsg # <<>> /\ outMsg[1] = c THEN 1 ELSE 0)

\* Entry and main thread: the entry is not there before listen and not after
\* ~SubEntry.
EntryInv == entry => pc \notin {"listen", "return", "exited"}

\* A connection waits once to be accepted, and its thread begins after that.
BacklogInv ==
  /\ \A p \in 1..Len(backlog) : recv[backlog[p]] = "backlog"
  /\ \A p, q \in 1..Len(backlog) : backlog[p] = backlog[q] => p = q

\* A receiver thread reads what was sent, and has something to put.
ReadInv ==
  \A c \in Conn : nread[c] <= nsent[c] /\ (recv[c] = "put" => nread[c] > 0)

\* The output thread has a message exactly when it is about to put it, and
\* starts when there is an entry.
OutputInv ==
  /\ outMsg # <<>> <=> outPc = "put"
  /\ pc \in {"listen", "entry", "output"} => outPc = "none"

\* Printed and buffered lines of a connection are its messages in order, and
\* the message of the output thread is the next, until standard output breaks
\* and one is dropped.
LinesInv ==
  \A c \in Conn :
    /\ \A i \in 1..Len(out[c]) : out[c][i] = i
    /\ \A i \in 1..Len(obuf[c]) : obuf[c][i] = Len(out[c]) + i
    /\ Written(c) <= nread[c]
    /\ ~broken => /\ outMsg # <<>> /\ outMsg[1] = c => outMsg[2] = Written(c) + 1
                  /\ Taken(c) <= nread[c]
    /\ broken => obuf[c] = <<>>

\* The queue holds, in order, what was read of a connection and not taken
\* yet; the last message read may still be with the receiver thread, or have
\* been given up with the connection.
QueueInv ==
  ~TornDown /\ ~broken =>
    /\ \A c \in Conn : \A p \in 1..Len(mq) : mq[p][1] = c =>
         Taken(c) < mq[p][2] /\ mq[p][2] <= nread[c] /\ (recv[c] = "put" => mq[p][2] < nread[c])
    /\ \A p, q \in 1..Len(mq) : p < q /\ mq[p][1] = mq[q][1] => mq[p][2] < mq[q][2]
    /\ \A c \in Conn : recv[c] = "put" => Taken(c) < nread[c]
    /\ \A c \in Conn : \A i \in 1..nread[c] : i > Taken(c) =>
         \/ \E p \in 1..Len(mq) : mq[p] = <<c, i>>
         \/ recv[c] \in {"put", "ended"} /\ i = nread[c]

IInv == TypeOK /\ EntryInv /\ BacklogInv /\ ReadInv /\ OutputInv /\ LinesInv /\ QueueInv

-----------------------------------------------------------------------------
(* Types.                                                                  *)

\* The types, in two parts that the provers take separately.
MainType ==
  /\ pc \in Pc /\ run \in BOOLEAN /\ entry \in BOOLEAN /\ broken \in BOOLEAN
  /\ outPc \in {"none", "get", "put", "ended"} /\ stale \subseteq Conn
  /\ recv \in [Conn -> RecvPc] /\ peer \in [Conn -> {"none", "open", "closed", "cut"}]
  /\ nsent \in [Conn -> 0..MaxMsg] /\ nread \in [Conn -> 0..MaxMsg]

LineType ==
  /\ backlog \in Seq(Conn) /\ mq \in Seq(Item) /\ outMsg \in Item \cup {<<>>}
  /\ obuf \in [Conn -> Seq(Index)] /\ out \in [Conn -> Seq(Index)]

\* The two parts make the type invariant.
LEMMA TypeSplit == TypeOK <=> MainType /\ LineType
BY Zenon DEF TypeOK, MainType, LineType

\* All variables have their types at the start.
LEMMA InitInv == Init => IInv
<1> SUFFICES ASSUME Init PROVE IInv
  BY Zenon
<1>1. TypeOK
  <2>1. MainType
    <3>1. nsent \in [Conn -> 0..MaxMsg] /\ nread \in [Conn -> 0..MaxMsg]
      BY SubscriberAssumption DEF Init
    <3>2. recv \in [Conn -> RecvPc] /\ peer \in [Conn -> {"none", "open", "closed", "cut"}]
      BY Zenon DEF Init, RecvPc
    <3>3. run \in BOOLEAN /\ entry \in BOOLEAN /\ broken \in BOOLEAN
      BY Zenon DEF Init
    <3> QED BY Zenon, <3>1, <3>2, <3>3 DEF Init, MainType, Pc
  <2>2. LineType
    BY DEF Init, LineType
  <2> QED BY Zenon, <2>1, <2>2, TypeSplit
<1>2. \A c \in Conn : out[c] = <<>> /\ obuf[c] = <<>> /\ nread[c] = 0 /\ nsent[c] = 0 /\ recv[c] = "none"
  BY Zenon DEF Init
<1>3. mq = <<>> /\ backlog = <<>> /\ outMsg = <<>> /\ outPc = "none" /\ ~entry /\ ~broken
  BY Zenon DEF Init
<1>4. EntryInv /\ BacklogInv /\ OutputInv /\ ReadInv
  BY <1>2, <1>3 DEF EntryInv, BacklogInv, OutputInv, ReadInv
<1>5. \A c \in Conn : Written(c) = 0 /\ Taken(c) = 0 /\ Len(out[c]) = 0 /\ Len(obuf[c]) = 0
  <2> TAKE c \in Conn
  <2>1. Len(out[c]) = 0 /\ Len(obuf[c]) = 0
    BY <1>2
  <2>2. Written(c) = 0
    BY <2>1 DEF Written
  <2>3. Taken(c) = 0
    BY <2>2, <1>3 DEF Taken
  <2> QED BY Zenon, <2>1, <2>2, <2>3
<1>6. LinesInv
  <2> SUFFICES ASSUME NEW c \in Conn
               PROVE  /\ \A i \in 1..Len(out[c]) : out[c][i] = i
                      /\ \A i \in 1..Len(obuf[c]) : obuf[c][i] = Len(out[c]) + i
                      /\ Written(c) <= nread[c] /\ Taken(c) <= nread[c]
    BY Zenon, <1>3 DEF LinesInv
  <2>1. Len(out[c]) = 0 /\ Len(obuf[c]) = 0 /\ Written(c) = 0 /\ Taken(c) = 0 /\ nread[c] = 0
    BY Zenon, <1>2, <1>5
  <2> QED BY <2>1
<1>7. QueueInv
  BY <1>2, <1>3, <1>5 DEF QueueInv
<1> QED BY Zenon, <1>1, <1>4, <1>6, <1>7 DEF IInv

\* Every step keeps the types.
LEMMA MainTypeStep == ASSUME IInv, Next PROVE MainType'
<1> USE SubscriberAssumption DEF MainType, Pc, RecvPc, mainVars, netVars, recvVars, outVars
<1>0. MainType /\ backlog \in Seq(Conn)
  BY Zenon, TypeSplit DEF IInv, LineType
<1>1. CASE Listen \/ CreateEntry \/ StartOutput \/ WhileRun \/ Renew \/ PollTimeout
  BY ZenonT(30), <1>0, <1>1 DEF Listen, CreateEntry, StartOutput, WhileRun, Renew, PollTimeout
<1>2. CASE Accept
  BY Zenon, <1>0, <1>2 DEF Accept
<1>3. CASE Destroy \/ Unlink \/ Exit
  BY Zenon, <1>0, <1>3 DEF Destroy, Unlink, Exit, FlushBuffer
<1>4. CASE OutputRuns \/ Flush
  BY ZenonT(30), <1>0, <1>4 DEF OutputRuns, OutGet, OutGetFails, OutPut, Flush, FlushBuffer
<1>5. CASE Signal \/ SignalOutput \/ Kill \/ RemoveEntry \/ FlushFails
  BY ZenonT(30), <1>0, <1>5 DEF Signal, SignalOutput, Kill, RemoveEntry, FlushFails
<1>6. ASSUME NEW c \in Conn, Dial(c) \/ Hangup(c, "closed") \/ Hangup(c, "cut")
      PROVE  MainType'
  BY ZenonT(30), <1>0, <1>6 DEF Dial, Hangup
<1>9. ASSUME NEW c \in Conn, Send(c) PROVE MainType'
  BY <1>0, <1>9 DEF Send
<1>7. ASSUME NEW c \in Conn, ReadMsg(c) PROVE MainType'
  BY <1>0, <1>7 DEF ReadMsg, IInv, ReadInv
<1>8. ASSUME NEW c \in Conn, MqInit(c) \/ ReadEnds(c) \/ PutMsg(c) \/ PutFails(c) PROVE MainType'
  BY ZenonT(30), <1>0, <1>8 DEF MqInit, ReadEnds, PutMsg, PutFails, ReceiverGoes
<1> QED
  BY Zenon, <1>1, <1>2, <1>3, <1>4, <1>5, <1>6, <1>7, <1>8, <1>9
  DEF Next, MainRuns, Environment, ReceiverRuns

\* Every step keeps the types of the connections and of the lines.
LEMMA LineTypeStep == ASSUME IInv, Next PROVE LineType'
<1> USE DEF LineType, mainVars, netVars, recvVars, outVars
<1>0. LineType /\ MainType
  BY Zenon, TypeSplit DEF IInv
<1>1. CASE \/ Listen \/ CreateEntry \/ StartOutput \/ WhileRun \/ Renew \/ PollTimeout \/ Unlink
           \/ OutGetFails \/ Signal \/ SignalOutput \/ Kill \/ RemoveEntry
  BY Zenon, <1>0, <1>1 DEF Listen, CreateEntry, StartOutput, WhileRun, Renew, PollTimeout, Unlink,
                    OutGetFails, Signal, SignalOutput, Kill, RemoveEntry
<1>2. CASE Accept
  BY <1>0, <1>2 DEF Accept
<1>3. CASE Destroy
  BY <1>0, <1>3 DEF Destroy
<1>4. ASSUME FlushBuffer
      PROVE  obuf' \in [Conn -> Seq(Index)] /\ out' \in [Conn -> Seq(Index)]
  BY <1>0, <1>4 DEF FlushBuffer
<1>5. CASE Exit
  BY <1>0, <1>4, <1>5 DEF Exit
<1>6. CASE Flush
  BY Zenon, <1>0, <1>4, <1>6 DEF Flush
<1>7. CASE FlushFails
  BY <1>0, <1>7 DEF FlushFails
<1>8. CASE OutGet
  BY <1>0, <1>8 DEF OutGet
<1>9. CASE OutPut
  <2>1. outMsg \in Conn \X Index
    BY Zenon, <1>0, <1>9 DEF OutPut, IInv, OutputInv, Item
  <2>2. Insert(outMsg) \in [Conn -> Seq(Index)]
    BY <1>0, <2>1 DEF Insert
  <2> QED BY Zenon, <1>0, <1>9, <2>2 DEF OutPut
<1>10. ASSUME NEW c \in Conn, \/ Send(c) \/ Hangup(c, "closed") \/ Hangup(c, "cut") \/ MqInit(c)
                              \/ ReadMsg(c) \/ ReadEnds(c) \/ PutFails(c)
       PROVE  LineType'
  BY Zenon, <1>0, <1>10 DEF Send, Hangup, MqInit, ReadMsg, ReadEnds, PutFails, ReceiverGoes
<1>11. ASSUME NEW c \in Conn, Dial(c) PROVE LineType'
  BY <1>0, <1>11 DEF Dial
<1>12. ASSUME NEW c \in Conn, PutMsg(c) PROVE LineType'
  <2>1. <<c, nread[c]>> \in Item
    BY <1>0, <1>12, SubscriberAssumption DEF PutMsg, ReceiverGoes, IInv, ReadInv, MainType, Item, Index
  <2> QED BY <1>0, <1>12, <2>1 DEF PutMsg, ReceiverGoes
<1> QED
  BY Zenon, <1>1, <1>2, <1>3, <1>5, <1>6, <1>7, <1>8, <1>9, <1>10, <1>11, <1>12
  DEF Next, MainRuns, OutputRuns, Environment, ReceiverRuns

-----------------------------------------------------------------------------
(* Entry, backlog, receivers and output thread.                            *)

\* The entry is made and removed where EntryInv says.
LEMMA EntryStep == ASSUME IInv, Next PROVE EntryInv'
<1> USE DEF mainVars, EntryInv
<1>0. EntryInv /\ pc \in Pc
  BY Zenon DEF IInv, TypeOK
<1>1. CASE MainRuns
  BY Zenon, <1>0, <1>1 DEF MainRuns, Listen, CreateEntry, StartOutput, WhileRun, Renew, PollTimeout,
                    Accept, Destroy, Unlink, Exit
<1>2. CASE OutputRuns \/ Flush
  BY Zenon, <1>0, <1>2 DEF OutputRuns, OutGet, OutGetFails, OutPut, Flush
<1>3. CASE Signal \/ SignalOutput \/ Kill \/ RemoveEntry \/ FlushFails
  BY Zenon, <1>0, <1>3 DEF Signal, SignalOutput, Kill, RemoveEntry, FlushFails
<1>4. ASSUME NEW c \in Conn, Dial(c) \/ Send(c) \/ Hangup(c, "closed") \/ Hangup(c, "cut")
      PROVE  EntryInv'
  BY Zenon, <1>0, <1>4 DEF Dial, Send, Hangup
<1>5. ASSUME NEW c \in Conn, ReceiverRuns(c) \/ PutMsg(c) \/ PutFails(c) PROVE EntryInv'
  BY Zenon, <1>0, <1>5 DEF ReceiverRuns, MqInit, ReadMsg, ReadEnds, PutMsg, PutFails, ReceiverGoes
<1> QED BY Zenon, <1>1, <1>2, <1>3, <1>4, <1>5 DEF Next, Environment

\* accept() takes a connection from the backlog, and connect adds a new one.
LEMMA BacklogStep == ASSUME IInv, Next PROVE BacklogInv'
<1> USE DEF netVars, recvVars
<1>0. backlog \in Seq(Conn) /\ recv \in [Conn -> RecvPc] /\ BacklogInv
  BY Zenon DEF IInv, TypeOK
<1>1. CASE UNCHANGED <<backlog, recv>>
  BY Zenon, <1>0, <1>1 DEF BacklogInv
<1>2. CASE Accept
  <2>1. /\ Len(backlog) \in Nat /\ Len(backlog) > 0 /\ Head(backlog) = backlog[1]
        /\ Len(Tail(backlog)) = Len(backlog) - 1
        /\ \A p \in 1..Len(Tail(backlog)) : Tail(backlog)[p] = backlog[p + 1] /\ p + 1 \in 1..Len(backlog)
    BY <1>0, <1>2 DEF Accept
  <2>2. \A p \in 1..Len(backlog) : backlog[p] \in Conn /\ (p # 1 => backlog[p] # backlog[1])
    BY <1>0, <2>1 DEF BacklogInv
  <2>3. \A c \in Conn : c # backlog[1] => recv'[c] = recv[c]
    BY Zenon, <1>0, <1>2, <2>1, <2>2 DEF Accept
  <2>4. \A p \in 1..Len(backlog') : backlog'[p] = backlog[p + 1] /\ p + 1 \in 1..Len(backlog) /\ p + 1 # 1
    BY <1>2, <2>1 DEF Accept
  <2>5. \A p \in 1..Len(backlog') : recv'[backlog'[p]] = "backlog"
    BY <1>0, <2>2, <2>3, <2>4 DEF BacklogInv
  <2>6. \A p, q \in 1..Len(backlog') : backlog'[p] = backlog'[q] => p = q
    <3> SUFFICES ASSUME NEW p \in 1..Len(backlog'), NEW q \in 1..Len(backlog'), backlog'[p] = backlog'[q]
                 PROVE  p = q
      BY Zenon
    <3>1. p + 1 = q + 1
      BY <1>0, <2>4 DEF BacklogInv
    <3> QED BY <3>1
  <2> QED BY Zenon, <2>5, <2>6 DEF BacklogInv
<1>3. CASE Exit
  BY <1>3 DEF Exit, BacklogInv
<1>4. ASSUME NEW c \in Conn, Dial(c) PROVE BacklogInv'
  <2>1. /\ Len(backlog) \in Nat /\ Len(backlog') = Len(backlog) + 1
        /\ \A p \in 1..Len(backlog) : backlog'[p] = backlog[p] /\ backlog[p] \in Conn
        /\ backlog'[Len(backlog) + 1] = c
    BY <1>0, <1>4 DEF Dial
  <2>2. \A p \in 1..Len(backlog') : p \in 1..Len(backlog) \/ p = Len(backlog) + 1
    BY <2>1
  <2>3. \A p \in 1..Len(backlog) : backlog[p] # c
    BY Zenon, <1>0, <1>4 DEF Dial, BacklogInv
  <2>4. recv'[c] = "backlog" /\ \A e \in Conn : e # c => recv'[e] = recv[e]
    BY Zenon, <1>0, <1>4 DEF Dial
  <2> QED BY <1>0, <2>1, <2>2, <2>3, <2>4 DEF BacklogInv
<1>5. ASSUME NEW c \in Conn, UNCHANGED backlog, \A e \in Conn : e # c => recv'[e] = recv[e],
             recv[c] # "backlog"
      PROVE  BacklogInv'
  BY <1>0, <1>5 DEF BacklogInv
<1>6. ASSUME NEW c \in Conn, ReceiverRuns(c) \/ PutMsg(c) \/ PutFails(c) PROVE BacklogInv'
  <2>1. /\ UNCHANGED backlog /\ recv[c] # "backlog"
        /\ \A e \in Conn : e # c => recv'[e] = recv[e]
    BY Zenon, <1>0, <1>6 DEF ReceiverRuns, MqInit, ReadMsg, ReadEnds, PutMsg, PutFails, ReceiverGoes
  <2> QED BY Zenon, <2>1, <1>5
<1>7. CASE \/ Listen \/ CreateEntry \/ StartOutput \/ WhileRun \/ Renew \/ PollTimeout \/ Destroy
           \/ Unlink \/ OutputRuns \/ Flush
  <2>1. UNCHANGED <<backlog, recv>>
    BY Zenon, <1>7 DEF Listen, CreateEntry, StartOutput, WhileRun, Renew, PollTimeout, Destroy, Unlink,
                OutputRuns, OutGet, OutGetFails, OutPut, Flush
  <2> QED BY Zenon, <2>1, <1>1
<1>8. CASE Signal \/ SignalOutput \/ Kill \/ RemoveEntry \/ FlushFails
  <2>1. UNCHANGED <<backlog, recv>>
    BY Zenon, <1>8 DEF Signal, SignalOutput, Kill, RemoveEntry, FlushFails
  <2> QED BY Zenon, <2>1, <1>1
<1>9. ASSUME NEW c \in Conn, Send(c) \/ Hangup(c, "closed") \/ Hangup(c, "cut") PROVE BacklogInv'
  <2>1. UNCHANGED <<backlog, recv>>
    BY Zenon, <1>9 DEF Send, Hangup
  <2> QED BY Zenon, <2>1, <1>1
<1> QED
  BY Zenon, <1>2, <1>3, <1>4, <1>6, <1>7, <1>8, <1>9 DEF Next, MainRuns, Environment

\* A receiver thread reads no more than was sent.
LEMMA ReadStep == ASSUME IInv, Next PROVE ReadInv'
<1> USE DEF netVars, recvVars, ReadInv
<1>0. /\ ReadInv /\ recv \in [Conn -> RecvPc] /\ backlog \in Seq(Conn)
      /\ nread \in [Conn -> 0..MaxMsg] /\ nsent \in [Conn -> 0..MaxMsg]
  BY Zenon DEF IInv, TypeOK
<1>1. CASE \/ Listen \/ CreateEntry \/ StartOutput \/ WhileRun \/ Renew \/ PollTimeout \/ Destroy
           \/ Unlink \/ OutputRuns \/ Flush
  BY Zenon, <1>0, <1>1 DEF Listen, CreateEntry, StartOutput, WhileRun, Renew, PollTimeout, Destroy, Unlink,
                    OutputRuns, OutGet, OutGetFails, OutPut, Flush
<1>2. CASE Accept
  BY Zenon, <1>0, <1>2 DEF Accept
<1>3. CASE Exit
  BY Zenon, <1>0, <1>3 DEF Exit
<1>4. CASE Signal \/ SignalOutput \/ Kill \/ RemoveEntry \/ FlushFails
  BY Zenon, <1>0, <1>4 DEF Signal, SignalOutput, Kill, RemoveEntry, FlushFails
<1>5. ASSUME NEW c \in Conn, Send(c) PROVE ReadInv'
  BY <1>0, <1>5, SubscriberAssumption DEF Send
<1>6. ASSUME NEW c \in Conn, Dial(c) \/ Hangup(c, "closed") \/ Hangup(c, "cut") PROVE ReadInv'
  BY Zenon, <1>0, <1>6 DEF Dial, Hangup
<1>7. ASSUME NEW c \in Conn, ReadMsg(c) PROVE ReadInv'
  BY <1>0, <1>7, SubscriberAssumption DEF ReadMsg
<1>8. ASSUME NEW c \in Conn, MqInit(c) \/ ReadEnds(c) \/ PutMsg(c) \/ PutFails(c) PROVE ReadInv'
  BY Zenon, <1>0, <1>8 DEF MqInit, ReadEnds, PutMsg, PutFails, ReceiverGoes
<1> QED
  BY Zenon, <1>1, <1>2, <1>3, <1>4, <1>5, <1>6, <1>7, <1>8
  DEF Next, MainRuns, Environment, ReceiverRuns

\* The output thread has a message from Get to Put.
LEMMA OutputStep == ASSUME IInv, Next PROVE OutputInv'
<1> USE DEF mainVars, outVars, OutputInv
<1>0. OutputInv /\ mq \in Seq(Item) /\ pc \in Pc
  BY Zenon DEF IInv, TypeOK
<1>1. CASE \/ Listen \/ CreateEntry \/ WhileRun \/ Renew \/ PollTimeout \/ Accept \/ Destroy
           \/ Unlink \/ Exit
  BY Zenon, <1>0, <1>1 DEF Listen, CreateEntry, WhileRun, Renew, PollTimeout, Accept, Destroy, Unlink, Exit
<1>2. CASE StartOutput
  BY Zenon, <1>0, <1>2 DEF StartOutput
<1>3. CASE OutGet
  <2>1. Head(mq) \in Conn \X Index
    BY <1>0, <1>3 DEF OutGet, Item
  <2>2. Head(mq) # <<>>
    BY <2>1
  <2>3. outMsg' = Head(mq) /\ outPc' = "put" /\ outPc = "get" /\ pc' = pc
    BY Zenon, <1>3 DEF OutGet
  <2> QED BY Zenon, <1>0, <2>2, <2>3
<1>4. CASE OutGetFails \/ OutPut \/ Flush
  BY Zenon, <1>0, <1>4 DEF OutGetFails, OutPut, Flush
<1>5. CASE Signal \/ SignalOutput \/ Kill \/ RemoveEntry \/ FlushFails
  BY Zenon, <1>0, <1>5 DEF Signal, SignalOutput, Kill, RemoveEntry, FlushFails
<1>6. ASSUME NEW c \in Conn, Dial(c) \/ Send(c) \/ Hangup(c, "closed") \/ Hangup(c, "cut")
      PROVE  OutputInv'
  BY Zenon, <1>0, <1>6 DEF Dial, Send, Hangup
<1>7. ASSUME NEW c \in Conn, ReceiverRuns(c) \/ PutMsg(c) \/ PutFails(c) PROVE OutputInv'
  BY Zenon, <1>0, <1>7 DEF ReceiverRuns, MqInit, ReadMsg, ReadEnds, PutMsg, PutFails, ReceiverGoes
<1> QED
  BY Zenon, <1>1, <1>2, <1>3, <1>4, <1>5, <1>6, <1>7 DEF Next, MainRuns, OutputRuns, Environment

-----------------------------------------------------------------------------
(* Lines: what is printed, buffered and taken.                             *)

\* The lengths are numbers, and a message is a connection and an index.
LEMMA Numbers ==
  ASSUME TypeOK
  PROVE  /\ \A c \in Conn : /\ Len(out[c]) \in Nat /\ Len(obuf[c]) \in Nat
                            /\ Written(c) \in Nat /\ Taken(c) \in Nat /\ nread[c] \in Nat
         /\ Len(mq) \in Nat
         /\ \A p \in 1..Len(mq) : /\ mq[p] \in Item /\ mq[p][1] \in Conn /\ mq[p][2] \in Nat
                                 /\ mq[p] = <<mq[p][1], mq[p][2]>>
         /\ outMsg # <<>> => /\ outMsg \in Item /\ outMsg[1] \in Conn /\ outMsg[2] \in Nat
                             /\ outMsg = <<outMsg[1], outMsg[2]>>
<1>1. \A c \in Conn : Len(out[c]) \in Nat /\ Len(obuf[c]) \in Nat /\ nread[c] \in Nat
  BY SubscriberAssumption DEF TypeOK
<1>2. \A c \in Conn : Written(c) \in Nat
  BY DEF TypeOK, Written
<1>5. ASSUME NEW c \in Conn PROVE Taken(c) \in Nat
  BY <1>2 DEF Taken
<1>3. \A x \in Item : x[1] \in Conn /\ x[2] \in Nat /\ x = <<x[1], x[2]>>
  BY SubscriberAssumption DEF Item, Index
<1>4. Len(mq) \in Nat /\ \A p \in 1..Len(mq) : mq[p] \in Item
  BY DEF TypeOK
<1> QED BY Zenon, <1>1, <1>2, <1>3, <1>4, <1>5 DEF TypeOK

\* Nothing happens at the output end.
LEMMA LinesFrame ==
  ASSUME IInv, UNCHANGED <<out, obuf, outMsg, broken>>,
         \A c \in Conn : nread'[c] \in Nat /\ nread[c] <= nread'[c]
  PROVE  LinesInv'
<1>1. \A c \in Conn : Written(c)' = Written(c) /\ Taken(c)' = Taken(c)
  BY Zenon DEF Written, Taken
<1> QED BY <1>1, Numbers DEF IInv, LinesInv

\* The buffer is flushed.
LEMMA LinesFlush ==
  ASSUME IInv, FlushBuffer, UNCHANGED <<broken, nread>>, outMsg' \in {outMsg, <<>>}
  PROVE  LinesInv' /\ \A c \in Conn : Written(c)' = Written(c)
<1> SUFFICES ASSUME NEW c \in Conn
             PROVE  /\ \A i \in 1..Len(out'[c]) : out'[c][i] = i
                    /\ \A i \in 1..Len(obuf'[c]) : obuf'[c][i] = Len(out'[c]) + i
                    /\ Written(c)' <= nread'[c]
                    /\ ~broken' => /\ outMsg' # <<>> /\ outMsg'[1] = c => outMsg'[2] = Written(c)' + 1
                                   /\ Taken(c)' <= nread'[c]
                    /\ broken' => obuf'[c] = <<>>
                    /\ Written(c)' = Written(c)
  BY Zenon DEF LinesInv
<1>0. out \in [Conn -> Seq(Index)] /\ obuf \in [Conn -> Seq(Index)] /\ LinesInv
  BY Zenon DEF IInv, TypeOK
<1>1. obuf'[c] = <<>> /\ Len(obuf'[c]) = 0
  BY Zenon DEF FlushBuffer
<1>2. CASE broken
  <2>1. out'[c] = out[c] /\ obuf[c] = <<>>
    BY Zenon, <1>0, <1>2 DEF FlushBuffer, LinesInv
  <2> QED BY <1>0, <1>1, <1>2, <2>1 DEF LinesInv, Written
<1>3. CASE ~broken
  <2>1. out'[c] = out[c] \o obuf[c]
    BY Zenon, <1>3 DEF FlushBuffer
  <2>2. Len(out'[c]) = Len(out[c]) + Len(obuf[c])
    BY <1>0, <2>1
  <2>3. \A i \in 1..Len(out'[c]) :
          out'[c][i] = IF i <= Len(out[c]) THEN out[c][i] ELSE obuf[c][i - Len(out[c])]
    BY <1>0, <2>1
  <2>4. Len(out[c]) \in Nat /\ Len(obuf[c]) \in Nat /\ nread[c] \in Nat
    BY Zenon, Numbers DEF IInv
  <2>5. \A i \in 1..Len(out'[c]) : out'[c][i] = i
    <3> TAKE i \in 1..Len(out'[c])
    <3>1. CASE i <= Len(out[c])
      BY <1>0, <2>3, <2>4, <3>1 DEF LinesInv
    <3>2. CASE i > Len(out[c])
      <4>1. i - Len(out[c]) \in 1..Len(obuf[c]) /\ Len(out[c]) + (i - Len(out[c])) = i
        BY <1>0, <2>1, <3>2
      <4> QED BY <1>0, <2>3, <2>4, <3>2, <4>1 DEF LinesInv
    <3> QED BY <2>2, <2>4, <3>1, <3>2
  <2>6. Written(c)' = Written(c) /\ Written(c) \in Nat
    BY <1>0, <1>1, <2>1 DEF Written
  <2>7. outMsg' # <<>> => outMsg' = outMsg
    BY Zenon
  <2>8. Taken(c)' <= Taken(c)
    BY <2>6, <2>7 DEF Taken
  <2>9. Taken(c) \in Nat /\ Taken(c)' \in Nat /\ Taken(c) <= nread[c]
    BY <2>6, <1>0, <1>3 DEF Taken, LinesInv
  <2>10. \A i \in 1..Len(obuf'[c]) : obuf'[c][i] = Len(out'[c]) + i
    BY <1>1
  <2>11. Written(c)' <= nread'[c]
    BY Zenon, <1>0, <2>6 DEF LinesInv
  <2>12. Taken(c)' <= nread'[c]
    BY <2>4, <2>8, <2>9
  <2>13. outMsg' # <<>> /\ outMsg'[1] = c => outMsg'[2] = Written(c)' + 1
    BY Zenon, <1>0, <1>3, <2>6, <2>7 DEF LinesInv
  <2> QED BY Zenon, <1>1, <1>3, <2>5, <2>6, <2>10, <2>11, <2>12, <2>13
<1> QED BY Zenon, <1>2, <1>3

\* The output thread takes the first message of the queue: the next one of
\* its connection.
LEMMA HeadIsNext ==
  ASSUME IInv, ~TornDown, ~broken, mq # <<>>
  PROVE  mq[1][2] = Taken(mq[1][1]) + 1
<1> DEFINE c == mq[1][1]
<1>1. 1 \in 1..Len(mq) /\ mq \in Seq(Item)
  BY DEF IInv, TypeOK
<1>2. /\ c \in Conn /\ mq[1] = <<c, mq[1][2]>> /\ mq[1][2] \in Nat
      /\ Taken(c) \in Nat /\ nread[c] \in Nat /\ Len(mq) \in Nat
  BY Zenon, <1>1, Numbers DEF IInv
<1>3. /\ Taken(c) < mq[1][2] /\ mq[1][2] <= nread[c]
      /\ \A q \in 1..Len(mq) : 1 < q /\ mq[1][1] = mq[q][1] => mq[1][2] < mq[q][2]
  BY Zenon, <1>1, <1>2 DEF IInv, QueueInv
<1>4. ASSUME Taken(c) + 1 < mq[1][2] PROVE FALSE
  <2>1. Taken(c) + 1 \in 1..nread[c] /\ Taken(c) + 1 > Taken(c) /\ Taken(c) + 1 # nread[c]
    BY <1>2, <1>3, <1>4
  <2> HIDE DEF c
  <2>2. PICK p \in 1..Len(mq) : mq[p] = <<c, Taken(c) + 1>>
    BY Zenon, <1>2, <2>1 DEF IInv, QueueInv
  <2>3. mq[p][1] = c /\ mq[p][2] = Taken(c) + 1
    BY <2>2
  <2>4. p # 1 /\ p > 1
    BY <1>2, <1>4, <2>2, <2>3
  <2> USE DEF c
  <2>5. mq[1][2] < mq[p][2]
    BY Zenon, <1>3, <2>3, <2>4
  <2> QED BY <1>2, <1>4, <2>3, <2>5
<1> QED BY <1>2, <1>3, <1>4

\* What OutGet and OutPut do to the counts.
LEMMA OutGetCounts ==
  ASSUME IInv, OutGet
  PROVE  /\ outMsg = <<>> /\ outMsg' = mq[1] /\ mq[1] # <<>> /\ Len(mq) > 0 /\ UNCHANGED <<out, obuf, broken>>
         /\ \A c \in Conn : /\ Taken(c) = Written(c) /\ Written(c)' = Written(c)
                            /\ Taken(c)' = Written(c) + (IF mq[1][1] = c THEN 1 ELSE 0)
<1>1. outMsg = <<>> /\ outMsg' = mq[1] /\ Len(mq) > 0 /\ UNCHANGED <<out, obuf, broken>>
  BY DEF OutGet, IInv, OutputInv, TypeOK
<1>2. mq[1] # <<>>
  BY <1>1, Numbers DEF IInv
<1>3. \A c \in Conn : Written(c) \in Nat /\ Written(c)' = Written(c)
  BY Zenon, <1>1, Numbers DEF IInv, Written
<1>4. \A c \in Conn : Taken(c) = Written(c)
  BY <1>1, <1>3 DEF Taken
<1>5. \A c \in Conn : Taken(c)' = Written(c) + (IF mq[1][1] = c THEN 1 ELSE 0)
  BY Zenon, <1>1, <1>2, <1>3 DEF Taken
<1> QED BY Zenon, <1>1, <1>2, <1>3, <1>4, <1>5

\* Get takes the next line of its connection from the queue.
LEMMA LinesOutGet == ASSUME IInv, OutGet PROVE LinesInv'
<1>1. UNCHANGED nread
  BY Zenon DEF OutGet, recvVars
<1>2. ASSUME NEW c \in Conn, ~broken
      PROVE  /\ outMsg'[1] = c => outMsg'[2] = Written(c)' + 1
             /\ Taken(c)' <= nread[c]
  <2>1. ~TornDown /\ mq # <<>> /\ 1 \in 1..Len(mq)
    BY OutGetCounts DEF OutGet, IInv, TypeOK
  <2>2. mq[1][2] = Taken(mq[1][1]) + 1
    BY Zenon, <1>2, <2>1, HeadIsNext
  <2>3. mq[1][1] \in Conn /\ mq[1][2] <= nread[mq[1][1]]
    BY Zenon, <1>2, <2>1, Numbers DEF IInv, QueueInv
  <2>4. Taken(c) \in Nat /\ nread[c] \in Nat /\ Taken(c) <= nread[c]
    BY Zenon, <1>2, Numbers DEF IInv, LinesInv
  <2> QED BY <2>2, <2>3, <2>4, OutGetCounts
<1> QED BY <1>1, <1>2, OutGetCounts DEF IInv, LinesInv

\* Put moves a line of one connection from the thread to the buffer.
LEMMA OutPutCounts ==
  ASSUME IInv, OutPut, ~broken
  PROVE  /\ outMsg # <<>> /\ outMsg' = <<>> /\ UNCHANGED <<out, broken>>
         /\ \A c \in Conn : obuf'[c] = IF outMsg[1] = c THEN Append(obuf[c], outMsg[2]) ELSE obuf[c]
         /\ \A c \in Conn : Written(c)' = Taken(c) /\ Taken(c)' = Taken(c)
<1>0. out \in [Conn -> Seq(Index)] /\ obuf \in [Conn -> Seq(Index)]
  BY Zenon DEF IInv, TypeOK
<1>1. outMsg # <<>> /\ outMsg' = <<>> /\ UNCHANGED <<out, broken>>
  BY Zenon DEF OutPut, IInv, OutputInv
<1>2. \A c \in Conn : obuf'[c] = IF outMsg[1] = c THEN Append(obuf[c], outMsg[2]) ELSE obuf[c]
  BY Zenon, <1>0 DEF OutPut, Insert
<1>3. ASSUME NEW c \in Conn PROVE Written(c)' = Taken(c) /\ Taken(c)' = Taken(c)
  <2>1. Len(obuf'[c]) = IF outMsg[1] = c THEN Len(obuf[c]) + 1 ELSE Len(obuf[c])
    <3>1. outMsg[2] \in Index
      BY Zenon, <1>1 DEF IInv, TypeOK, Item
    <3>2. obuf[c] \in Seq(Index)
      BY Zenon, <1>0, <1>3
    <3>3. Len(Append(obuf[c], outMsg[2])) = Len(obuf[c]) + 1
      BY <3>1, <3>2
    <3> QED BY Zenon, <1>2, <1>3, <3>3
  <2>2. Written(c)' = Len(out[c]) + Len(obuf'[c])
    BY Zenon, <1>1 DEF Written
  <2>3. Taken(c) = Len(out[c]) + Len(obuf[c]) + (IF outMsg[1] = c THEN 1 ELSE 0)
    BY Zenon, <1>1 DEF Taken, Written
  <2>4. Len(out[c]) \in Nat /\ Len(obuf[c]) \in Nat
    BY <1>0, <1>3
  <2>5. Written(c)' = Taken(c)
    <3> DEFINE a == Len(out[c])
    <3> DEFINE b == Len(obuf[c])
    <3> DEFINE d == Len(obuf'[c])
    <3> HIDE DEF a, b, d
    <3>1. a \in Nat /\ b \in Nat /\ d = IF outMsg[1] = c THEN b + 1 ELSE b
      BY Zenon, <2>1, <2>4 DEF a, b, d
    <3>2. Written(c)' = a + d /\ Taken(c) = a + b + (IF outMsg[1] = c THEN 1 ELSE 0)
      BY Zenon, <2>2, <2>3 DEF a, b, d
    <3> QED BY <3>1, <3>2
  <2>6. Taken(c)' = Written(c)' + 0 /\ Taken(c) \in Nat
    BY Zenon, <1>1, <1>3, Numbers DEF Taken, IInv
  <2> QED BY <2>5, <2>6
<1> QED BY Zenon, <1>1, <1>2, <1>3

\* Put buffers the next line of its connection.
LEMMA LinesOutPut == ASSUME IInv, OutPut PROVE LinesInv'
<1>0. out \in [Conn -> Seq(Index)] /\ obuf \in [Conn -> Seq(Index)] /\ LinesInv /\ UNCHANGED nread
  BY Zenon DEF IInv, TypeOK, OutPut, recvVars
<1>1. CASE broken
  <2>1. UNCHANGED <<out, obuf, broken>>
    BY Zenon, <1>1 DEF OutPut
  <2> QED BY Zenon, <1>0, <1>1, <2>1 DEF LinesInv, Written
<1>2. CASE ~broken
  <2> SUFFICES ASSUME NEW c \in Conn
               PROVE  /\ \A i \in 1..Len(out'[c]) : out'[c][i] = i
                      /\ \A i \in 1..Len(obuf'[c]) : obuf'[c][i] = Len(out'[c]) + i
                      /\ Written(c)' <= nread'[c]
                      /\ Taken(c)' <= nread'[c]
    BY Zenon, <1>2, OutPutCounts DEF LinesInv
  <2>1. Written(c)' <= nread'[c] /\ Taken(c)' <= nread'[c]
    BY Zenon, <1>0, <1>2, OutPutCounts DEF LinesInv
  <2>2. \A i \in 1..Len(out'[c]) : out'[c][i] = i
    BY Zenon, <1>0, <1>2, OutPutCounts DEF LinesInv
  <2>3. CASE outMsg[1] # c
    BY Zenon, <1>0, <1>2, <2>1, <2>2, <2>3, OutPutCounts DEF LinesInv
  <2>4. CASE outMsg[1] = c
    <3>1. outMsg[2] = Len(out[c]) + Len(obuf[c]) + 1
      BY Zenon, <1>0, <1>2, <2>4, OutPutCounts DEF LinesInv, Written
    <3>2. obuf'[c] = Append(obuf[c], outMsg[2]) /\ out'[c] = out[c]
      BY Zenon, <1>2, <2>4, OutPutCounts
    <3>3. /\ Len(obuf[c]) \in Nat /\ Len(obuf'[c]) = Len(obuf[c]) + 1
          /\ obuf'[c][Len(obuf[c]) + 1] = outMsg[2]
          /\ \A i \in 1..Len(obuf[c]) : obuf'[c][i] = obuf[c][i]
      BY <1>0, <3>2
    <3>4. \A i \in 1..Len(obuf'[c]) : i \in 1..Len(obuf[c]) \/ i = Len(obuf[c]) + 1
      BY <3>3
    <3>5. Len(out[c]) \in Nat
      BY <1>0
    <3>6. outMsg[2] = Len(out[c]) + (Len(obuf[c]) + 1)
      BY <3>1, <1>0
    <3>7. \A i \in 1..Len(obuf'[c]) : obuf'[c][i] = Len(out'[c]) + i
      BY ZenonT(30), <1>0, <3>2, <3>3, <3>4, <3>6 DEF LinesInv
    <3> QED BY Zenon, <2>1, <2>2, <3>7
  <2> QED BY Zenon, <2>3, <2>4
<1> QED BY Zenon, <1>1, <1>2

\* A failed write breaks standard output and drops what was buffered.
LEMMA LinesFlushFails == ASSUME IInv, FlushFails PROVE LinesInv'
<1>0. out \in [Conn -> Seq(Index)] /\ obuf \in [Conn -> Seq(Index)] /\ LinesInv
  BY Zenon DEF IInv, TypeOK
<1>1. /\ broken' /\ UNCHANGED <<out, nread>>
      /\ \A c \in Conn : obuf'[c] = <<>> /\ Len(obuf'[c]) = 0
  BY Zenon DEF FlushFails, recvVars
<1>2. ASSUME NEW c \in Conn PROVE Written(c)' <= nread'[c]
  BY <1>0, <1>1, <1>2, Numbers DEF IInv, LinesInv, Written
<1> QED BY <1>0, <1>1, <1>2 DEF LinesInv

\* Every step keeps the lines of a connection in order.
LEMMA LinesStep == ASSUME IInv, Next PROVE LinesInv'
<1> USE DEF recvVars, outVars
<1>0. nread \in [Conn -> 0..MaxMsg] /\ MaxMsg \in Nat
  BY Zenon, SubscriberAssumption DEF IInv, TypeOK
<1>1. ASSUME UNCHANGED <<out, obuf, outMsg, broken, nread>> PROVE LinesInv'
  BY <1>0, <1>1, LinesFrame
<1>2. CASE \/ Listen \/ CreateEntry \/ StartOutput \/ WhileRun \/ Renew \/ PollTimeout \/ Accept
           \/ Destroy \/ Unlink \/ OutGetFails
  BY Zenon, <1>1, <1>2 DEF Listen, CreateEntry, StartOutput, WhileRun, Renew, PollTimeout, Accept, Destroy,
                    Unlink, OutGetFails
<1>3. CASE Signal \/ SignalOutput \/ Kill \/ RemoveEntry
  BY Zenon, <1>1, <1>3 DEF Signal, SignalOutput, Kill, RemoveEntry
<1>4. ASSUME NEW c \in Conn, Dial(c) \/ Send(c) \/ Hangup(c, "closed") \/ Hangup(c, "cut")
      PROVE  LinesInv'
  BY Zenon, <1>1, <1>4 DEF Dial, Send, Hangup
<1>5. ASSUME NEW c \in Conn, MqInit(c) \/ ReadEnds(c) \/ PutMsg(c) \/ PutFails(c) PROVE LinesInv'
  BY Zenon, <1>1, <1>5 DEF MqInit, ReadEnds, PutMsg, PutFails, ReceiverGoes
<1>6. ASSUME NEW c \in Conn, ReadMsg(c) PROVE LinesInv'
  <2>1. \A e \in Conn : nread'[e] \in Nat /\ nread[e] <= nread'[e]
    BY <1>0, <1>6 DEF ReadMsg
  <2> QED BY Zenon, <1>6, <2>1, LinesFrame DEF ReadMsg
<1>7. CASE Flush \/ Exit
  BY Zenon, <1>7, LinesFlush DEF Flush, Exit
<1>8. CASE FlushFails
  BY Zenon, <1>8, LinesFlushFails
<1>9. CASE OutGet \/ OutPut
  BY Zenon, <1>9, LinesOutGet, LinesOutPut
<1> QED
  BY Zenon, <1>2, <1>3, <1>4, <1>5, <1>6, <1>7, <1>8, <1>9
  DEF Next, MainRuns, OutputRuns, Environment, ReceiverRuns

-----------------------------------------------------------------------------
(* The queue.                                                              *)

\* A step that leaves the queue and both its ends alone.
LEMMA QueueFrame ==
  ASSUME IInv, UNCHANGED <<mq, nread, broken>>, TornDown => TornDown',
         \A c \in Conn : Taken(c)' = Taken(c),
         \A c \in Conn : /\ recv'[c] = "put" => recv[c] = "put"
                         /\ recv[c] \in {"put", "ended"} => recv'[c] \in {"put", "ended"}
  PROVE  QueueInv'
<1> SUFFICES ASSUME ~TornDown, ~broken
             PROVE  /\ \A c \in Conn : \A p \in 1..Len(mq) : mq[p][1] = c =>
                         /\ Taken(c)' < mq[p][2] /\ mq[p][2] <= nread[c]
                         /\ recv'[c] = "put" => mq[p][2] < nread[c]
                    /\ \A p, q \in 1..Len(mq) : p < q /\ mq[p][1] = mq[q][1] => mq[p][2] < mq[q][2]
                    /\ \A c \in Conn : recv'[c] = "put" => Taken(c)' < nread[c]
                    /\ \A c \in Conn : \A i \in 1..nread[c] : i > Taken(c)' =>
                         \/ \E p \in 1..Len(mq) : mq[p] = <<c, i>>
                         \/ recv'[c] \in {"put", "ended"} /\ i = nread[c]
  BY Zenon DEF QueueInv
<1>1. \A p \in 1..Len(mq) : mq[p][1] \in Conn
  BY Zenon, Numbers DEF IInv
<1> QED BY ZenonT(30), <1>1 DEF IInv, QueueInv

\* The receiver of c has read the next message.
LEMMA QueueReadMsg == ASSUME IInv, NEW c \in Conn, ReadMsg(c) PROVE QueueInv'
<1> USE DEF outVars, mainVars
<1> SUFFICES ASSUME ~TornDown, ~broken
             PROVE  /\ \A e \in Conn : \A p \in 1..Len(mq) : mq[p][1] = e =>
                         /\ Taken(e)' < mq[p][2] /\ mq[p][2] <= nread'[e]
                         /\ recv'[e] = "put" => mq[p][2] < nread'[e]
                    /\ \A p, q \in 1..Len(mq) : p < q /\ mq[p][1] = mq[q][1] => mq[p][2] < mq[q][2]
                    /\ \A e \in Conn : recv'[e] = "put" => Taken(e)' < nread'[e]
                    /\ \A e \in Conn : \A i \in 1..nread'[e] : i > Taken(e)' =>
                         \/ \E p \in 1..Len(mq) : mq[p] = <<e, i>>
                         \/ recv'[e] \in {"put", "ended"} /\ i = nread'[e]
  BY ZenonT(30) DEF QueueInv, ReadMsg, TornDown
<1>1. /\ \A e \in Conn : recv'[e] = IF e = c THEN "put" ELSE recv[e]
      /\ \A e \in Conn : nread'[e] = IF e = c THEN nread[c] + 1 ELSE nread[e]
      /\ recv[c] = "read"
  BY Zenon DEF IInv, TypeOK, ReadMsg
<1>2. \A e \in Conn : Taken(e)' = Taken(e) /\ Taken(e) \in Nat /\ nread[e] \in Nat /\ Taken(e) <= nread[e]
  BY Zenon, Numbers DEF IInv, LinesInv, ReadMsg, Taken, Written
<1>3. \A p \in 1..Len(mq) : mq[p][1] \in Conn /\ mq[p][2] \in Nat
  BY Zenon, Numbers DEF IInv
<1>4. \A e \in Conn : \A p \in 1..Len(mq) : mq[p][1] = e =>
        /\ Taken(e)' < mq[p][2] /\ mq[p][2] <= nread'[e]
        /\ recv'[e] = "put" => mq[p][2] < nread'[e]
  BY <1>1, <1>2, <1>3 DEF IInv, QueueInv
<1>5. \A e \in Conn : recv'[e] = "put" => Taken(e)' < nread'[e]
  BY <1>1, <1>2 DEF IInv, QueueInv
<1>6. ASSUME NEW e \in Conn, NEW i \in 1..nread'[e], i > Taken(e)'
      PROVE  \/ \E p \in 1..Len(mq) : mq[p] = <<e, i>>
             \/ recv'[e] \in {"put", "ended"} /\ i = nread'[e]
  <2>1. CASE e # c
    BY ZenonT(30), <1>1, <1>2, <1>6, <2>1 DEF IInv, QueueInv
  <2>2. CASE e = c /\ i = nread[c] + 1
    BY Zenon, <1>1, <2>2
  <2>3. CASE e = c /\ i # nread[c] + 1
    <3>1. i \in 1..nread[c] /\ i > Taken(c)
      BY <1>1, <1>2, <1>6, <2>3
    <3> QED BY Zenon, <1>1, <2>3, <3>1 DEF IInv, QueueInv
  <2> QED BY Zenon, <2>1, <2>2, <2>3
<1> QED BY Zenon, <1>4, <1>5, <1>6 DEF IInv, QueueInv

\* The receiver of c puts its message at the end of the queue.
LEMMA QueuePutMsg == ASSUME IInv, NEW c \in Conn, PutMsg(c) PROVE QueueInv'
<1> USE DEF outVars, mainVars
<1> DEFINE n == Len(mq)
<1>1. /\ \A e \in Conn : recv'[e] = IF e = c THEN "read" ELSE recv[e]
      /\ recv[c] = "put" /\ UNCHANGED <<nread, broken, pc>>
  BY Zenon DEF IInv, TypeOK, PutMsg, ReceiverGoes
<1>2. \A e \in Conn : Taken(e)' = Taken(e) /\ Taken(e) \in Nat /\ nread[e] \in Nat
  BY Zenon, Numbers DEF IInv, PutMsg, ReceiverGoes, Taken, Written
<1>3. mq \in Seq(Item) /\ <<c, nread[c]>> \in Item
  BY <1>1, SubscriberAssumption DEF IInv, TypeOK, ReadInv, Item, Index
<1>4. /\ n \in Nat /\ Len(mq') = n + 1 /\ mq'[n + 1] = <<c, nread[c]>>
      /\ \A p \in 1..n : mq'[p] = mq[p]
  BY <1>3 DEF PutMsg
<1>5. \A p \in 1..Len(mq') : p \in 1..n \/ p = n + 1
  BY <1>4
<1>6. \A p \in 1..n : p \in 1..Len(mq') /\ mq[p][1] \in Conn /\ mq[p][2] \in Nat
  BY <1>4, Numbers DEF IInv
<1>7. mq'[n + 1][1] = c /\ mq'[n + 1][2] = nread[c] /\ n + 1 \in 1..Len(mq')
  BY <1>4
<1> HIDE DEF n
<1> SUFFICES ASSUME ~TornDown, ~broken PROVE QueueInv'
  BY Zenon, <1>1 DEF QueueInv, TornDown
<1>8. /\ \A e \in Conn : \A p \in 1..n : mq[p][1] = e =>
           Taken(e) < mq[p][2] /\ mq[p][2] <= nread[e] /\ (recv[e] = "put" => mq[p][2] < nread[e])
      /\ \A p, q \in 1..n : p < q /\ mq[p][1] = mq[q][1] => mq[p][2] < mq[q][2]
      /\ \A e \in Conn : recv[e] = "put" => Taken(e) < nread[e]
      /\ \A e \in Conn : \A i \in 1..nread[e] : i > Taken(e) =>
           \/ \E p \in 1..n : mq[p] = <<e, i>>
           \/ recv[e] \in {"put", "ended"} /\ i = nread[e]
  BY Zenon DEF IInv, QueueInv, n
<1>9. ASSUME NEW e \in Conn, NEW p \in 1..Len(mq'), mq'[p][1] = e
      PROVE  Taken(e)' < mq'[p][2] /\ mq'[p][2] <= nread'[e] /\ (recv'[e] = "put" => mq'[p][2] < nread'[e])
  <2>1. CASE p \in 1..n
    BY <1>1, <1>2, <1>4, <1>6, <1>8, <1>9, <2>1
  <2>2. CASE p = n + 1
    BY <1>1, <1>2, <1>7, <1>8, <1>9, <2>2
  <2> QED BY Zenon, <1>5, <2>1, <2>2
<1>10. ASSUME NEW p \in 1..Len(mq'), NEW q \in 1..Len(mq'), p < q, mq'[p][1] = mq'[q][1]
       PROVE  mq'[p][2] < mq'[q][2]
  <2>1. p \in 1..n
    BY <1>4, <1>5, <1>10
  <2>2. CASE q \in 1..n
    BY Zenon, <1>4, <1>8, <1>10, <2>1, <2>2
  <2>3. CASE q = n + 1
    BY <1>1, <1>4, <1>7, <1>8, <1>10, <2>1, <2>3
  <2> QED BY Zenon, <1>5, <2>2, <2>3
<1>11. \A e \in Conn : recv'[e] = "put" => Taken(e)' < nread'[e]
  BY <1>1, <1>2, <1>8
<1>12. ASSUME NEW e \in Conn, NEW i \in 1..nread'[e], i > Taken(e)'
       PROVE  \/ \E p \in 1..Len(mq') : mq'[p] = <<e, i>>
              \/ recv'[e] \in {"put", "ended"} /\ i = nread'[e]
  <2>1. CASE \E p \in 1..n : mq[p] = <<e, i>>
    BY Zenon, <1>4, <1>6, <2>1
  <2>2. CASE recv[e] \in {"put", "ended"} /\ i = nread[e]
    BY Zenon, <1>1, <1>4, <1>7, <2>2
  <2> QED BY Zenon, <1>1, <1>2, <1>8, <1>12, <2>1, <2>2
<1> QED BY Zenon, <1>9, <1>10, <1>11, <1>12 DEF QueueInv

\* The output thread takes the first message.
LEMMA QueueOutGet == ASSUME IInv, OutGet PROVE QueueInv'
<1> USE DEF recvVars, mainVars
<1> DEFINE n == Len(mq)
<1> DEFINE h == mq[1]
<1>1. UNCHANGED <<nread, broken, pc, recv>> /\ mq \in Seq(Item) /\ mq # <<>>
  BY Zenon DEF IInv, TypeOK, OutGet
<1>2. /\ n \in Nat /\ n > 0 /\ Len(mq') = n - 1
      /\ \A p \in 1..Len(mq') : mq'[p] = mq[p + 1]
  BY <1>1 DEF OutGet
<1>3. \A p \in 1..Len(mq') : p + 1 \in 1..n /\ 1 < p + 1
  BY <1>2
<1>4. \A p \in 1..n : p # 1 => p - 1 \in 1..Len(mq') /\ mq'[p - 1] = mq[p]
  BY <1>2
<1>5. 1 \in 1..n /\ \A p \in 1..n : mq[p][1] \in Conn /\ mq[p][2] \in Nat /\ mq[p] = <<mq[p][1], mq[p][2]>>
  BY <1>2, Numbers DEF IInv
<1>6. \A e \in Conn : /\ Taken(e) \in Nat /\ nread[e] \in Nat
                      /\ Taken(e)' = Taken(e) + (IF h[1] = e THEN 1 ELSE 0)
  BY Zenon, OutGetCounts, Numbers DEF IInv
<1> HIDE DEF n
<1> SUFFICES ASSUME ~TornDown, ~broken PROVE QueueInv'
  BY Zenon, <1>1 DEF QueueInv, TornDown
<1>7. h[2] = Taken(h[1]) + 1
  BY Zenon, <1>1, HeadIsNext
<1>8. /\ \A e \in Conn : \A p \in 1..n : mq[p][1] = e =>
           Taken(e) < mq[p][2] /\ mq[p][2] <= nread[e] /\ (recv[e] = "put" => mq[p][2] < nread[e])
      /\ \A p, q \in 1..n : p < q /\ mq[p][1] = mq[q][1] => mq[p][2] < mq[q][2]
      /\ \A e \in Conn : recv[e] = "put" => Taken(e) < nread[e]
      /\ \A e \in Conn : \A i \in 1..nread[e] : i > Taken(e) =>
           \/ \E p \in 1..n : mq[p] = <<e, i>>
           \/ recv[e] \in {"put", "ended"} /\ i = nread[e]
  BY Zenon DEF IInv, QueueInv, n
<1>9. ASSUME NEW e \in Conn, NEW p \in 1..Len(mq'), mq'[p][1] = e
      PROVE  Taken(e)' < mq'[p][2] /\ mq'[p][2] <= nread'[e] /\ (recv'[e] = "put" => mq'[p][2] < nread'[e])
  <2>1. mq'[p] = mq[p + 1] /\ p + 1 \in 1..n /\ 1 < p + 1
    BY Zenon, <1>2, <1>3
  <2>2. mq[p + 1][1] = h[1] => h[2] < mq[p + 1][2]
    BY Zenon, <1>5, <1>8, <2>1
  <2> QED BY <1>1, <1>5, <1>6, <1>7, <1>8, <1>9, <2>1, <2>2
<1>10. ASSUME NEW p \in 1..Len(mq'), NEW q \in 1..Len(mq'), p < q, mq'[p][1] = mq'[q][1]
       PROVE  mq'[p][2] < mq'[q][2]
  <2>1. p + 1 \in 1..n /\ q + 1 \in 1..n /\ p + 1 < q + 1
    BY <1>3, <1>10
  <2>2. mq'[p] = mq[p + 1] /\ mq'[q] = mq[q + 1]
    BY Zenon, <1>2
  <2>3. mq[p + 1][1] = mq[q + 1][1]
    BY Zenon, <1>10, <2>2
  <2>4. mq[p + 1][2] < mq[q + 1][2]
    BY Zenon, <1>8, <2>1, <2>3
  <2> QED BY Zenon, <2>2, <2>4
<1>11. \A e \in Conn : recv'[e] = "put" => Taken(e)' < nread'[e]
  BY <1>1, <1>5, <1>6, <1>7, <1>8
<1>12. ASSUME NEW e \in Conn, NEW i \in 1..nread'[e], i > Taken(e)'
       PROVE  \/ \E p \in 1..Len(mq') : mq'[p] = <<e, i>>
              \/ recv'[e] \in {"put", "ended"} /\ i = nread'[e]
  <2>1. i \in 1..nread[e] /\ i > Taken(e) /\ <<e, i>> # h
    BY <1>1, <1>5, <1>6, <1>7, <1>12
  <2>2. CASE \E p \in 1..n : mq[p] = <<e, i>>
    <3>1. PICK p \in 1..n : mq[p] = <<e, i>>
      BY Zenon, <2>2
    <3>2. p # 1
      BY Zenon, <2>1, <3>1
    <3> QED BY Zenon, <1>4, <3>1, <3>2
  <2>3. CASE recv[e] \in {"put", "ended"} /\ i = nread[e]
    BY Zenon, <1>1, <2>3
  <2> QED BY Zenon, <1>8, <2>1, <2>2, <2>3
<1> QED BY Zenon, <1>9, <1>10, <1>11, <1>12 DEF QueueInv

\* Every step keeps the lines in the queue in step with what is put and got.
LEMMA QueueStep == ASSUME IInv, Next PROVE QueueInv'
<1> USE DEF mainVars, recvVars, outVars
<1>0. recv \in [Conn -> RecvPc] /\ BacklogInv /\ backlog \in Seq(Conn) /\ OutputInv
  BY Zenon DEF IInv, TypeOK
<1>1. ASSUME UNCHANGED <<out, obuf, outMsg>> PROVE \A c \in Conn : Taken(c)' = Taken(c)
  BY Zenon, <1>1 DEF Taken, Written
<1>2. CASE \/ Listen \/ CreateEntry \/ StartOutput \/ WhileRun \/ Renew \/ PollTimeout \/ Unlink
           \/ OutGetFails
  <2>1. UNCHANGED <<out, obuf, outMsg, mq, nread, recv, broken>> /\ (TornDown => TornDown')
    BY Zenon, <1>2
    DEF Listen, CreateEntry, StartOutput, WhileRun, Renew, PollTimeout, Unlink, OutGetFails, TornDown
  <2> QED BY Zenon, <1>1, <2>1, QueueFrame
<1>3. CASE Signal \/ SignalOutput \/ Kill \/ RemoveEntry
  <2>1. UNCHANGED <<out, obuf, outMsg, mq, nread, recv, broken>> /\ (TornDown => TornDown')
    BY Zenon, <1>3 DEF Signal, SignalOutput, Kill, RemoveEntry, TornDown
  <2> QED BY Zenon, <1>1, <2>1, QueueFrame
<1>4. ASSUME NEW c \in Conn, Send(c) \/ Hangup(c, "closed") \/ Hangup(c, "cut") PROVE QueueInv'
  <2>1. UNCHANGED <<out, obuf, outMsg, mq, nread, recv, broken>> /\ (TornDown => TornDown')
    BY Zenon, <1>4 DEF Send, Hangup, TornDown
  <2> QED BY Zenon, <1>1, <2>1, QueueFrame
<1>5. CASE Accept
  <2>1. UNCHANGED <<out, obuf, outMsg, mq, nread, broken>> /\ (TornDown => TornDown')
    BY Zenon, <1>5 DEF Accept, TornDown
  <2>2. Head(backlog) \in Conn /\ recv[Head(backlog)] = "backlog"
    BY <1>0, <1>5 DEF Accept, BacklogInv
  <2>3. \A c \in Conn : recv'[c] = IF c = Head(backlog) THEN "init" ELSE recv[c]
    BY Zenon, <1>0, <1>5, <2>2 DEF Accept
  <2> QED BY Zenon, <1>1, <2>1, <2>2, <2>3, QueueFrame
<1>6. ASSUME NEW c \in Conn, Dial(c) \/ MqInit(c) \/ ReadEnds(c) \/ PutFails(c) PROVE QueueInv'
  <2>1. UNCHANGED <<out, obuf, outMsg, mq, nread, broken>> /\ (TornDown => TornDown')
    BY Zenon, <1>6 DEF Dial, MqInit, ReadEnds, PutFails, ReceiverGoes, TornDown
  <2>2. \A e \in Conn : /\ recv'[e] = "put" => recv[e] = "put"
                        /\ recv[e] \in {"put", "ended"} => recv'[e] \in {"put", "ended"}
    BY Zenon, <1>0, <1>6 DEF Dial, MqInit, ReadEnds, PutFails, ReceiverGoes
  <2> QED BY Zenon, <1>1, <2>1, <2>2, QueueFrame
<1>7. CASE Destroy \/ Exit \/ FlushFails
  BY Zenon, <1>7 DEF Destroy, Exit, FlushFails, TornDown, QueueInv
<1>8. ASSUME NEW c \in Conn, ReadMsg(c) \/ PutMsg(c) PROVE QueueInv'
  BY Zenon, <1>8, QueueReadMsg, QueuePutMsg
<1>9. CASE OutGet
  BY Zenon, <1>9, QueueOutGet
<1>10. CASE OutPut
  <2>1. CASE broken
    BY Zenon, <1>10, <2>1 DEF OutPut, QueueInv
  <2>2. CASE ~broken
    <3>1. UNCHANGED <<mq, nread, recv, broken>> /\ (TornDown => TornDown')
      BY Zenon, <1>10 DEF OutPut, TornDown
    <3> QED BY Zenon, <1>10, <2>2, <3>1, OutPutCounts, QueueFrame
  <2> QED BY Zenon, <2>1, <2>2
<1>11. CASE Flush
  <2>1. UNCHANGED <<mq, nread, recv, broken, outMsg>> /\ (TornDown => TornDown')
    BY Zenon, <1>11 DEF Flush, TornDown
  <2>2. \A c \in Conn : Written(c)' = Written(c)
    BY Zenon, <1>11, <2>1, LinesFlush DEF Flush
  <2>3. \A c \in Conn : Taken(c)' = Taken(c)
    BY Zenon, <2>1, <2>2 DEF Taken
  <2> QED BY Zenon, <2>1, <2>3, QueueFrame
<1> QED
  BY Zenon, <1>2, <1>3, <1>4, <1>5, <1>6, <1>7, <1>8, <1>9, <1>10, <1>11
  DEF Next, MainRuns, OutputRuns, Environment, ReceiverRuns

-----------------------------------------------------------------------------
(* Theorems.                                                               *)

\* The invariant holds in every state.
LEMMA Invariant == Spec => []IInv
<1>1. Init => IInv
  BY Zenon, InitInv
<1>2. IInv /\ [Next]_vars => IInv'
  <2> SUFFICES ASSUME IInv, [Next]_vars PROVE IInv'
    BY Zenon
  <2>1. CASE Next
    <3>1. TypeOK'
      BY Zenon, <2>1, MainTypeStep, LineTypeStep DEF TypeOK, MainType, LineType
    <3> QED
      BY Zenon, <2>1, <3>1, EntryStep, BacklogStep, ReadStep, OutputStep, LinesStep, QueueStep DEF IInv
  <2>2. CASE UNCHANGED vars
    <3>1. TypeOK' /\ EntryInv' /\ BacklogInv' /\ ReadInv' /\ OutputInv'
      BY Zenon, <2>2 DEF vars, mainVars, netVars, recvVars, outVars, IInv, TypeOK, EntryInv, BacklogInv,
                  ReadInv, OutputInv
    <3>2. LinesInv'
      BY Zenon, <2>2 DEF vars, recvVars, outVars, IInv, LinesInv, Written, Taken
    <3>3. QueueInv'
      BY ZenonT(30), <2>2 DEF vars, mainVars, recvVars, outVars, IInv, QueueInv, TornDown, Written, Taken
    <3> QED BY Zenon, <3>1, <3>2, <3>3 DEF IInv
  <2> QED BY Zenon, <2>1, <2>2
<1> QED BY <1>1, <1>2, PTL DEF Spec

\* While the entry stands a publisher can connect, unless the process was
\* killed (run_sub and SubEntry).
THEOREM EntryStands == Spec => []EntryReachable
<1>1. IInv => EntryReachable
  BY Zenon DEF IInv, TypeOK, Pc, EntryInv, EntryReachable, Listening, Running
<1> QED BY <1>1, Invariant, PTL

\* The messages that were read are printed or on their way, but for the last
\* one of a connection that was given up, until the queue is removed or
\* standard output breaks, for any number of connections and messages.
THEOREM NoneSkipped == Spec => []NothingSkipped
<1>1. IInv => NothingSkipped
  <2> SUFFICES ASSUME IInv, ~TornDown, ~broken, NEW c \in Conn, NEW i \in 1..nread[c]
               PROVE  \/ Underway(<<c, i>>) \/ \E k \in 1..Len(out[c]) : out[c][k] = i
                      \/ recv[c] = "ended" /\ i = nread[c]
    BY Zenon DEF NothingSkipped, IInv
  <2>0. out \in [Conn -> Seq(Index)] /\ obuf \in [Conn -> Seq(Index)] /\ LinesInv /\ nread[c] \in Nat
    BY Zenon, Numbers DEF IInv, TypeOK
  <2>1. CASE i <= Len(out[c])
    BY <2>0, <2>1 DEF LinesInv
  <2>2. CASE i > Len(out[c]) /\ i <= Written(c)
    <3>1. i - Len(out[c]) \in 1..Len(obuf[c]) /\ Len(out[c]) + (i - Len(out[c])) = i
      BY <2>0, <2>2 DEF Written
    <3>2. obuf[c][i - Len(out[c])] = i
      BY Zenon, <2>0, <3>1 DEF LinesInv
    <3> QED BY Zenon, <3>1, <3>2 DEF Underway
  <2>3. CASE i > Written(c) /\ i <= Taken(c)
    <3>1. Written(c) \in Nat /\ Taken(c) \in Nat
      BY Zenon, Numbers DEF IInv
    <3>2. outMsg # <<>> /\ outMsg[1] = c /\ i = Written(c) + 1
      BY <2>3, <3>1 DEF Taken
    <3>3. outMsg = <<c, i>>
      BY Zenon, <2>0, <3>2, Numbers DEF IInv, LinesInv
    <3> QED BY Zenon, <3>3 DEF Underway
  <2>4. CASE i > Taken(c)
    <3>1. \/ \E p \in 1..Len(mq) : mq[p] = <<c, i>>
          \/ recv[c] \in {"put", "ended"} /\ i = nread[c]
      BY Zenon, <2>4 DEF IInv, QueueInv
    <3> QED BY Zenon, <3>1 DEF Underway
  <2> QED BY <2>0, <2>1, <2>2, <2>3, <2>4, Numbers DEF IInv
<1> QED BY <1>1, Invariant, PTL

\* What was sent on c, as Stream has it.
Sent(c) == [i \in 1..nsent[c] |-> i]

\* What a connection has sent is a sequence.
LEMMA SentIsSequence ==
  ASSUME TypeOK, NEW c \in Conn
  PROVE  /\ Sent(c) \in Seq(Index) /\ Len(Sent(c)) = nsent[c] /\ nsent[c] \in Nat
         /\ \A i \in 1..nsent[c] : Sent(c)[i] = i
BY SubscriberAssumption DEF TypeOK, Sent, Index

\* A sequence begins another one if it is not longer and they agree.
LEMMA Beginning ==
  ASSUME NEW A, NEW a \in Seq(A), NEW b \in Seq(A), Len(a) <= Len(b),
         \A i \in 1..Len(a) : a[i] = b[i]
  PROVE  S!Begins(a, b)
<1>1. a = SubSeq(b, 1, Len(a))
  <2>1. Len(a) \in Nat /\ Len(b) \in Nat
    OBVIOUS
  <2>2. /\ SubSeq(b, 1, Len(a)) \in Seq(A) /\ Len(SubSeq(b, 1, Len(a))) = Len(a)
        /\ \A i \in 1..Len(a) : SubSeq(b, 1, Len(a))[i] = b[i]
    BY <2>1
  <2> QED BY <2>2
<1> QED BY Zenon, <1>1 DEF S!Begins

\* A sequence begins itself, and each of its extensions.
LEMMA ConcatBegins ==
  ASSUME NEW A, NEW a \in Seq(A), NEW b \in Seq(A)
  PROVE  S!Begins(a, a) /\ S!Begins(a, a \o b) /\ \A n \in Nat : Len(a) + Len(b) <= n => Len(a) <= n
<1>1. a \o b \in Seq(A) /\ Len(a) <= Len(a \o b) /\ \A i \in 1..Len(a) : a[i] = (a \o b)[i]
  OBVIOUS
<1>2. Len(a) \in Nat /\ Len(a) <= Len(a)
  OBVIOUS
<1>3. \A n \in Nat : Len(a) + Len(b) <= n => Len(a) <= n
  OBVIOUS
<1> QED BY Zenon, <1>1, <1>2, <1>3, Beginning

\* A flush prints the next messages of each connection.
LEMMA FlushDelivers ==
  ASSUME IInv, IInv', FlushBuffer, UNCHANGED <<broken, nread, nsent>>
  PROVE  S!Deliver
<1> SUFFICES ASSUME NEW c \in Conn PROVE S!Begins(out[c], out'[c]) /\ S!Begins(out'[c], Sent(c))
  BY Zenon DEF S!Deliver, Sent
<1>0. /\ out[c] \in Seq(Index) /\ out'[c] \in Seq(Index) /\ obuf[c] \in Seq(Index)
      /\ obuf'[c] \in Seq(Index) /\ nread[c] \in Nat /\ nread[c] <= nsent[c] /\ nsent[c] \in Nat
  BY Zenon, Numbers, SentIsSequence DEF IInv, TypeOK, ReadInv
<1>1. S!Begins(out[c], out'[c])
  <2>1. out'[c] = out[c] \/ out'[c] = out[c] \o obuf[c]
    BY Zenon DEF FlushBuffer
  <2> QED BY Zenon, <1>0, <2>1, ConcatBegins
<1>2. S!Begins(out'[c], Sent(c))
  <2>1. (Written(c) <= nread[c])' /\ \A i \in 1..Len(out'[c]) : out'[c][i] = i
    BY Zenon DEF IInv, LinesInv
  <2>2. Len(out'[c]) <= nsent[c]
    <3>1. Len(out'[c]) + Len(obuf'[c]) <= nread[c]
      BY Zenon, <2>1 DEF Written
    <3>2. Len(out'[c]) <= nread[c]
      BY Zenon, <1>0, <3>1, ConcatBegins
    <3>3. Len(out'[c]) \in Nat
      BY <1>0
    <3> QED BY <1>0, <3>2, <3>3
  <2>3. Sent(c) \in Seq(Index) /\ Len(Sent(c)) = nsent[c] /\ \A i \in 1..nsent[c] : Sent(c)[i] = i
    BY Zenon, SentIsSequence DEF IInv
  <2>4. \A i \in 1..Len(out'[c]) : out'[c][i] = Sent(c)[i]
    BY <1>0, <2>1, <2>2, <2>3
  <2> QED BY Zenon, <1>0, <2>2, <2>3, <2>4, Beginning
<1> QED BY Zenon, <1>1, <1>2

\* What is printed of a connection is a prefix of what was sent on it: the
\* threads and the queue of wissbi-sub implement Stream.
THEOREM Prefix == Spec => PrintsPrefix
<1>1. Init => S!Init
  <2> SUFFICES ASSUME Init PROVE S!Init
    BY Zenon
  <2>1. ASSUME NEW c \in Conn PROVE [i \in 1..nsent[c] |-> i] = <<>>
    BY DEF Init
  <2> QED BY Zenon, <2>1 DEF Init, S!Init
<1>2. IInv /\ IInv' /\ [Next]_vars => [S!Next]_(S!streamVars)
  <2> SUFFICES ASSUME IInv, IInv', [Next]_vars PROVE [S!Next]_(S!streamVars)
    BY Zenon
  <2> USE DEF netVars, recvVars, outVars
  <2>1. ASSUME UNCHANGED <<nsent, out>> PROVE [S!Next]_(S!streamVars)
    BY Zenon, <2>1 DEF S!streamVars
  <2>2. CASE MainRuns
    <3>1. CASE Exit
      BY Zenon, <2>2, <3>1, FlushDelivers DEF Exit, S!Next
    <3>2. CASE ~Exit
      BY Zenon, <2>1, <2>2, <3>2 DEF MainRuns, Listen, CreateEntry, StartOutput, WhileRun, Renew, PollTimeout,
                              Accept, Destroy, Unlink
    <3> QED BY Zenon, <3>1, <3>2
  <2>3. CASE OutputRuns
    BY Zenon, <2>1, <2>3 DEF OutputRuns, OutGet, OutGetFails, OutPut
  <2>4. CASE Flush
    BY Zenon, <2>4, FlushDelivers DEF Flush, S!Next
  <2>5. CASE Signal \/ SignalOutput \/ Kill \/ RemoveEntry \/ FlushFails
    BY Zenon, <2>1, <2>5 DEF Signal, SignalOutput, Kill, RemoveEntry, FlushFails
  <2>6. ASSUME NEW c \in Conn, Dial(c) \/ Hangup(c, "closed") \/ Hangup(c, "cut")
        PROVE  [S!Next]_(S!streamVars)
    BY Zenon, <2>1, <2>6 DEF Dial, Hangup
  <2>7. ASSUME NEW c \in Conn, Send(c) PROVE [S!Next]_(S!streamVars)
    <3>1. nsent \in [Conn -> 0..MaxMsg] /\ MaxMsg \in Nat /\ nsent[c] + 1 \in Index
      BY <2>7, SubscriberAssumption DEF Send, IInv, TypeOK, Index
    <3>2. /\ \A e \in Conn : nsent'[e] = IF e = c THEN nsent[c] + 1 ELSE nsent[e]
          /\ UNCHANGED out
      BY Zenon, <2>7, <3>1 DEF Send
    <3>3. Sent(c)' = Append(Sent(c), nsent[c] + 1)
      <4>1. /\ Sent(c)' \in Seq(Index) /\ Len(Sent(c)') = nsent[c] + 1
            /\ \A i \in 1..nsent[c] + 1 : Sent(c)'[i] = i
        BY <2>7, <3>1, <3>2, SentIsSequence DEF IInv, Sent, Index
      <4>2. Sent(c) \in Seq(Index) /\ Len(Sent(c)) = nsent[c] /\ \A i \in 1..nsent[c] : Sent(c)[i] = i
        BY Zenon, <2>7, SentIsSequence DEF IInv
      <4>3. /\ Append(Sent(c), nsent[c] + 1) \in Seq(Index)
            /\ Len(Append(Sent(c), nsent[c] + 1)) = nsent[c] + 1
            /\ \A i \in 1..nsent[c] + 1 : Append(Sent(c), nsent[c] + 1)[i] = i
        BY <3>1, <4>2
      <4> QED BY <4>1, <4>3
    <3>4. \A e \in Conn : e # c => Sent(e)' = Sent(e)
      BY Zenon, <3>2 DEF Sent
    <3>5. PICK x \in Index : x = nsent[c] + 1
      BY Zenon, <3>1
    <3>6. S!Send(c, x)
      BY Zenon, <2>7, <3>2, <3>3, <3>4, <3>5 DEF S!Send, Sent
    <3>7. S!Next
      BY Zenon, <3>6 DEF S!Next
    <3> QED BY Zenon, <3>7
  <2>8. ASSUME NEW c \in Conn, ReceiverRuns(c) \/ PutMsg(c) \/ PutFails(c) PROVE [S!Next]_(S!streamVars)
    BY Zenon, <2>1, <2>8 DEF ReceiverRuns, MqInit, ReadMsg, ReadEnds, PutMsg, PutFails, ReceiverGoes
  <2>9. CASE UNCHANGED vars
    BY Zenon, <2>1, <2>9 DEF vars
  <2> QED BY Zenon, <2>2, <2>3, <2>4, <2>5, <2>6, <2>7, <2>8, <2>9 DEF Next, Environment
<1> QED BY <1>1, <1>2, Invariant, PTL DEF Spec, PrintsPrefix, S!Spec

-----------------------------------------------------------------------------
(* The arrays of ios_base.                                                 *)

Array == [block : Nat, size : Nat, cap : Nat]
Memory == Values \cup {0, Junk}

\* What a program has put into an array: values at some indices.
Words == UNION {[D -> Values] : D \in SUBSET Nat}

\* An array a has its block in the heap h, with room for cap words, and the
\* words of s are there.
Holds(h, a, s) ==
  /\ a.size <= a.cap /\ (a.block = 0 => a.cap = 0)
  /\ a.block # 0 => a.block \in DOMAIN h /\ h[a.block] \in [0..(a.cap - 1) -> Memory]
  /\ DOMAIN s \subseteq 0..(a.size - 1) /\ \A i \in DOMAIN s : h[a.block][i] = s[i]

\* 0 is no block, and each block belongs to one array.
HeapInv(h, ar) ==
  /\ DOMAIN h \subseteq Nat \ {0}
  /\ \A b \in DOMAIN h : \E x \in Streams, k \in Kinds : ar[x][k].block = b
  /\ \A x, y \in Streams, k, l \in Kinds :
       ar[x][k].block # 0 /\ ar[x][k].block = ar[y][l].block => x = y /\ k = l

ArraysInv(h, ar, st) ==
  /\ ar \in [Streams -> [Kinds -> Array]] /\ st \in [Streams -> [Kinds -> Words]]
  /\ HeapInv(h, ar) /\ \A x \in Streams, k \in Kinds : Holds(h, ar[x][k], st[x][k])

\* A stream that is not alive has nothing.
IosInv ==
  /\ ArraysInv(heap, array, stored) /\ alive \subseteq Streams /\ calls \in 0..MaxCalls
  /\ \A x \in Streams \ alive, k \in Kinds : array[x][k] = Empty

-----------------------------------------------------------------------------
\* A new block is none of those that stay.
LEMMA NewBlockIsNew ==
  ASSUME NEW h, NEW b, Available(h)
  PROVE  /\ NewBlock(Free(h, b)) \in Nat \ {0} /\ NewBlock(Free(h, b)) \notin DOMAIN h \ {b}
         /\ DOMAIN Free(h, b) = DOMAIN h \ {b} /\ \A d \in DOMAIN h \ {b} : Free(h, b)[d] = h[d]
<1>1. DOMAIN Free(h, b) = DOMAIN h \ {b} /\ \A d \in DOMAIN h \ {b} : Free(h, b)[d] = h[d]
  BY Zenon DEF Free
<1>2. \E c \in Addresses : c \notin DOMAIN Free(h, b)
  BY Zenon, <1>1 DEF Available
<1>3. NewBlock(Free(h, b)) \in Addresses /\ NewBlock(Free(h, b)) \notin DOMAIN Free(h, b)
  BY Zenon, <1>2 DEF NewBlock
<1> QED BY Zenon, <1>1, <1>3, IosAssumption

\* The words of a program that writes one more.
LEMMA MoreWords ==
  ASSUME NEW s \in Words, NEW i \in Nat, NEW v \in Values
  PROVE  With(s, i, v) \in Words
<1>1. PICK D \in SUBSET Nat : s \in [D -> Values]
  BY Zenon DEF Words
<1>2. D \cup {i} \in SUBSET Nat /\ With(s, i, v) \in [D \cup {i} -> Values]
  BY Zenon, <1>1 DEF With
<1> QED BY Zenon, <1>2 DEF Words

\* There is one way to have put in nothing.
LEMMA NoWords ==
  ASSUME NEW s \in Words, NEW t \in Words, DOMAIN s = {}, DOMAIN t = {} PROVE s = t
<1>1. PICK D \in SUBSET Nat : s \in [D -> Values]
  BY Zenon DEF Words
<1>2. PICK E \in SUBSET Nat : t \in [E -> Values]
  BY Zenon DEF Words
<1>3. s \in [{} -> Values] /\ t \in [{} -> Values]
  BY Zenon, <1>1, <1>2
<1> QED BY <1>3

\* One array of a stream is replaced, its block with it.
Replaced(h, g, a, n) ==
  /\ n.block \in Nat \ {0} /\ n.block \notin DOMAIN h \ {a.block}
  /\ DOMAIN g = (DOMAIN h \ {a.block}) \cup {n.block}
  /\ \A c \in DOMAIN h \ {a.block} : g[c] = h[c]

\* The other arrays do not notice.
LEMMA ReplaceKeeps ==
  ASSUME NEW h, NEW g, NEW ar, NEW st, NEW x \in Streams, NEW k \in Kinds, NEW n \in Array,
         NEW s \in Words, ArraysInv(h, ar, st), Replaced(h, g, ar[x][k], n), Holds(g, n, s)
  PROVE  ArraysInv(g, [ar EXCEPT ![x][k] = n], [st EXCEPT ![x][k] = s])
<1> DEFINE a == ar[x][k]
           br == [ar EXCEPT ![x][k] = n]
           tt == [st EXCEPT ![x][k] = s]
<1>1. /\ br \in [Streams -> [Kinds -> Array]] /\ tt \in [Streams -> [Kinds -> Words]]
      /\ br[x][k] = n /\ tt[x][k] = s
      /\ \A y \in Streams, l \in Kinds : ~(y = x /\ l = k) => br[y][l] = ar[y][l] /\ tt[y][l] = st[y][l]
  BY Zenon DEF ArraysInv
<1>2. ASSUME NEW y \in Streams, NEW l \in Kinds, ~(y = x /\ l = k), ar[y][l].block # 0
      PROVE  /\ ar[y][l].block \in DOMAIN h \ {a.block} /\ ar[y][l].block # n.block
             /\ g[ar[y][l].block] = h[ar[y][l].block]
  <2>1. ar[y][l].block \in DOMAIN h
    BY Zenon, <1>2 DEF ArraysInv, Holds
  <2>2. ar[y][l].block # a.block
    BY <1>2 DEF ArraysInv, HeapInv
  <2> QED BY Zenon, <2>1, <2>2 DEF Replaced
<1> HIDE DEF br, tt
<1>3. ASSUME NEW y \in Streams, NEW l \in Kinds PROVE Holds(g, br[y][l], tt[y][l])
  <2>1. CASE y = x /\ l = k
    BY Zenon, <1>1, <2>1
  <2>2. CASE ~(y = x /\ l = k)
    <3>1. br[y][l] = ar[y][l] /\ tt[y][l] = st[y][l] /\ Holds(h, ar[y][l], st[y][l])
      BY Zenon, <1>1, <2>2 DEF ArraysInv
    <3>2. CASE ar[y][l].block = 0
      <4>1. ar[y][l] \in Array
        BY Zenon DEF ArraysInv
      <4>2. ar[y][l].cap = 0 /\ ar[y][l].size = 0
        BY <3>1, <3>2, <4>1 DEF Holds, Array
      <4>3. DOMAIN st[y][l] = {}
        BY <3>1, <4>2 DEF Holds
      <4> QED BY Zenon, <3>1, <3>2, <4>3 DEF Holds
    <3>3. CASE ar[y][l].block # 0
      <4>1. g[ar[y][l].block] = h[ar[y][l].block] /\ ar[y][l].block \in DOMAIN g
        BY Zenon, <1>2, <2>2, <3>3 DEF Replaced
      <4> QED BY Zenon, <3>1, <4>1 DEF Holds
    <3> QED BY Zenon, <3>2, <3>3
  <2> QED BY Zenon, <2>1, <2>2
<1>4. HeapInv(g, br)
  <2>1. DOMAIN g \subseteq Nat \ {0}
    BY Zenon DEF Replaced, ArraysInv, HeapInv
  <2>2. ASSUME NEW b \in DOMAIN g PROVE \E y \in Streams, l \in Kinds : br[y][l].block = b
    <3>1. CASE b = n.block
      BY Zenon, <1>1, <3>1
    <3>2. CASE b # n.block
      <4>1. b \in DOMAIN h /\ b # a.block
        BY Zenon, <3>2 DEF Replaced
      <4>2. PICK y \in Streams, l \in Kinds : ar[y][l].block = b
        BY Zenon, <4>1 DEF ArraysInv, HeapInv
      <4>3. ~(y = x /\ l = k)
        BY Zenon, <4>1, <4>2
      <4> QED BY Zenon, <1>1, <4>2, <4>3
    <3> QED BY Zenon, <3>1, <3>2
  <2>3. ASSUME NEW y \in Streams, NEW z \in Streams, NEW l \in Kinds, NEW m \in Kinds,
               br[y][l].block # 0, br[y][l].block = br[z][m].block
        PROVE  y = z /\ l = m
    <3>1. CASE (y = x /\ l = k) /\ ~(z = x /\ m = k)
      BY <1>1, <1>2, <2>3, <3>1
    <3>2. CASE ~(y = x /\ l = k) /\ (z = x /\ m = k)
      BY <1>1, <1>2, <2>3, <3>2
    <3>3. CASE ~(y = x /\ l = k) /\ ~(z = x /\ m = k)
      BY <1>1, <2>3, <3>3 DEF ArraysInv, HeapInv
    <3> QED BY Zenon, <3>1, <3>2, <3>3
  <2> QED BY <2>1, <2>2, <2>3 DEF HeapInv
<1> QED BY Zenon, <1>1, <1>3, <1>4 DEF ArraysInv, br, tt

-----------------------------------------------------------------------------
\* The array a becomes n, with room for c words and the old ones in it.
Reallocated(h, g, a, n, c) ==
  /\ Replaced(h, g, a, n) /\ g[n.block] \in [0..(c - 1) -> Memory]
  /\ \A j \in 0..(a.cap - 1) : g[n.block][j] = h[a.block][j]

\* realloc() keeps what was there, and touches no other block.
LEMMA ReallocIs ==
  ASSUME NEW h, NEW a \in Array, NEW s, NEW c \in Nat, c >= a.cap, Holds(h, a, s),
         Available(h),
         NEW n \in Array, n.block = NewBlock(Free(h, a.block)), NEW g, g = Realloc(h, a, c)
  PROVE  Reallocated(h, g, a, n, c)
<1> DEFINE r == Free(h, a.block)
           b == NewBlock(r)
           old == Contents(h, a)
           w == [i \in 0..(c - 1) |-> IF i \in DOMAIN old THEN old[i] ELSE Junk]
<1>1. DOMAIN r = DOMAIN h \ {a.block} /\ \A d \in DOMAIN r : r[d] = h[d]
  BY Zenon DEF Free
<1>3. b \in Nat \ {0} /\ b \notin DOMAIN r
  BY Zenon, <1>1, NewBlockIsNew
<1>4. g = With(r, b, w)
  BY Zenon DEF Realloc
<1>5. a.block \in Nat /\ a.cap \in Nat /\ Junk \in Memory
  BY Zenon DEF Array, Memory
<1>6. /\ a.block # 0 => old = h[a.block] /\ old \in [0..(a.cap - 1) -> Memory]
      /\ a.block = 0 => a.cap = 0 /\ DOMAIN old = {}
  BY <1>5 DEF Holds, Contents
<1>7. w \in [0..(c - 1) -> Memory] /\ \A j \in 0..(a.cap - 1) : w[j] = h[a.block][j]
  <2> HIDE DEF old
  <2>1. CASE a.block # 0
    BY <1>5, <1>6, <2>1
  <2>2. CASE a.block = 0
    BY <1>5, <1>6, <2>2
  <2> QED BY Zenon, <2>1, <2>2
<1> HIDE DEF r, b, w
<1>8. DOMAIN g = DOMAIN r \cup {b} /\ g[b] = w /\ \A d \in DOMAIN r : g[d] = r[d]
  BY Zenon, <1>3, <1>4 DEF With
<1>9. n.block = b
  BY Zenon DEF b, r
<1> QED BY Zenon, <1>1, <1>3, <1>7, <1>8, <1>9 DEF Reallocated, Replaced

\* A word is written into the block that an array has, or has got.
LEMMA WriteHolds ==
  ASSUME NEW h, NEW g, NEW a \in Array, NEW n \in Array, NEW s \in Words, Holds(h, a, s),
         Replaced(h, g, a, n), g[n.block] \in [0..(n.cap - 1) -> Memory],
         \A j \in 0..(a.size - 1) : g[n.block][j] = h[a.block][j],
         NEW i \in Nat, i < n.size, a.size <= n.size, n.size <= n.cap, NEW v \in Values
  PROVE  LET f == [g EXCEPT ![n.block][i] = v]
         IN  Replaced(h, f, a, n) /\ Holds(f, n, With(s, i, v))
<1> DEFINE f == [g EXCEPT ![n.block][i] = v]
           w == [g[n.block] EXCEPT ![i] = v]
           t == With(s, i, v)
<1>0. DOMAIN t = DOMAIN s \cup {i} /\ t[i] = v /\ \A j \in DOMAIN s : j # i => t[j] = s[j]
  BY Zenon DEF With
<1>1. n.block \in DOMAIN g /\ n.block \in Nat \ {0}
  BY Zenon DEF Replaced
<1>2. /\ DOMAIN f = DOMAIN g /\ f[n.block] = w
      /\ \A c \in DOMAIN g : c # n.block => f[c] = g[c]
  BY Zenon, <1>1
<1>3. n.size \in Nat /\ n.cap \in Nat /\ a.size \in Nat /\ i \in 0..(n.cap - 1) /\ v \in Memory
  BY DEF Array, Memory
<1>4. /\ w \in [0..(n.cap - 1) -> Memory] /\ w[i] = v
      /\ \A j \in 0..(n.cap - 1) : j # i => w[j] = g[n.block][j]
  BY Zenon, <1>3
<1> HIDE DEF f, w, t
<1>5. Replaced(h, f, a, n)
  BY Zenon, <1>2 DEF Replaced
<1>6. DOMAIN t \subseteq 0..(n.size - 1)
  <2>1. DOMAIN s \subseteq 0..(a.size - 1)
    BY Zenon DEF Holds
  <2> QED BY <1>0, <1>3, <2>1
<1>7. ASSUME NEW j \in DOMAIN t PROVE f[n.block][j] = t[j]
  <2>1. CASE j = i
    BY Zenon, <1>0, <1>2, <1>4, <2>1
  <2>2. CASE j # i
    <3>1. j \in DOMAIN s /\ t[j] = s[j]
      BY Zenon, <1>0, <1>7, <2>2
    <3>2. j \in 0..(a.size - 1) /\ h[a.block][j] = s[j]
      BY Zenon, <3>1 DEF Holds
    <3>3. j \in 0..(n.cap - 1)
      BY <1>3, <3>2
    <3> QED BY Zenon, <1>2, <1>4, <2>2, <3>1, <3>2, <3>3
  <2> QED BY Zenon, <2>1, <2>2
<1>8. Holds(f, n, t)
  BY Zenon, <1>1, <1>2, <1>3, <1>4, <1>6, <1>7 DEF Holds
<1> QED BY Zenon, <1>5, <1>8 DEF f, t

\* iword and pword: the word is there, and so are the others.
LEMMA WordKeeps ==
  ASSUME ArraysInv(heap, array, stored), NEW x \in Streams, NEW k \in Kinds,
         NEW i \in Nat, NEW v \in Values, Word(x, k, i, v)
  PROVE  ArraysInv(heap, array, stored)'
<1> DEFINE a == array[x][k]
           s == stored[x][k]
           newcap == IF i + 1 > a.cap THEN Capacity(a, i + 1) ELSE a.cap
           grown == Realloc(heap, a, newcap)
           block == NewBlock(Free(heap, a.block))
           b == IF i + 1 > a.cap THEN block ELSE a.block
           n == [block |-> b, cap |-> newcap, size |-> IF i + 1 > a.size THEN i + 1 ELSE a.size]
           zeroed == [grown EXCEPT ![block] = Zeroed(@, a, newcap)]
           g == IF i + 1 > a.cap THEN zeroed ELSE heap
<1>1. /\ heap' = [g EXCEPT ![b][i] = v] /\ array' = [array EXCEPT ![x][k] = n]
      /\ stored' = [stored EXCEPT ![x][k] = With(@, i, v)]
  BY Zenon DEF Word
<1>2. a \in Array /\ s \in Words /\ Holds(heap, a, s)
  BY Zenon DEF ArraysInv
<1>3. Available(heap) /\ DOMAIN heap \subseteq Nat \ {0}
  BY Zenon DEF ArraysInv, HeapInv, Word
<1>4. With(s, i, v) \in Words
  BY Zenon, <1>2, MoreWords
<1>5. stored' = [stored EXCEPT ![x][k] = With(s, i, v)]
  BY Zenon, <1>1
<1> HIDE DEF a, s, grown
<1>6. a.size \in Nat /\ a.cap \in Nat /\ a.block \in Nat /\ a.size <= a.cap
  BY Zenon, <1>2 DEF Array, Holds
<1>7. newcap \in Nat /\ newcap >= a.cap /\ newcap >= i + 1
  BY <1>6 DEF Capacity
<1>8. CASE i + 1 > a.cap
  <2>1. block \in Nat
    BY Zenon, <1>3, NewBlockIsNew
  <2>2. n \in Array /\ n.cap = newcap /\ n.block = block /\ n.size >= a.size /\ n.size > i
        /\ n.size <= n.cap
    BY <1>6, <1>7, <1>8, <2>1 DEF Array
  <2> HIDE DEF newcap, block, n
  <2>3. /\ Replaced(heap, grown, a, n) /\ grown[n.block] \in [0..(newcap - 1) -> Memory]
        /\ \A j \in 0..(a.cap - 1) : grown[n.block][j] = heap[a.block][j]
    <3>1. n.block = NewBlock(Free(heap, a.block)) /\ grown = Realloc(heap, a, newcap)
      BY Zenon, <2>2 DEF grown, block
    <3>2. Reallocated(heap, grown, a, n, newcap)
      BY Zenon, <1>2, <1>3, <1>7, <2>2, <3>1, ReallocIs
    <3> QED BY Zenon, <3>2 DEF Reallocated
  <2>4. /\ Replaced(heap, zeroed, a, n) /\ zeroed[n.block] \in [0..(newcap - 1) -> Memory]
        /\ \A j \in 0..(a.size - 1) : zeroed[n.block][j] = heap[a.block][j]
    <3>1. n.block \in DOMAIN grown
      BY Zenon, <2>3 DEF Replaced
    <3>2. /\ DOMAIN zeroed = DOMAIN grown /\ zeroed[n.block] = Zeroed(grown[n.block], a, newcap)
          /\ \A c \in DOMAIN grown : c # n.block => zeroed[c] = grown[c]
      BY Zenon, <2>2, <3>1
    <3> HIDE DEF zeroed
    <3>3. Replaced(heap, zeroed, a, n)
      BY Zenon, <2>3, <3>2 DEF Replaced
    <3>4. 0 \in Memory
      BY Zenon DEF Memory
    <3>5. /\ Zeroed(grown[n.block], a, newcap) \in [0..(newcap - 1) -> Memory]
          /\ \A j \in 0..(newcap - 1) : j < a.size => Zeroed(grown[n.block], a, newcap)[j] = grown[n.block][j]
      <4> DEFINE w == grown[n.block]
      <4>1. w \in [0..(newcap - 1) -> Memory]
        BY Zenon, <2>3
      <4> HIDE DEF w
      <4> QED BY <1>6, <1>7, <3>4, <4>1 DEF Zeroed, w
    <3>6. \A j \in 0..(a.size - 1) : j \in 0..(newcap - 1) /\ j \in 0..(a.cap - 1) /\ j < a.size
      BY <1>6, <1>7
    <3> QED BY Zenon, <2>3, <3>2, <3>3, <3>5, <3>6
  <2>5. heap' = [zeroed EXCEPT ![n.block][i] = v]
    BY Zenon, <1>1, <1>8, <2>2
  <2> HIDE DEF zeroed
  <2>6. Replaced(heap, heap', a, n) /\ Holds(heap', n, With(s, i, v))
    BY Zenon, <1>2, <2>2, <2>4, <2>5, WriteHolds
  <2>7. ArraysInv(heap', [array EXCEPT ![x][k] = n], [stored EXCEPT ![x][k] = With(s, i, v)])
    BY Zenon, <1>4, <2>2, <2>6, ReplaceKeeps DEF a
  <2> QED BY Zenon, <1>1, <1>5, <2>7
<1>9. CASE ~(i + 1 > a.cap)
  <2>1. n \in Array /\ n.cap = a.cap /\ n.block = a.block /\ n.size >= a.size /\ n.size > i
        /\ n.size <= n.cap /\ a.block # 0
    BY <1>2, <1>6, <1>9 DEF Array, Holds
  <2>2. heap' = [heap EXCEPT ![n.block][i] = v]
    BY Zenon, <1>1, <1>9, <2>1
  <2> HIDE DEF n
  <2>3. Replaced(heap, heap, a, n) /\ heap[n.block] \in [0..(n.cap - 1) -> Memory]
    BY Zenon, <1>2, <1>3, <2>1 DEF Replaced, Holds
  <2>4. Replaced(heap, heap', a, n) /\ Holds(heap', n, With(s, i, v))
    BY Zenon, <1>2, <2>1, <2>2, <2>3, WriteHolds
  <2>5. ArraysInv(heap', [array EXCEPT ![x][k] = n], [stored EXCEPT ![x][k] = With(s, i, v)])
    BY Zenon, <1>4, <2>1, <2>4, ReplaceKeeps DEF a
  <2> QED BY Zenon, <1>1, <1>5, <2>5
<1> QED BY Zenon, <1>8, <1>9

\* A callback is behind the others, which stay.
LEMMA CallbackKeeps ==
  ASSUME ArraysInv(heap, array, stored), NEW x \in Streams, NEW v \in Values, register_callback(x, v)
  PROVE  ArraysInv(heap, array, stored)'
<1> DEFINE a == array[x]["fn"]
           s == stored[x]["fn"]
           full == a.size + 1 > a.cap
           newcap == IF full THEN Capacity(a, a.size + 1) ELSE a.cap
           b == IF full THEN NewBlock(Free(heap, a.block)) ELSE a.block
           g == IF full THEN Realloc(heap, a, newcap) ELSE heap
           n == [block |-> b, cap |-> newcap, size |-> a.size + 1]
<1>0. "fn" \in Kinds
  BY Zenon DEF Kinds
<1>1. /\ heap' = [g EXCEPT ![b][a.size] = v] /\ array' = [array EXCEPT ![x]["fn"] = n]
      /\ stored' = [stored EXCEPT ![x]["fn"] = With(@, a.size, v)]
  BY Zenon DEF register_callback
<1>2. a \in Array /\ s \in Words /\ Holds(heap, a, s)
  BY Zenon, <1>0 DEF ArraysInv
<1>3. Available(heap) /\ DOMAIN heap \subseteq Nat \ {0}
  BY Zenon DEF ArraysInv, HeapInv, register_callback
<1>5. stored' = [stored EXCEPT ![x]["fn"] = With(s, a.size, v)]
  BY Zenon, <1>1
<1> HIDE DEF a, s
<1>6. a.size \in Nat /\ a.cap \in Nat /\ a.block \in Nat /\ a.size <= a.cap
  BY Zenon, <1>2 DEF Array, Holds
<1>4. With(s, a.size, v) \in Words
  BY Zenon, <1>2, <1>6, MoreWords
<1>7. newcap \in Nat /\ newcap >= a.cap /\ newcap >= a.size + 1
  BY <1>6 DEF Capacity
<1>8. b \in Nat
  <2>1. NewBlock(Free(heap, a.block)) \in Nat
    BY Zenon, <1>3, NewBlockIsNew
  <2> QED BY Zenon, <1>6, <2>1
<1> HIDE DEF newcap, b
<1>9. /\ n \in Array /\ n.cap = newcap /\ n.block = b /\ n.size >= a.size /\ n.size > a.size
      /\ n.size <= n.cap
  <2>1. a.size + 1 \in Nat /\ a.size + 1 >= a.size /\ a.size + 1 > a.size /\ a.size + 1 <= newcap
    BY ONLY SMTT(30), <1>6, <1>7
  <2> QED BY Zenon, <1>7, <1>8, <2>1 DEF Array
<1> HIDE DEF n
<1>10. /\ Replaced(heap, g, a, n) /\ g[n.block] \in [0..(n.cap - 1) -> Memory]
       /\ \A j \in 0..(a.size - 1) : g[n.block][j] = heap[a.block][j]
  <2>1. CASE full
    <3>1. n.block = NewBlock(Free(heap, a.block)) /\ g = Realloc(heap, a, newcap)
      BY Zenon, <1>9, <2>1 DEF b
    <3> HIDE DEF g, full
    <3>2. Reallocated(heap, g, a, n, newcap)
      BY Zenon, <1>2, <1>3, <1>7, <1>9, <3>1, ReallocIs
    <3>3. \A j \in 0..(a.size - 1) : j \in 0..(a.cap - 1)
      BY <1>6
    <3> QED BY Zenon, <1>9, <3>2, <3>3 DEF Reallocated
  <2>2. CASE ~full
    <3>1. n.block = a.block /\ g = heap /\ n.cap = a.cap
      BY Zenon, <1>9, <2>2 DEF newcap, b
    <3>2. a.block # 0
      <4>1. a.cap # 0
        BY ONLY SMTT(30), <1>6, ~(a.size + 1 > a.cap), <2>2
      <4> QED BY Zenon, <1>2, <4>1 DEF Holds
    <3> HIDE DEF g, full
    <3> QED BY Zenon, <1>2, <1>3, <3>1, <3>2 DEF Replaced, Holds
  <2> QED BY Zenon, <2>1, <2>2
<1>11. heap' = [g EXCEPT ![n.block][a.size] = v]
  BY Zenon, <1>1, <1>9
<1> HIDE DEF g, full
<1>12. Replaced(heap, heap', a, n) /\ Holds(heap', n, With(s, a.size, v))
  BY Zenon, <1>2, <1>6, <1>9, <1>10, <1>11, WriteHolds
<1>13. ArraysInv(heap', [array EXCEPT ![x]["fn"] = n], [stored EXCEPT ![x]["fn"] = With(s, a.size, v)])
  BY Zenon, <1>0, <1>4, <1>9, <1>12, ReplaceKeeps DEF a
<1> QED BY Zenon, <1>1, <1>5, <1>13

-----------------------------------------------------------------------------
\* What is copied from one array to another is what the program put there.
LEMMA CopyKeeps ==
  ASSUME NEW h, NEW ar, NEW st, ArraysInv(h, ar, st), NEW x \in Streams, NEW y \in Streams,
         x # y, NEW k \in Kinds, Available(h), NEW c, c = Copied(h, ar[x][k], ar[y][k])
  PROVE  ArraysInv(c.heap, [ar EXCEPT ![x][k] = c.array], [st EXCEPT ![x][k] = st[y][k]])
<1> DEFINE a == ar[x][k]
           r == ar[y][k]
           s == st[y][k]
           rest == IF Room(a, r) THEN h ELSE Free(h, a.block)
           b == IF Room(a, r) THEN a.block ELSE NewBlock(rest)
           old == IF Room(a, r) THEN Contents(h, a) ELSE [i \in 0..(r.size - 1) |-> Junk]
           words == [i \in DOMAIN old |-> IF i < r.size THEN Contents(h, r)[i] ELSE old[i]]
           n == [block |-> b, size |-> r.size, cap |-> IF Room(a, r) THEN a.cap ELSE r.size]
<1>1. c.heap = (IF b = 0 THEN h ELSE With(rest, b, words)) /\ c.array = n
  BY Zenon DEF Copied
<1>2. a \in Array /\ r \in Array /\ s \in Words /\ Holds(h, a, st[x][k]) /\ Holds(h, r, s)
      /\ (a.block # 0 => r.block # a.block)
  BY DEF ArraysInv, HeapInv
<1>3. DOMAIN h \subseteq Nat \ {0}
  BY Zenon DEF ArraysInv, HeapInv
<1> HIDE DEF a, r, s
<1>4. /\ a.size \in Nat /\ a.cap \in Nat /\ a.block \in Nat
      /\ r.size \in Nat /\ r.cap \in Nat /\ r.block \in Nat /\ r.size <= r.cap
  BY Zenon, <1>2 DEF Array, Holds
<1>5. CASE b = 0
  <2>1. Room(a, r)
    <3> SUFFICES ASSUME ~Room(a, r) PROVE FALSE
      BY Zenon
    <3>1. NewBlock(Free(h, a.block)) # 0
      BY Zenon, NewBlockIsNew
    <3> QED BY Zenon, <1>5, <3>1
  <2>2. a.block = 0 /\ a.cap = 0 /\ a.size = 0 /\ r.size = 0
    <3>1. a.block = 0 /\ a.cap = 0 /\ a.size <= a.cap /\ r.size <= a.cap
      <4>1. a.cap >= r.size
        BY Zenon, <2>1 DEF Room
      <4>2. r.size <= a.cap
        BY ONLY SMTT(30), <1>4, <4>1
      <4> QED BY Zenon, <1>2, <1>5, <2>1, <4>2 DEF Holds
    <3> QED BY ONLY SMTT(30), <1>4, <3>1
  <2>3. n = a
    BY Zenon, <1>2, <1>5, <2>1, <2>2 DEF Array
  <2>4. st[x][k] = s
    <3>1. DOMAIN st[x][k] \subseteq 0..(0 - 1) /\ DOMAIN s \subseteq 0..(0 - 1)
      BY Zenon, <1>2, <2>2 DEF Holds
    <3>2. DOMAIN st[x][k] = {} /\ DOMAIN s = {}
      <4>1. 0..(0 - 1) = {}
        OBVIOUS
      <4> QED BY Zenon, <3>1, <4>1
    <3>3. st[x][k] \in Words
      BY Zenon DEF ArraysInv
    <3> QED BY Zenon, <1>2, <3>2, <3>3, NoWords
  <2>5. [ar EXCEPT ![x][k] = n] = ar /\ [st EXCEPT ![x][k] = s] = st
    <3> HIDE DEF n
    <3> QED BY Zenon, <2>3, <2>4 DEF a, s, ArraysInv
  <2> QED BY Zenon, <1>1, <1>5, <2>5 DEF s
<1>6. CASE b # 0
  <2> DEFINE g == With(rest, b, words)
  <2>1. /\ Replaced(h, g, a, n) /\ g[b] = words /\ n \in Array
    <3>1. CASE Room(a, r)
      <4>1. b = a.block /\ rest = h /\ n \in Array
        BY Zenon, <1>4, <3>1 DEF Array
      <4>2. a.block \in DOMAIN h
        BY Zenon, <1>2, <1>6, <4>1 DEF Holds
      <4> HIDE DEF words, rest
      <4>3. DOMAIN g = DOMAIN h /\ g[b] = words /\ \A d \in DOMAIN h : d # b => g[d] = h[d]
        BY Zenon, <4>1, <4>2 DEF With
      <4>4. n.block = a.block
        BY Zenon, <4>1
      <4> HIDE DEF g, n
      <4> QED BY Zenon, <1>3, <4>1, <4>2, <4>3, <4>4 DEF Replaced
    <3>2. CASE ~Room(a, r)
      <4>1. b = NewBlock(rest) /\ rest = Free(h, a.block)
        BY Zenon, <3>2
      <4> HIDE DEF words, rest, b
      <4>2. DOMAIN rest = DOMAIN h \ {a.block} /\ \A d \in DOMAIN rest : rest[d] = h[d]
        BY Zenon, <4>1 DEF Free
      <4>4. b \in Nat \ {0} /\ b \notin DOMAIN rest
        BY Zenon, <4>1, <4>2, NewBlockIsNew
      <4>5. DOMAIN g = DOMAIN rest \cup {b} /\ g[b] = words /\ \A d \in DOMAIN rest : g[d] = rest[d]
        BY Zenon, <4>4 DEF With
      <4>6. n.block = b /\ n \in Array
        BY Zenon, <1>4, <4>4 DEF Array
      <4> HIDE DEF g, n
      <4> QED BY Zenon, <4>2, <4>4, <4>5, <4>6 DEF Replaced
    <3> QED BY Zenon, <3>1, <3>2
  <2>2. n.block = b /\ n.size = r.size /\ n.cap \in Nat /\ n.size <= n.cap
    BY <1>4 DEF Room
  <2>3. /\ words \in [0..(n.cap - 1) -> Memory]
        /\ \A i \in 0..(r.size - 1) : words[i] = h[r.block][i]
    <3>1. DOMAIN old = 0..(n.cap - 1) /\ \A i \in DOMAIN old : old[i] \in Memory
      <4>1. CASE Room(a, r)
        <5>1. old = h[a.block] /\ n.cap = a.cap /\ a.block # 0
          BY Zenon, <1>6, <4>1 DEF Contents
        <5>2. h[a.block] \in [0..(a.cap - 1) -> Memory]
          BY Zenon, <1>2, <5>1 DEF Holds
        <5> HIDE DEF old, n
        <5> QED BY Zenon, <5>1, <5>2
      <4>2. CASE ~Room(a, r)
        BY Zenon, <4>2 DEF Memory
      <4> QED BY Zenon, <4>1, <4>2
    <3>2. ASSUME NEW i \in 0..(r.size - 1)
          PROVE  Contents(h, r)[i] = h[r.block][i] /\ h[r.block][i] \in Memory
      <4>1. r.block # 0 /\ i \in 0..(r.cap - 1)
        BY <1>2, <1>4 DEF Holds
      <4>2. h[r.block] \in [0..(r.cap - 1) -> Memory]
        BY Zenon, <1>2, <4>1 DEF Holds
      <4> QED BY Zenon, <4>1, <4>2 DEF Contents
    <3> HIDE DEF old, n
    <3>3. \A i \in 0..(n.cap - 1) : i < r.size => i \in 0..(r.size - 1)
      BY <1>4, <2>2
    <3>4. \A i \in 0..(r.size - 1) : i \in 0..(n.cap - 1) /\ i < r.size
      BY <1>4, <2>2
    <3>5. \A i \in 0..(n.cap - 1) : words[i] \in Memory
      BY Zenon, <3>1, <3>2, <3>3
    <3>6. \A i \in 0..(r.size - 1) : words[i] = h[r.block][i]
      BY Zenon, <3>1, <3>2, <3>4
    <3>7. words = [i \in 0..(n.cap - 1) |-> words[i]]
      BY Zenon, <3>1
    <3> HIDE DEF words
    <3>8. words \in [0..(n.cap - 1) -> Memory]
      BY Zenon, <3>5, <3>7
    <3> QED BY Zenon, <3>6, <3>8
  <2> HIDE DEF words, g, n, b
  <2>4. Holds(g, n, s)
    <3>1. DOMAIN s \subseteq 0..(r.size - 1) /\ \A i \in DOMAIN s : h[r.block][i] = s[i]
      BY Zenon, <1>2 DEF Holds
    <3>2. n.block \in DOMAIN g /\ n.block # 0
      BY Zenon, <2>1 DEF Replaced
    <3> QED BY Zenon, <2>1, <2>2, <2>3, <3>1, <3>2 DEF Holds
  <2>5. c.heap = g
    BY Zenon, <1>1, <1>6 DEF g
  <2>6. ArraysInv(g, [ar EXCEPT ![x][k] = n], [st EXCEPT ![x][k] = s])
    BY Zenon, <1>2, <2>1, <2>4, ReplaceKeeps DEF a
  <2> QED BY Zenon, <1>1, <2>5, <2>6 DEF s
<1> QED BY Zenon, <1>5, <1>6

\* The copy of a stream's format copies its three arrays, one after the other.
LEMMA CopyfmtKeeps ==
  ASSUME ArraysInv(heap, array, stored), NEW x \in Streams, NEW y \in Streams, copyfmt(x, y)
  PROVE  ArraysInv(heap, array, stored)'
<1> DEFINE f == Copied(heap, array[x]["fn"], array[y]["fn"])
           i == Copied(f.heap, array[x]["iarray"], array[y]["iarray"])
           p == Copied(i.heap, array[x]["parray"], array[y]["parray"])
           new == [k \in Kinds |-> CASE k = "fn" -> f.array [] k = "iarray" -> i.array
                                     [] k = "parray" -> p.array]
           ar1 == [array EXCEPT ![x]["fn"] = f.array]
           st1 == [stored EXCEPT ![x]["fn"] = stored[y]["fn"]]
           ar2 == [ar1 EXCEPT ![x]["iarray"] = i.array]
           st2 == [st1 EXCEPT ![x]["iarray"] = stored[y]["iarray"]]
           ar3 == [ar2 EXCEPT ![x]["parray"] = p.array]
           st3 == [st2 EXCEPT ![x]["parray"] = stored[y]["parray"]]
<1>1. /\ heap' = p.heap /\ array' = [array EXCEPT ![x] = new]
      /\ stored' = [stored EXCEPT ![x] = stored[y]] /\ x # y
      /\ Available(heap) /\ Available(f.heap) /\ Available(i.heap)
  BY Zenon DEF copyfmt
<1>2. f = Copied(heap, array[x]["fn"], array[y]["fn"])
  BY Zenon
<1>3. i = Copied(f.heap, array[x]["iarray"], array[y]["iarray"])
  BY Zenon
<1>4. p = Copied(i.heap, array[x]["parray"], array[y]["parray"])
  BY Zenon
<1> HIDE DEF f, i, p
<1>5. Kinds = {"fn", "iarray", "parray"} /\ "fn" \in Kinds /\ "iarray" \in Kinds /\ "parray" \in Kinds
  BY Zenon DEF Kinds
<1>6. /\ array \in [Streams -> [Kinds -> Array]] /\ stored \in [Streams -> [Kinds -> Words]]
      /\ DOMAIN array = Streams /\ DOMAIN stored = Streams
      /\ \A z \in Streams : DOMAIN array[z] = Kinds /\ DOMAIN stored[z] = Kinds
  BY Zenon DEF ArraysInv
<1>7. ArraysInv(f.heap, ar1, st1)
  BY Zenon, <1>1, <1>2, <1>5, CopyKeeps
<1>8. /\ ar1[x]["iarray"] = array[x]["iarray"] /\ ar1[y] = array[y] /\ st1[y] = stored[y]
      /\ ar1[x]["parray"] = array[x]["parray"]
  BY Zenon, <1>1, <1>5, <1>6
<1>9. ArraysInv(i.heap, ar2, st2)
  <2> HIDE DEF ar1, st1
  <2>1. i = Copied(f.heap, ar1[x]["iarray"], ar1[y]["iarray"])
    BY Zenon, <1>3, <1>8
  <2>2. st2 = [st1 EXCEPT ![x]["iarray"] = st1[y]["iarray"]]
    BY Zenon, <1>8
  <2>3. ArraysInv(i.heap, ar2, [st1 EXCEPT ![x]["iarray"] = st1[y]["iarray"]])
    BY Zenon, <1>1, <1>5, <1>7, <2>1, CopyKeeps
  <2> HIDE DEF ar2, st2
  <2> QED BY Zenon, <2>2, <2>3
<1>10. /\ ar2[x]["parray"] = array[x]["parray"] /\ ar2[y] = array[y] /\ st2[y] = stored[y]
  BY Zenon, <1>1, <1>5, <1>6, <1>8
<1>11. ArraysInv(p.heap, ar3, st3)
  <2> HIDE DEF ar1, st1, ar2, st2
  <2>1. p = Copied(i.heap, ar2[x]["parray"], ar2[y]["parray"])
    BY Zenon, <1>4, <1>10
  <2>2. st3 = [st2 EXCEPT ![x]["parray"] = st2[y]["parray"]]
    BY Zenon, <1>10
  <2>3. ArraysInv(p.heap, ar3, [st2 EXCEPT ![x]["parray"] = st2[y]["parray"]])
    BY Zenon, <1>1, <1>5, <1>9, <2>1, CopyKeeps
  <2> HIDE DEF ar3, st3
  <2> QED BY Zenon, <2>2, <2>3
<1>12. ar3 = [array EXCEPT ![x] = new]
  <2>1. /\ ar3 = [z \in Streams |-> IF z = x THEN ar3[x] ELSE array[z]]
        /\ ar3[x] = [[[array[x] EXCEPT !["fn"] = f.array] EXCEPT !["iarray"] = i.array]
                       EXCEPT !["parray"] = p.array]
    BY Zenon, <1>6
  <2>2. ar3[x] = new
    <3> DEFINE e == [[[array[x] EXCEPT !["fn"] = f.array] EXCEPT !["iarray"] = i.array]
                       EXCEPT !["parray"] = p.array]
    <3>1. e = new
      BY Zenon, <1>5, <1>6
    <3> QED BY Zenon, <2>1, <3>1
  <2> HIDE DEF new, ar3
  <2> QED BY Zenon, <1>6, <2>1, <2>2
<1>13. st3 = [stored EXCEPT ![x] = stored[y]]
  <2>1. /\ st3 = [z \in Streams |-> IF z = x THEN st3[x] ELSE stored[z]]
        /\ st3[x] = [[[stored[x] EXCEPT !["fn"] = stored[y]["fn"]]
                        EXCEPT !["iarray"] = stored[y]["iarray"]] EXCEPT !["parray"] = stored[y]["parray"]]
    BY Zenon, <1>6
  <2>2. st3[x] = stored[y]
    <3> DEFINE e == [[[stored[x] EXCEPT !["fn"] = stored[y]["fn"]]
                        EXCEPT !["iarray"] = stored[y]["iarray"]] EXCEPT !["parray"] = stored[y]["parray"]]
    <3>1. e = stored[y]
      BY <1>5, <1>6
    <3> QED BY Zenon, <2>1, <3>1
  <2> HIDE DEF st3
  <2> QED BY Zenon, <1>6, <2>1, <2>2
<1> QED BY Zenon, <1>1, <1>11, <1>12, <1>13

-----------------------------------------------------------------------------
\* A stream without arrays.
NoArrays == [k \in Kinds |-> Empty]

\* Nothing of the heap is needed for it.
LEMMA EmptyHolds == ASSUME NEW h PROVE Empty \in Array /\ <<>> \in Words /\ Holds(h, Empty, <<>>)
<1>1. <<>> \in [{} -> Values] /\ DOMAIN <<>> = {}
  OBVIOUS
<1>2. <<>> \in Words
  BY Zenon, <1>1 DEF Words
<1>3. Empty \in Array /\ Empty.block = 0 /\ Empty.cap = 0 /\ Empty.size = 0
  BY Zenon DEF Empty, Array
<1> QED BY <1>1, <1>2, <1>3 DEF Holds

\* A stream that has nothing is given nothing.
LEMMA InitKeeps ==
  ASSUME IosInv, NEW x \in Streams, init(x) PROVE ArraysInv(heap, array, stored)'
<1>1. /\ array' = [array EXCEPT ![x] = NoArrays] /\ stored' = [stored EXCEPT ![x] = Nothing]
      /\ heap' = heap /\ x \notin alive
  BY Zenon DEF init, NoArrays
<1>2. /\ array \in [Streams -> [Kinds -> Array]] /\ stored \in [Streams -> [Kinds -> Words]]
      /\ \A k \in Kinds : array[x][k] = Empty
  BY Zenon, <1>1 DEF IosInv, ArraysInv
<1>3. array[x] = NoArrays
  BY Zenon, <1>2 DEF NoArrays
<1>4. array' = array
  BY Zenon, <1>1, <1>2, <1>3
<1>5. /\ stored' \in [Streams -> [Kinds -> Words]] /\ \A k \in Kinds : stored'[x][k] = <<>>
      /\ \A y \in Streams, k \in Kinds : y # x => stored'[y][k] = stored[y][k]
  BY Zenon, <1>1, <1>2, EmptyHolds DEF Nothing
<1>6. ASSUME NEW y \in Streams, NEW k \in Kinds PROVE Holds(heap, array[y][k], stored'[y][k])
  <2>1. CASE y = x
    BY Zenon, <1>2, <1>5, <2>1, EmptyHolds
  <2>2. CASE y # x
    BY Zenon, <1>5, <2>2 DEF IosInv, ArraysInv
  <2> QED BY Zenon, <2>1, <2>2
<1>7. ArraysInv(heap, array, stored')
  BY Zenon, <1>2, <1>5, <1>6 DEF IosInv, ArraysInv
<1> QED BY Zenon, <1>1, <1>4, <1>7

\* Two streams exchange what they have.
Exchanged(f, x, y) == [f EXCEPT ![x] = f[y], ![y] = f[x]]

LEMMA ExchangeKeeps ==
  ASSUME NEW h, NEW ar, NEW st, ArraysInv(h, ar, st), NEW x \in Streams, NEW y \in Streams, x # y
  PROVE  ArraysInv(h, Exchanged(ar, x, y), Exchanged(st, x, y))
<1> DEFINE br == Exchanged(ar, x, y)
           tt == Exchanged(st, x, y)
           o(z) == IF z = x THEN y ELSE IF z = y THEN x ELSE z
<1>1. /\ br \in [Streams -> [Kinds -> Array]] /\ tt \in [Streams -> [Kinds -> Words]]
      /\ \A z \in Streams : br[z] = ar[o(z)] /\ tt[z] = st[o(z)]
  BY Zenon DEF ArraysInv, Exchanged
<1>2. \A z \in Streams : o(z) \in Streams /\ o(o(z)) = z
  BY Zenon
<1> HIDE DEF br, tt, o
<1>3. \A z \in Streams, k \in Kinds : Holds(h, br[z][k], tt[z][k])
  BY Zenon, <1>1, <1>2 DEF ArraysInv
<1>4. ASSUME NEW b \in DOMAIN h PROVE \E z \in Streams, k \in Kinds : br[z][k].block = b
  <2>1. PICK z \in Streams, k \in Kinds : ar[z][k].block = b
    BY Zenon DEF ArraysInv, HeapInv
  <2>2. o(z) \in Streams /\ o(o(z)) = z
    BY Zenon, <1>2
  <2>3. br[o(z)] = ar[z]
    BY Zenon, <1>1, <2>2
  <2> QED BY Zenon, <2>1, <2>2, <2>3
<1>5. ASSUME NEW z \in Streams, NEW w \in Streams, NEW k \in Kinds, NEW l \in Kinds,
             br[z][k].block # 0, br[z][k].block = br[w][l].block
      PROVE  z = w /\ k = l
  <2>1. ar[o(z)][k].block # 0 /\ ar[o(z)][k].block = ar[o(w)][l].block
    BY Zenon, <1>1, <1>5
  <2>2. o(z) = o(w) /\ k = l
    BY <1>2, <2>1 DEF ArraysInv, HeapInv
  <2> QED BY Zenon, <1>2, <2>2
<1>6. HeapInv(h, br)
  BY <1>4, <1>5 DEF ArraysInv, HeapInv
<1> QED BY Zenon, <1>1, <1>3, <1>6 DEF ArraysInv, br, tt

\* swap exchanges two streams.
LEMMA SwapKeeps ==
  ASSUME ArraysInv(heap, array, stored), NEW x \in Streams, NEW y \in Streams, swap(x, y)
  PROVE  ArraysInv(heap, array, stored)'
<1>1. heap' = heap /\ array' = Exchanged(array, x, y) /\ stored' = Exchanged(stored, x, y) /\ x # y
  BY Zenon DEF swap, Exchanged
<1>2. ArraysInv(heap, Exchanged(array, x, y), Exchanged(stored, x, y))
  BY Zenon, <1>1, ExchangeKeeps
<1> QED BY Zenon, <1>1, <1>2

\* move exchanges a stream with one that has nothing.
LEMMA MoveKeeps ==
  ASSUME IosInv, NEW x \in Streams, NEW y \in Streams, move(x, y)
  PROVE  ArraysInv(heap, array, stored)' /\ array' = Exchanged(array, x, y)
<1>1. /\ array' = [array EXCEPT ![x] = array[y], ![y] = NoArrays] /\ heap' = heap
      /\ stored' = [stored EXCEPT ![x] = stored[y], ![y] = Nothing] /\ x \notin alive /\ y \in alive
  BY Zenon DEF move, NoArrays
<1>2. /\ array \in [Streams -> [Kinds -> Array]] /\ stored \in [Streams -> [Kinds -> Words]]
      /\ \A k \in Kinds : array[x][k] = Empty /\ Holds(heap, array[x][k], stored[x][k])
  BY Zenon, <1>1 DEF IosInv, ArraysInv
<1>3. array[x] = NoArrays
  BY Zenon, <1>2 DEF NoArrays
<1>4. ASSUME NEW k \in Kinds PROVE stored[x][k] = <<>>
  <2>1. DOMAIN stored[x][k] \subseteq 0..(Empty.size - 1)
    BY Zenon, <1>2 DEF Holds
  <2>2. 0..(Empty.size - 1) = {} /\ DOMAIN <<>> = {}
    BY DEF Empty
  <2>3. stored[x][k] \in Words /\ <<>> \in Words
    BY ZenonT(30), <1>2, EmptyHolds
  <2>4. DOMAIN stored[x][k] = {}
    BY Zenon, <2>1, <2>2
  <2> QED BY Zenon, <2>2, <2>3, <2>4, NoWords
<1>5. stored[x] = Nothing
  BY Zenon, <1>2, <1>4 DEF Nothing
<1>6. array' = Exchanged(array, x, y) /\ stored' = Exchanged(stored, x, y) /\ x # y
  BY Zenon, <1>1, <1>3, <1>5 DEF Exchanged
<1>7. ArraysInv(heap, Exchanged(array, x, y), Exchanged(stored, x, y))
  BY Zenon, <1>6, ExchangeKeeps DEF IosInv
<1> QED BY Zenon, <1>1, <1>6, <1>7

\* The destructor frees the blocks of its stream and no other.
LEMMA DestroyKeeps ==
  ASSUME ArraysInv(heap, array, stored), NEW x \in Streams, DestroyStream(x)
  PROVE  ArraysInv(heap, array, stored)'
<1> DEFINE own == {array[x][k].block : k \in Kinds}
           g == [b \in DOMAIN heap \ own |-> heap[b]]
           br == [array EXCEPT ![x] = NoArrays]
           tt == [stored EXCEPT ![x] = Nothing]
<1>1. heap' = g /\ array' = br /\ stored' = tt
  BY Zenon DEF DestroyStream, NoArrays
<1>2. /\ array \in [Streams -> [Kinds -> Array]] /\ stored \in [Streams -> [Kinds -> Words]]
      /\ HeapInv(heap, array) /\ \A y \in Streams, k \in Kinds : Holds(heap, array[y][k], stored[y][k])
  BY Zenon DEF ArraysInv
<1>3. /\ br \in [Streams -> [Kinds -> Array]] /\ tt \in [Streams -> [Kinds -> Words]]
      /\ \A k \in Kinds : br[x][k] = Empty /\ tt[x][k] = <<>>
      /\ \A y \in Streams, k \in Kinds : y # x => br[y][k] = array[y][k] /\ tt[y][k] = stored[y][k]
  BY Zenon, <1>2, EmptyHolds DEF NoArrays, Nothing
<1>4. DOMAIN g = DOMAIN heap \ own /\ \A b \in DOMAIN g : g[b] = heap[b]
  BY Zenon
<1> HIDE DEF br, tt, g
<1>5. ASSUME NEW y \in Streams, NEW k \in Kinds, y # x, array[y][k].block # 0
      PROVE  array[y][k].block \in DOMAIN g
  <2>1. array[y][k].block \in DOMAIN heap
    BY Zenon, <1>2, <1>5 DEF Holds
  <2>2. array[y][k].block \notin own
    BY <1>2, <1>5 DEF HeapInv
  <2> QED BY Zenon, <1>4, <2>1, <2>2
<1>6. ASSUME NEW y \in Streams, NEW k \in Kinds PROVE Holds(g, br[y][k], tt[y][k])
  <2>1. CASE y = x
    BY Zenon, <1>3, <2>1, EmptyHolds
  <2>2. CASE y # x
    <3>1. br[y][k] = array[y][k] /\ tt[y][k] = stored[y][k] /\ Holds(heap, array[y][k], stored[y][k])
      BY Zenon, <1>2, <1>3, <2>2
    <3>2. CASE array[y][k].block = 0
      <4>1. array[y][k].size = 0
        BY <1>2, <3>1, <3>2 DEF Array, Holds
      <4>2. DOMAIN stored[y][k] \subseteq 0..(0 - 1)
        BY Zenon, <3>1, <4>1 DEF Holds
      <4>3. 0..(0 - 1) = {}
        OBVIOUS
      <4> QED BY Zenon, <3>1, <3>2, <4>2, <4>3 DEF Holds
    <3>3. CASE array[y][k].block # 0
      BY Zenon, <1>4, <1>5, <2>2, <3>1, <3>3 DEF Holds
    <3> QED BY Zenon, <3>2, <3>3
  <2> QED BY Zenon, <2>1, <2>2
<1>7. HeapInv(g, br)
  <2>1. DOMAIN g \subseteq Nat \ {0}
    BY Zenon, <1>2, <1>4 DEF HeapInv
  <2>2. ASSUME NEW b \in DOMAIN g PROVE \E y \in Streams, k \in Kinds : br[y][k].block = b
    <3>1. PICK y \in Streams, k \in Kinds : array[y][k].block = b
      BY Zenon, <1>2, <1>4 DEF HeapInv
    <3>2. y # x
      BY Zenon, <1>4, <3>1
    <3> QED BY Zenon, <1>3, <3>1, <3>2
  <2>3. ASSUME NEW y \in Streams, NEW z \in Streams, NEW k \in Kinds, NEW l \in Kinds,
               br[y][k].block # 0, br[y][k].block = br[z][l].block
        PROVE  y = z /\ k = l
    <3>1. Empty.block = 0
      BY Zenon DEF Empty
    <3>2. y # x /\ z # x
      BY Zenon, <1>3, <2>3, <3>1
    <3> QED BY <1>2, <1>3, <2>3, <3>2 DEF HeapInv
  <2> QED BY <2>1, <2>2, <2>3 DEF HeapInv
<1>8. ArraysInv(g, br, tt)
  BY Zenon, <1>3, <1>6, <1>7 DEF ArraysInv
<1> QED BY Zenon, <1>1, <1>8

-----------------------------------------------------------------------------
\* Every call keeps the invariant.
LEMMA IosStep == ASSUME IosInv, [IosNext]_iosVars PROVE IosInv'
<1> DEFINE Rest == /\ alive' \subseteq Streams /\ calls' \in 0..MaxCalls
                   /\ \A z \in Streams \ alive', k \in Kinds : array'[z][k] = Empty
<1>1. /\ ArraysInv(heap, array, stored) /\ alive \subseteq Streams /\ calls \in 0..MaxCalls
      /\ array \in [Streams -> [Kinds -> Array]]
      /\ \A z \in Streams \ alive, k \in Kinds : array[z][k] = Empty
  BY Zenon DEF IosInv, ArraysInv
<1>2. ASSUME Call PROVE calls' \in 0..MaxCalls
  BY <1>1, <1>2, IosAssumption DEF Call
<1>3. SUFFICES ArraysInv(heap, array, stored)' /\ Rest
  BY Zenon DEF IosInv
<1>4. CASE UNCHANGED iosVars
  <2>1. heap' = heap /\ array' = array /\ stored' = stored /\ alive' = alive /\ calls' = calls
    BY Zenon, <1>4 DEF iosVars
  <2> QED BY Zenon, <1>1, <2>1
<1>5. ASSUME NEW x \in Streams, NEW k \in Kinds, NEW n, x \in alive, alive' = alive,
             array' = [array EXCEPT ![x][k] = n], Call
      PROVE  Rest
  <2>1. \A z \in Streams \ alive : array'[z] = array[z]
    BY Zenon, <1>1, <1>5
  <2> QED BY Zenon, <1>1, <1>2, <1>5, <2>1
<1>6. ASSUME NEW x \in Streams, NEW n, x \in alive' \/ n = NoArrays, array' = [array EXCEPT ![x] = n],
             alive' = alive \/ alive' = alive \cup {x} \/ alive' = alive \ {x},
             calls' = calls \/ Call
      PROVE  Rest
  <2>1. /\ \A z \in Streams : z # x => array'[z] = array[z] /\ (z \in alive' <=> z \in alive)
        /\ array'[x] = n
    BY Zenon, <1>1, <1>6
  <2>2. alive' \subseteq Streams /\ calls' \in 0..MaxCalls
    BY Zenon, <1>1, <1>2, <1>6
  <2>3. n = NoArrays => \A k \in Kinds : n[k] = Empty
    BY Zenon DEF NoArrays
  <2> QED BY Zenon, <1>1, <1>6, <2>1, <2>2, <2>3
<1>7. ASSUME NEW x \in Streams, init(x) PROVE ArraysInv(heap, array, stored)' /\ Rest
  <2>1. /\ array' = [array EXCEPT ![x] = NoArrays] /\ alive' = alive \cup {x} /\ calls' = calls
    BY Zenon, <1>7 DEF init, NoArrays
  <2> QED BY Zenon, <1>6, <1>7, <2>1, InitKeeps
<1>8. ASSUME NEW x \in Streams, DestroyStream(x) PROVE ArraysInv(heap, array, stored)' /\ Rest
  <2>1. /\ array' = [array EXCEPT ![x] = NoArrays] /\ alive' = alive \ {x} /\ calls' = calls
    BY Zenon, <1>8 DEF DestroyStream, NoArrays
  <2> QED BY Zenon, <1>1, <1>6, <1>8, <2>1, DestroyKeeps
<1>9. ASSUME NEW x \in Streams, NEW v \in Values, register_callback(x, v)
      PROVE  ArraysInv(heap, array, stored)' /\ Rest
  <2>1. "fn" \in Kinds
    BY Zenon DEF Kinds
  <2>2. \E n : array' = [array EXCEPT ![x]["fn"] = n]
    BY Zenon, <1>9 DEF register_callback
  <2>3. x \in alive /\ alive' = alive /\ Call
    BY Zenon, <1>9 DEF register_callback
  <2> QED BY Zenon, <1>1, <1>5, <1>9, <2>1, <2>2, <2>3, CallbackKeeps
<1>10. ASSUME NEW x \in Streams, NEW k \in Kinds, NEW i \in 0..MaxIndex, NEW v \in Values, Word(x, k, i, v)
       PROVE  ArraysInv(heap, array, stored)' /\ Rest
  <2>1. i \in Nat
    BY IosAssumption
  <2>2. \E n : array' = [array EXCEPT ![x][k] = n]
    BY Zenon, <1>10 DEF Word
  <2>3. x \in alive /\ alive' = alive /\ Call
    BY Zenon, <1>10 DEF Word
  <2> QED BY Zenon, <1>1, <1>5, <1>10, <2>1, <2>2, <2>3, WordKeeps
<1>11. ASSUME NEW x \in Streams, NEW y \in Streams, copyfmt(x, y)
       PROVE  ArraysInv(heap, array, stored)' /\ Rest
  <2>1. \E n : array' = [array EXCEPT ![x] = n]
    BY Zenon, <1>11 DEF copyfmt
  <2>2. x \in alive /\ alive' = alive /\ Call
    BY Zenon, <1>11 DEF copyfmt
  <2> QED BY Zenon, <1>1, <1>6, <1>11, <2>1, <2>2, CopyfmtKeeps
<1>12. ASSUME NEW x \in Streams, NEW y \in Streams, move(x, y) PROVE ArraysInv(heap, array, stored)' /\ Rest
  <2>1. y \in alive /\ alive' = alive \cup {x} /\ Call
    BY Zenon, <1>12 DEF move
  <2>2. ArraysInv(heap, array, stored)' /\ array' = Exchanged(array, x, y)
    BY Zenon, <1>12, MoveKeeps
  <2>3. alive' \subseteq Streams /\ calls' \in 0..MaxCalls
    BY Zenon, <1>1, <1>2, <2>1
  <2>4. ASSUME NEW z \in Streams \ alive', NEW k \in Kinds PROVE array'[z][k] = Empty
    <3>1. z # x /\ z # y /\ z \notin alive
      BY Zenon, <2>1
    <3>2. array'[z] = array[z]
      BY ZenonT(30), <1>1, <2>2, <3>1 DEF Exchanged
    <3> QED BY ZenonT(30), <1>1, <3>1, <3>2
  <2> QED BY Zenon, <2>2, <2>3, <2>4
<1>13. ASSUME NEW x \in Streams, NEW y \in Streams, swap(x, y) PROVE ArraysInv(heap, array, stored)' /\ Rest
  <2>1. x \in alive /\ y \in alive /\ alive' = alive /\ Call /\ array' = Exchanged(array, x, y)
    BY Zenon, <1>13 DEF swap, Exchanged
  <2>2. calls' \in 0..MaxCalls
    BY Zenon, <1>2, <2>1
  <2>3. ASSUME NEW z \in Streams \ alive', NEW k \in Kinds PROVE array'[z][k] = Empty
    <3>1. z # x /\ z # y /\ z \notin alive
      BY Zenon, <2>1
    <3>2. array'[z] = array[z]
      BY ZenonT(30), <1>1, <2>1, <3>1 DEF Exchanged
    <3> QED BY ZenonT(30), <1>1, <3>1, <3>2
  <2> QED BY Zenon, <1>1, <1>13, <2>1, <2>2, <2>3, SwapKeeps
<1>14. "iarray" \in Kinds /\ "parray" \in Kinds
  BY Zenon DEF Kinds
<1> HIDE DEF Rest
<1> QED BY Zenon, <1>4, <1>7, <1>8, <1>9, <1>10, <1>11, <1>12, <1>13, <1>14 DEF IosNext, iword, pword

\* No growing, copying, moving or swapping of the arrays of streams, in whatever
\* order the program calls for it, loses a word or a callback, frees a block
\* twice or forgets one (ios.cpp): for any number of streams, values and calls.
THEOREM StoredStays == IosSpec => []StoredKept
<1>1. IosInit => IosInv
  <2> SUFFICES ASSUME IosInit PROVE IosInv
    BY Zenon
  <2>1. /\ array = [x \in Streams |-> NoArrays] /\ stored = [x \in Streams |-> Nothing]
        /\ heap = <<>> /\ alive = {} /\ calls = 0
    BY Zenon DEF IosInit, NoArrays
  <2>2. /\ array \in [Streams -> [Kinds -> Array]] /\ stored \in [Streams -> [Kinds -> Words]]
        /\ \A x \in Streams, k \in Kinds : array[x][k] = Empty /\ stored[x][k] = <<>>
    BY Zenon, <2>1, EmptyHolds DEF NoArrays, Nothing
  <2>3. DOMAIN heap = {} /\ Empty.block = 0 /\ calls \in 0..MaxCalls
    BY <2>1, IosAssumption DEF Empty
  <2>4. HeapInv(heap, array)
    BY Zenon, <2>2, <2>3 DEF HeapInv
  <2>5. \A x \in Streams, k \in Kinds : Holds(heap, array[x][k], stored[x][k])
    BY Zenon, <2>2, EmptyHolds
  <2> QED BY Zenon, <2>1, <2>2, <2>3, <2>4, <2>5 DEF IosInv, ArraysInv
<1>2. IosInv => StoredKept
  <2> SUFFICES ASSUME IosInv PROVE StoredKept
    BY Zenon
  <2>1. /\ array \in [Streams -> [Kinds -> Array]] /\ alive \subseteq Streams /\ calls \in 0..MaxCalls
        /\ \A x \in Streams \ alive, k \in Kinds : array[x][k] = Empty
        /\ HeapInv(heap, array) /\ \A x \in Streams, k \in Kinds : Holds(heap, array[x][k], stored[x][k])
    BY Zenon DEF IosInv, ArraysInv
  <2>2. Empty.block = 0 /\ DOMAIN heap \subseteq Nat \ {0}
    BY Zenon, <2>1 DEF Empty, HeapInv
  <2>3. ASSUME NEW b \in DOMAIN heap
        PROVE  \E x \in alive, k \in Kinds :
                 /\ b # 0 /\ array[x][k].block = b
                 /\ \A y \in alive, l \in Kinds : b # 0 /\ array[y][l].block = b => y = x /\ l = k
    <3>1. PICK x \in Streams, k \in Kinds : array[x][k].block = b
      BY Zenon, <2>1 DEF HeapInv
    <3>2. b # 0
      BY Zenon, <2>2
    <3>3. x \in alive
      BY Zenon, <2>1, <2>2, <3>1, <3>2
    <3>4. \A y \in alive, l \in Kinds : array[y][l].block = b => y = x /\ l = k
      BY <2>1, <3>1, <3>2 DEF HeapInv
    <3> QED BY Zenon, <3>1, <3>2, <3>3, <3>4
  <2>4. BlocksOwned
    BY Zenon, <2>1, <2>3 DEF BlocksOwned, Holds
  <2>5. ASSUME NEW x \in alive, NEW k \in Kinds, NEW i \in DOMAIN stored[x][k]
        PROVE  /\ i < array[x][k].size /\ array[x][k].block \in DOMAIN heap
               /\ heap[array[x][k].block][i] = stored[x][k][i]
    <3>1. x \in Streams /\ array[x][k] \in Array /\ Holds(heap, array[x][k], stored[x][k])
      BY Zenon, <2>1
    <3>2. i \in 0..(array[x][k].size - 1) /\ heap[array[x][k].block][i] = stored[x][k][i]
      BY Zenon, <3>1 DEF Holds
    <3>3. array[x][k].size \in Nat /\ array[x][k].cap \in Nat /\ array[x][k].size <= array[x][k].cap
      BY Zenon, <3>1 DEF Array, Holds
    <3>4. i < array[x][k].size /\ array[x][k].cap # 0
      BY <3>2, <3>3
    <3> QED BY Zenon, <3>1, <3>2, <3>4 DEF Holds
  <2>6. ASSUME NEW b \in DOMAIN heap, NEW i \in DOMAIN heap[b] PROVE heap[b][i] \in Memory
    <3>1. PICK x \in alive, k \in Kinds : b # 0 /\ array[x][k].block = b
      BY Zenon, <2>3
    <3>2. heap[b] \in [0..(array[x][k].cap - 1) -> Memory]
      BY Zenon, <2>1, <3>1 DEF Holds
    <3> QED BY Zenon, <2>6, <3>2
  <2>7. \A x \in Streams, k \in Kinds : array[x][k].size <= array[x][k].cap
    BY Zenon, <2>1 DEF Holds
  <2>8. IosTypeOK
    BY Zenon, <2>1, <2>6, <2>7 DEF IosTypeOK, Array, Memory
  <2> QED BY Zenon, <2>4, <2>5, <2>8 DEF StoredKept, WordsKept
<1> QED BY <1>1, <1>2, IosStep, PTL DEF IosSpec

=============================================================================
