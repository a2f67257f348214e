------------------------------- MODULE Pipeline -----------------------------
(***************************************************************************)
(* A publisher's branch queue, its producer threads, TCP, and the          *)
(* subscribers of the destination, together: what happens to a message     *)
(* between Tee::Put and standard output.  A connection carries units: the  *)
(* length header, then the body, written and read in pieces of any size    *)
(* (src/io_policy/tcp.hpp).  Producer thread and receiver thread are those *)
(* of src/connector.hpp and src/sub.cpp; modules Publisher and Subscriber  *)
(* have the parts of the two processes that are left out here.             *)
(***************************************************************************)
EXTENDS Integers, Sequences

CONSTANTS Sub,      \* subscriber processes
          Conn,     \* connections, each used once (bound on reconnections)
          NoSub,
          MaxMsg,   \* bound on the messages accepted
          QCap,     \* messages each System V queue holds before it is full
          HeadLen,  \* units of the length header
          BodyLen,  \* units of a body
          Garbled   \* a message put together from units of several

ASSUME PipelineAssumption ==
  /\ NoSub \notin Sub /\ MaxMsg \in Nat /\ QCap \in Nat \ {0}
  /\ HeadLen \in Nat \ {0} /\ BodyLen \in Nat \ {0} /\ Garbled \notin 1..MaxMsg

Msg      == 1..MaxMsg
UnitLen  == HeadLen + BodyLen
Units(m) == [i \in 1..UnitLen |-> <<m, i>>]

VARIABLES
  accepted, mq,       \* messages the branch queue took; its contents
  th, thMsg, done,    \* producer threads, msg_buf_, units of it written
  net, wire,          \* each connection, and the units on it
  peer,               \* the subscriber at its other end
  rc, acc,            \* receiver threads, and the units read of a message
  up, sq,             \* subscribers, and their queues
  printed, prints,    \* messages on standard output; lines printed
  faulty              \* history: something failed

pubVars == <<accepted, mq, th, thMsg, done>>
netVars == <<net, wire, peer>>
subVars == <<rc, acc, up, sq, printed, prints>>
vars    == <<pubVars, netVars, subVars, faulty>>

TypeOK ==
  /\ accepted \subseteq Msg /\ mq \in Seq(Msg) /\ Len(mq) <= QCap
  /\ th \in [Conn -> {"none", "get", "write", "post", "requeue", "ended"}]
  /\ thMsg \in [Conn -> Msg \cup {0}] /\ done \in [Conn -> 0..UnitLen]
  /\ net \in [Conn -> {"none", "open", "finished", "gone", "reset"}]
  /\ wire \in [Conn -> Seq(Msg \X (1..UnitLen))]
  /\ peer \in [Conn -> Sub \cup {NoSub}]
  /\ rc \in [Conn -> {"none", "read", "put", "ended"}]
  /\ acc \in [Conn -> Seq(Msg \X (1..UnitLen))]
  /\ up \in [Sub -> {"off", "up", "dead"}]
  /\ sq \in [Sub -> Seq(Msg \cup {Garbled})]
  /\ printed \subseteq Msg \cup {Garbled} /\ prints \in Nat /\ faulty \in BOOLEAN

Init ==
  /\ accepted = {} /\ mq = <<>> /\ printed = {} /\ prints = 0 /\ faulty = FALSE
  /\ th = [c \in Conn |-> "none"] /\ rc = th /\ net = th
  /\ thMsg = [c \in Conn |-> 0] /\ done = thMsg
  /\ wire = [c \in Conn |-> <<>>] /\ acc = wire
  /\ peer = [c \in Conn |-> NoSub]
  /\ up = [s \in Sub |-> "off"] /\ sq = [s \in Sub |-> <<>>]

-----------------------------------------------------------------------------
(* Publisher.                                                              *)

\* Tee::Put of the next line, while there is room.
Accept(m) ==
  /\ accepted = 1..(m - 1) /\ Len(mq) < QCap
  /\ accepted' = accepted \cup {m} /\ mq' = Append(mq, m)
  /\ UNCHANGED <<th, thMsg, done, netVars, subVars, faulty>>

\* The Connector finds a subscriber that has no producer thread.
Dial(c, s) ==
  /\ net[c] = "none" /\ up[s] = "up"
  /\ \A e \in Conn : peer[e] = s => th[e] = "ended"
  /\ th' = [th EXCEPT ![c] = "get"] /\ rc' = [rc EXCEPT ![c] = "read"]
  /\ net' = [net EXCEPT ![c] = "open"] /\ peer' = [peer EXCEPT ![c] = s]
  /\ UNCHANGED <<accepted, mq, thMsg, done, wire, acc, up, sq, printed, prints,
                 faulty>>

Get(c) ==
  /\ th[c] = "get" /\ mq # <<>>
  /\ th' = [th EXCEPT ![c] = "write"] /\ thMsg' = [thMsg EXCEPT ![c] = Head(mq)]
  /\ mq' = Tail(mq) /\ done' = [done EXCEPT ![c] = 0]
  /\ UNCHANGED <<accepted, netVars, subVars, faulty>>

\* What is left for the WriteAll or ReadAll under way when n units are done:
\* the header first, then the body.
Piece(n) == IF n < HeadLen THEN HeadLen - n ELSE UnitLen - n

\* write() takes k units.  It still does when the other end has gone and the
\* reset has not arrived; those units reach nobody.
WriteSome(c, k) ==
  /\ th[c] = "write" /\ net[c] \in {"open", "gone"} /\ k <= Piece(done[c])
  /\ done' = [done EXCEPT ![c] = @ + k]
  /\ th' = [th EXCEPT ![c] = IF done[c] + k = UnitLen THEN "post" ELSE "write"]
  /\ wire' = IF net[c] = "gone" THEN wire
             ELSE [wire EXCEPT ![c] = @ \o SubSeq(Units(thMsg[c]), done[c] + 1,
                                                  done[c] + k)]
  /\ UNCHANGED <<accepted, mq, thMsg, net, peer, subVars, faulty>>

\* The thread moves on and the publisher changes nothing else.
ThreadGoes(c, from, to) ==
  /\ th[c] = from /\ th' = [th EXCEPT ![c] = to]
  /\ UNCHANGED <<accepted, thMsg, done, wire, peer, subVars>>

\* write() fails.
WriteFails(c) ==
  /\ net[c] \in {"gone", "reset"} /\ ThreadGoes(c, "write", "requeue")
  /\ UNCHANGED <<mq, net, faulty>>

Post(c) == ThreadGoes(c, "post", "get") /\ UNCHANGED <<mq, net, faulty>>

\* The message goes back on the queue, or is lost when there is no room; the
\* thread ends and its socket is closed.
Requeue(c) ==
  /\ ThreadGoes(c, "requeue", "ended")
  /\ IF Len(mq) < QCap THEN mq' = Append(mq, thMsg[c]) /\ UNCHANGED faulty
                       ELSE faulty' = TRUE /\ UNCHANGED mq
  /\ net' = [net EXCEPT ![c] = "reset"]

\* Mutant: the publisher's sockets linger for zero seconds too.
InterruptedLingers(c) ==
  /\ mq = <<>> /\ th[c] = "get" /\ th' = [th EXCEPT ![c] = "ended"]
  /\ net' = [net EXCEPT ![c] = "reset"] /\ wire' = [wire EXCEPT ![c] = <<>>]
  /\ UNCHANGED <<accepted, mq, thMsg, done, peer, subVars, faulty>>

\* A signal ends the thread while it waits for a message (msgrcv, EINTR).  The
\* empty message that the post filter puts on the queue then, which module
\* Publisher has, is none of those accepted and is left out here.
Interrupted(c) ==
  /\ mq = <<>> /\ ThreadGoes(c, "get", "ended")
  /\ net' = [net EXCEPT ![c] = IF @ = "open" THEN "finished" ELSE "reset"]
  /\ UNCHANGED <<mq, faulty>>

-----------------------------------------------------------------------------
(* The network.                                                            *)

\* The connection breaks, and what is on it is lost.
Cut(c) ==
  /\ net[c] \in {"open", "finished"}
  /\ net' = [net EXCEPT ![c] = "gone"] /\ wire' = [wire EXCEPT ![c] = <<>>]
  /\ faulty' = TRUE
  /\ UNCHANGED <<pubVars, peer, subVars>>

\* The reset reaches the publisher: from now on every write fails.
Reset(c) ==
  /\ net[c] = "gone" /\ net' = [net EXCEPT ![c] = "reset"]
  /\ UNCHANGED <<pubVars, wire, peer, subVars, faulty>>

-----------------------------------------------------------------------------
(* Subscribers.                                                            *)

Start(s) ==
  /\ up[s] = "off" /\ up' = [up EXCEPT ![s] = "up"]
  /\ UNCHANGED <<pubVars, netVars, rc, acc, sq, printed, prints, faulty>>

\* The process ends, by a signal or otherwise: what it had is lost.
Die(s) ==
  /\ up[s] = "up" /\ up' = [up EXCEPT ![s] = "dead"]
  /\ LET mine == {c \in Conn : peer[c] = s} IN
     /\ rc' = [c \in Conn |-> IF c \in mine THEN "ended" ELSE rc[c]]
     /\ acc' = [c \in Conn |-> IF c \in mine THEN <<>> ELSE acc[c]]
     /\ wire' = [c \in Conn |-> IF c \in mine THEN <<>> ELSE wire[c]]
     /\ net' = [c \in Conn |-> IF c \in mine /\ net[c] \in {"open", "finished"}
                               THEN "gone" ELSE net[c]]
  /\ sq' = [sq EXCEPT ![s] = <<>>] /\ faulty' = TRUE
  /\ UNCHANGED <<pubVars, peer, printed, prints>>

\* read() returns k units to the ReadAll under way.
ReadSome(c, k) ==
  /\ rc[c] = "read" /\ k <= Len(wire[c]) /\ k <= Piece(Len(acc[c]))
  /\ acc' = [acc EXCEPT ![c] = @ \o SubSeq(wire[c], 1, k)]
  /\ wire' = [wire EXCEPT ![c] = SubSeq(@, k + 1, Len(@))]
  /\ rc' = [rc EXCEPT ![c] = IF Len(acc[c]) + k = UnitLen THEN "put" ELSE "read"]
  /\ UNCHANGED <<pubVars, net, peer, up, sq, printed, prints, faulty>>

\* read() returns 0 or -1: a message that was not complete is dropped.
ReadEnds(c) ==
  /\ rc[c] = "read" /\ wire[c] = <<>> /\ net[c] \in {"finished", "gone", "reset"}
  /\ rc' = [rc EXCEPT ![c] = "ended"] /\ acc' = [acc EXCEPT ![c] = <<>>]
  /\ UNCHANGED <<pubVars, netVars, up, sq, printed, prints, faulty>>

\* The message that the units are, if they are one.
MessageOf(u) == IF \E m \in Msg : u = Units(m) THEN u[1][1] ELSE Garbled

\* Mutant: the buffer is put in the queue again when the connection ends.
PutMsgTwice(c) ==
  LET s == peer[c] IN
  /\ rc[c] = "put" /\ Len(sq[s]) < QCap
  /\ sq' = [sq EXCEPT ![s] = Append(@, MessageOf(acc[c]))]
  /\ rc' = [rc EXCEPT ![c] = IF net[c] = "gone" THEN "put" ELSE "read"]
  /\ acc' = IF net[c] = "gone" THEN acc ELSE [acc EXCEPT ![c] = <<>>]
  /\ UNCHANGED <<pubVars, netVars, up, printed, prints, faulty>>

\* SysvMq::Put of the receiver.
PutMsg(c) ==
  LET s == peer[c] IN
  /\ rc[c] = "put" /\ Len(sq[s]) < QCap
  /\ sq' = [sq EXCEPT ![s] = Append(@, MessageOf(acc[c]))]
  /\ rc' = [rc EXCEPT ![c] = "read"] /\ acc' = [acc EXCEPT ![c] = <<>>]
  /\ UNCHANGED <<pubVars, netVars, up, printed, prints, faulty>>

\* It may fail on a full queue; the thread ends and resets the connection.
PutFails(c) ==
  /\ rc[c] = "put" /\ Len(sq[peer[c]]) >= QCap
  /\ rc' = [rc EXCEPT ![c] = "ended"] /\ acc' = [acc EXCEPT ![c] = <<>>]
  /\ net' = [net EXCEPT ![c] = IF @ \in {"open", "finished"} THEN "gone" ELSE @]
  /\ wire' = [wire EXCEPT ![c] = <<>>] /\ faulty' = TRUE
  /\ UNCHANGED <<pubVars, peer, up, sq, printed, prints>>

\* The output thread takes a message and it reaches standard output.
PrintLine(s) ==
  /\ up[s] = "up" /\ sq[s] # <<>>
  /\ printed' = printed \cup {Head(sq[s])} /\ prints' = prints + 1
  /\ sq' = [sq EXCEPT ![s] = Tail(@)]
  /\ UNCHANGED <<pubVars, netVars, rc, acc, up, faulty>>

-----------------------------------------------------------------------------
Next ==
  \/ \E m \in Msg : Accept(m)
  \/ \E c \in Conn :
       \/ \E s \in Sub : Dial(c, s)
       \/ \E k \in 1..UnitLen : WriteSome(c, k) \/ ReadSome(c, k)
       \/ Get(c) \/ WriteFails(c) \/ Post(c) \/ Requeue(c) \/ Interrupted(c)
       \/ Cut(c) \/ Reset(c) \/ ReadEnds(c) \/ PutMsg(c) \/ PutFails(c)
  \/ \E s \in Sub : Start(s) \/ Die(s) \/ PrintLine(s)

Spec == Init /\ [][Next]_vars

-----------------------------------------------------------------------------
(* Properties.                                                             *)

In(x, s) == \E i \in 1..Len(s) : s[i] = x

\* The message can still be printed: it is in a queue, in the buffer of a
\* producer thread that has not written all of it, or all of it is on the way
\* from there to the queue of a subscriber.
Underway(m) ==
  \/ In(m, mq)
  \/ \E c \in Conn :
       \/ th[c] \in {"write", "requeue"} /\ thMsg[c] = m
       \/ In(<<m, UnitLen>>, wire[c])
       \/ rc[c] = "put" /\ MessageOf(acc[c]) = m
  \/ \E s \in Sub : In(m, sq[s])

Lost == {m \in accepted \ printed : ~Underway(m)}

\* Whatever dies or breaks, and however writes and reads are split, a message
\* is printed at most once by all subscribers together, and one that was lost
\* is not printed later: publisher and subscribers implement Delivery with
\* "printed" for "sent".  The put back of a message whose header, or part of
\* whose body, was already written is where a copy could be made.
D == INSTANCE Delivery WITH
       Dest <- {"q"}, Msg <- Msg \cup {Garbled},
       accepted <- [d \in {"q"} |-> accepted], sent <- [d \in {"q"} |-> printed],
       writes <- prints, lost <- [d \in {"q"} |-> Lost]

PrintedAtMostOnce == D!Spec

\* Messages are lost only if a subscriber dies, a connection breaks or a queue
\* is full; splitting, interruptions and reconnections alone lose nothing.
LossNeedsFault == Lost # {} => faulty

\* No subscriber ever puts a message together from units of different ones: a
\* connection on which a write failed is never used again.
NeverGarbled == \A s \in Sub : ~In(Garbled, sq[s])

\* A message goes through whole or, after a fault, not at all.
MessagesKept == TypeOK /\ LossNeedsFault /\ NeverGarbled
=============================================================================
