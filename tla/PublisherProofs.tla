-------------------------- MODULE PublisherProofs ---------------------------
(***************************************************************************)
(* Proofs about Publisher, for any number of subscribers, destinations,    *)
(* threads and messages and any queue capacity.                            *)
(***************************************************************************)
EXTENDS Publisher, TLAPS

\* The time the provers may take at a step that names none of them.
USE SMTT(30), ZenonT(30)

-----------------------------------------------------------------------------
(* What the queue operations do to the occurrences of a message.           *)

\* Append (msgsnd) adds an occurrence of the appended message and no other.
LEMMA AppendOccurs ==
  ASSUME NEW S, NEW s \in Seq(S), NEW e \in S, NEW m
  PROVE  Occurs(Append(s, e), m) <=> (Occurs(s, m) \/ m = e)
<1>1. /\ Len(Append(s, e)) = Len(s) + 1
      /\ \A i \in 1..Len(s) : Append(s, e)[i] = s[i]
      /\ Append(s, e)[Len(s) + 1] = e
      /\ Len(s) \in Nat
  OBVIOUS
<1> DEFINE a == Append(s, e)
<1>2. \A i \in 1..Len(a) : i \in 1..Len(s) \/ i = Len(s) + 1
  BY <1>1
<1>3. \A i \in 1..Len(s) : i \in 1..Len(a)
  BY <1>1
<1>4. Len(s) + 1 \in 1..Len(a)
  BY <1>1
<1> QED
  BY Zenon, <1>1, <1>2, <1>3, <1>4 DEF Occurs

\* Appending a message that does not occur keeps occurrences single.
LEMMA AppendAtMostOne ==
  ASSUME NEW S, NEW s \in Seq(S), NEW e \in S, NEW m,
         AtMostOne(s, m), m = e => ~Occurs(s, m)
  PROVE  AtMostOne(Append(s, e), m)
<1>1. /\ Len(Append(s, e)) = Len(s) + 1
      /\ \A i \in 1..Len(s) : Append(s, e)[i] = s[i]
      /\ Append(s, e)[Len(s) + 1] = e
      /\ Len(s) \in Nat
  OBVIOUS
<1>2. \A i \in 1..Len(Append(s, e)) : i \in 1..Len(s) \/ i = Len(s) + 1
  BY <1>1
<1> QED
  BY Zenon, <1>1, <1>2 DEF Occurs, AtMostOne

\* Taking the head (msgrcv) removes one occurrence, of the head.
LEMMA TailOccurs ==
  ASSUME NEW S, NEW s \in Seq(S), s # <<>>, NEW m
  PROVE  Occurs(s, m) <=> (m = Head(s) \/ Occurs(Tail(s), m))
<1>1. /\ Len(s) \in Nat /\ Len(s) > 0
      /\ Head(s) = s[1]
      /\ Len(Tail(s)) = Len(s) - 1
      /\ \A i \in 1..Len(Tail(s)) : Tail(s)[i] = s[i + 1]
  OBVIOUS
<1>2. ASSUME Occurs(s, m) PROVE m = Head(s) \/ Occurs(Tail(s), m)
  <2>1. PICK i \in 1..Len(s) : s[i] = m
    BY Zenon, <1>2 DEF Occurs
  <2>2. CASE i = 1
    BY Zenon, <2>1, <2>2, <1>1
  <2>3. CASE i # 1
    <3>1. i - 1 \in 1..Len(Tail(s)) /\ (i - 1) + 1 = i
      BY <2>1, <2>3, <1>1
    <3> QED  BY Zenon, <3>1, <2>1, <1>1 DEF Occurs
  <2> QED  BY Zenon, <2>2, <2>3
<1>3. ASSUME m = Head(s) PROVE Occurs(s, m)
  BY <1>1, <1>3 DEF Occurs
<1>4. ASSUME Occurs(Tail(s), m) PROVE Occurs(s, m)
  <2>1. PICK i \in 1..Len(Tail(s)) : Tail(s)[i] = m
    BY Zenon, <1>4 DEF Occurs
  <2>2. i + 1 \in 1..Len(s)
    BY <2>1, <1>1
  <2> QED  BY Zenon, <2>1, <2>2, <1>1 DEF Occurs
<1> QED
  BY Zenon, <1>2, <1>3, <1>4

\* If a message occurs at most once, so it does in the tail, where the head
\* does not occur again.
LEMMA TailAtMostOne ==
  ASSUME NEW S, NEW s \in Seq(S), s # <<>>, NEW m, AtMostOne(s, m)
  PROVE  /\ AtMostOne(Tail(s), m)
         /\ m = Head(s) => ~Occurs(Tail(s), m)
<1>1. /\ Len(s) \in Nat /\ Len(s) > 0
      /\ Head(s) = s[1]
      /\ Len(Tail(s)) = Len(s) - 1
      /\ \A i \in 1..Len(Tail(s)) : Tail(s)[i] = s[i + 1]
  OBVIOUS
<1>2. \A i \in 1..Len(Tail(s)) : i + 1 \in 1..Len(s) /\ i + 1 # 1
  BY <1>1
<1>3. 1 \in 1..Len(s)
  BY <1>1
<1>4. ASSUME NEW i \in 1..Len(Tail(s)), NEW j \in 1..Len(Tail(s)),
             Tail(s)[i] = m, Tail(s)[j] = m
      PROVE  i = j
  <2>1. s[i + 1] = m /\ s[j + 1] = m
    BY Zenon, <1>1, <1>4
  <2>2. i + 1 = j + 1
    BY Zenon, <2>1, <1>2 DEF AtMostOne
  <2> QED  BY <2>2
<1>5. ASSUME m = Head(s), Occurs(Tail(s), m) PROVE FALSE
  <2>1. PICK i \in 1..Len(Tail(s)) : Tail(s)[i] = m
    BY Zenon, <1>5 DEF Occurs
  <2>2. s[i + 1] = m /\ s[1] = m
    BY Zenon, <2>1, <1>1, <1>5
  <2> QED  BY Zenon, <2>2, <1>2, <1>3 DEF AtMostOne
<1> QED
  BY Zenon, <1>4, <1>5 DEF AtMostOne

\* Nothing occurs in an empty queue.
LEMMA EmptyOccurs ==
  ASSUME NEW m
  PROVE  ~Occurs(<<>>, m) /\ AtMostOne(<<>>, m)
BY DEF Occurs, AtMostOne

-----------------------------------------------------------------------------
(* Type correctness.                                                       *)

\* Every variable keeps its type, and a started thread has an address.
TypeInv == TypeOK /\ \A t \in Thread : thState[t] # "idle" => thAddr[t] \in Addr

\* The initial values have their types.
LEMMA TypeInit == Init => TypeInv
BY PublisherAssumption
DEF Init, TypeInv, TypeOK, MainPc, ThState, Msg, Payload, Empty

\* Every step keeps the types.
LEMMA TypeStep == TypeInv /\ [Next]_vars => TypeInv'
<1> SUFFICES ASSUME TypeInv, [Next]_vars PROVE TypeInv'
  BY Zenon
<1> USE PublisherAssumption DEF TypeInv, TypeOK, MainPc, ThState, Msg, Payload, Empty
<1> USE DEF mainRest, mqVars, connVars, thVars, histVars, counters
<1>1. ASSUME PreFilterReady PROVE TypeInv'
  BY Zenon, <1>1 DEF PreFilterReady, MainGoes, mainRest
<1>2. ASSUME PreFilterTimeout PROVE TypeInv'
  BY Zenon, <1>2 DEF PreFilterTimeout, MainGoes, mainRest
<1>3. ASSUME NEW b \in BOOLEAN, ReadLine(b) PROVE TypeInv'
  BY <1>3 DEF ReadLine
<1>4. ASSUME ReadFails PROVE TypeInv'
  BY Zenon, <1>4 DEF ReadFails, MainGoes, mainRest
<1>5. ASSUME NEW d \in Dest, TeePut(d) PROVE TypeInv'
  BY <1>5 DEF TeePut
<1>6. ASSUME NEW d \in Dest, TeePutFails(d) PROVE TypeInv'
  BY <1>6 DEF TeePutFails
<1>7. ASSUME PostFilter PROVE TypeInv'
  BY <1>7 DEF PostFilter
<1>8. ASSUME DrainDone PROVE TypeInv'
  BY Zenon, <1>8 DEF DrainDone, MainGoes
<1>9. ASSUME DrainTimeout PROVE TypeInv'
  BY Zenon, <1>9 DEF DrainTimeout, MainGoes
<1>10. ASSUME Destroy PROVE TypeInv'
  BY <1>10 DEF Destroy
<1>11. ASSUME Exit PROVE TypeInv'
  BY <1>11 DEF Exit
<1>12. ASSUME NEW a \in Addr, NEW t \in Thread, Open(a, t) PROVE TypeInv'
  BY <1>12 DEF Open
<1>13. ASSUME Insert PROVE TypeInv'
  BY Zenon, <1>13 DEF Insert
<1>14. ASSUME NEW t \in Thread, Connect(t) PROVE TypeInv'
  BY <1>14 DEF Connect
<1>15. ASSUME NEW t \in Thread, ConnectFails(t) PROVE TypeInv'
  BY Zenon, <1>15 DEF ConnectFails, ThreadGoes
<1>16. ASSUME NEW t \in Thread, MqInit(t) PROVE TypeInv'
  BY Zenon, <1>16 DEF MqInit, ThDest
<1>17. ASSUME NEW t \in Thread, Get(t) PROVE TypeInv'
  <2> DEFINE d == ThDest(t)
  <2>1. d \in Dest /\ mq[d] \in Seq(Payload) /\ mq[d] # <<>>
    BY Zenon, <1>17 DEF Get, ThDest
  <2>2. Head(mq[d]) \in Payload /\ Tail(mq[d]) \in Seq(Payload)
    BY <2>1
  <2> HIDE DEF d
  <2>3. /\ thMsg' = [thMsg EXCEPT ![t] = Head(mq[d])]
        /\ mq' = [mq EXCEPT ![d] = Tail(@)]
        /\ thState' = [thState EXCEPT ![t] = "write"]
        /\ thState[t] = "get"
        /\ UNCHANGED <<mainPc, mainRest, queues, stale, connVars, thAddr,
                       thLast, histVars, counters>>
    BY Zenon, <1>17 DEF Get, d
  <2> QED  BY Zenon, <2>1, <2>2, <2>3
<1>18. ASSUME NEW t \in Thread, GetReturnsFalse(t) PROVE TypeInv'
  BY <1>18 DEF GetReturnsFalse
<1>19. ASSUME NEW t \in Thread, Write(t) PROVE TypeInv'
  BY <1>19 DEF Write, ThDest
<1>20. ASSUME NEW t \in Thread, WriteRefused(t) PROVE TypeInv'
  BY Zenon, <1>20 DEF WriteRefused, ThreadGoes
<1>21. ASSUME NEW t \in Thread, WriteFails(t) PROVE TypeInv'
  BY Zenon, <1>21 DEF WriteFails, ThreadGoes
<1>22. ASSUME NEW t \in Thread, Processed(t) PROVE TypeInv'
  BY <1>22 DEF Processed, ThDest
<1>23. ASSUME NEW t \in Thread, Requeue(t) PROVE TypeInv'
  BY <1>23 DEF Requeue, ThDest
<1>24. ASSUME NEW t \in Thread, RequeueLost(t) PROVE TypeInv'
  BY <1>24 DEF RequeueLost, ThDest
<1>25. ASSUME NEW t \in Thread, Erase(t) PROVE TypeInv'
  BY <1>25 DEF Erase
<1>26. CASE UNCHANGED vars
  BY Zenon, <1>26 DEF vars
<1> QED
  BY ZenonT(30), <1>1, <1>2, <1>3, <1>4, <1>5, <1>6, <1>7, <1>8, <1>9, <1>10, <1>11, <1>12, <1>13,
     <1>14, <1>15, <1>16, <1>17, <1>18, <1>19, <1>20, <1>21, <1>22, <1>23, <1>24, <1>25, <1>26
  DEF Next, CalmNext, MainRuns, ConnectorRuns, ThreadRuns, TeePutDrops,
      GetFails, GetInterrupted

\* The variables keep their types: in particular pending_counter stays within
\* its width and every buffer and queue holds messages only.
THEOREM TypeCorrect == Spec => []TypeOK
<1>1. TypeInv => TypeOK
  BY Zenon DEF TypeInv
<1> QED
  BY <1>1, TypeInit, TypeStep, PTL DEF Spec

-----------------------------------------------------------------------------
(* At most one copy.  The invariant follows one message m of one           *)
(* destination d through the places it can be in.                          *)

\* Threads belong to a branch; the iteration of Tee::Put meets branches; a
\* destination without a branch has accepted nothing.
BranchInv ==
  /\ \A t \in Thread : thState[t] # "idle" => ThDest(t) \in branch
  /\ left \subseteq branch
  /\ \A d \in Dest : d \notin branch => accepted[d] = {}

\* A message is accepted after it was read, and the message being teed has
\* not been accepted by the branches it has still to be put on.
FreshInv ==
  /\ cur \in {Empty, nread}
  /\ \A d \in Dest, m \in Msg : m \in accepted[d] => m <= nread
  /\ mainPc = "tee" => \A d \in left : cur \notin accepted[d]

\* Thread t holds m for d.
Has(t, d, m) == Holds(t, m) /\ ThDest(t) = d

\* m was accepted by d exactly if it is in one of the four places, and it is
\* in one only.
Place(d, m) ==
  /\ AtMostOne(mq[d], m)
  /\ InQueue(d, m) => m \in accepted[d] /\ m \notin sent[d] \cup lost[d]
  /\ \A t \in Thread : Has(t, d, m) =>
       /\ m \in accepted[d] /\ m \notin sent[d] \cup lost[d]
       /\ ~InQueue(d, m)
       /\ \A u \in Thread : Has(u, d, m) => u = t
  /\ m \in sent[d] \cup lost[d] => m \in accepted[d]
  /\ m \notin sent[d] \cap lost[d]
  /\ m \in accepted[d] =>
       \/ InQueue(d, m) \/ \E t \in Thread : Has(t, d, m)
       \/ m \in sent[d] \cup lost[d]

PlaceInv == \A d \in Dest, m \in Msg : Place(d, m)

IInv == TypeInv /\ BranchInv /\ FreshInv /\ PlaceInv

\* Every step keeps the threads and the iteration of Tee::Put on branches.
LEMMA BranchStep == TypeInv /\ BranchInv /\ [Next]_vars => BranchInv'
<1> SUFFICES ASSUME TypeInv, BranchInv, [Next]_vars PROVE BranchInv'
  BY Zenon
<1> USE PublisherAssumption DEF TypeInv, TypeOK, BranchInv, ThDest
<1> USE DEF mainRest, mqVars, connVars, thVars, histVars, counters
<1>1. ASSUME PreFilterReady PROVE BranchInv'
  BY Zenon, <1>1 DEF PreFilterReady, MainGoes
<1>2. ASSUME PreFilterTimeout PROVE BranchInv'
  BY Zenon, <1>2 DEF PreFilterTimeout, MainGoes
<1>3. ASSUME NEW b \in BOOLEAN, ReadLine(b) PROVE BranchInv'
  BY Zenon, <1>3 DEF ReadLine
<1>4. ASSUME ReadFails PROVE BranchInv'
  BY Zenon, <1>4 DEF ReadFails, MainGoes
<1>5. ASSUME NEW d \in Dest, TeePut(d) PROVE BranchInv'
  BY Zenon, <1>5 DEF TeePut
<1>6. ASSUME NEW d \in Dest, TeePutFails(d) PROVE BranchInv'
  BY Zenon, <1>6 DEF TeePutFails
<1>7. ASSUME PostFilter PROVE BranchInv'
  BY Zenon, <1>7 DEF PostFilter
<1>8. ASSUME DrainDone PROVE BranchInv'
  BY Zenon, <1>8 DEF DrainDone, MainGoes
<1>9. ASSUME DrainTimeout PROVE BranchInv'
  BY Zenon, <1>9 DEF DrainTimeout, MainGoes
<1>10. ASSUME Destroy PROVE BranchInv'
  BY Zenon, <1>10 DEF Destroy
<1>11. ASSUME Exit PROVE BranchInv'
  BY Zenon, <1>11 DEF Exit
<1>12. ASSUME NEW a \in Addr, NEW t \in Thread, Open(a, t) PROVE BranchInv'
  BY Zenon, <1>12 DEF Open
<1>13. ASSUME Insert PROVE BranchInv'
  BY Zenon, <1>13 DEF Insert
<1>14. ASSUME NEW t \in Thread, Connect(t) PROVE BranchInv'
  BY Zenon, <1>14 DEF Connect
<1>15. ASSUME NEW t \in Thread, ConnectFails(t) PROVE BranchInv'
  BY Zenon, <1>15 DEF ConnectFails, ThreadGoes
<1>16. ASSUME NEW t \in Thread, MqInit(t) PROVE BranchInv'
  BY Zenon, <1>16 DEF MqInit
<1>17. ASSUME NEW t \in Thread, Get(t) PROVE BranchInv'
  BY Zenon, <1>17 DEF Get
<1>18. ASSUME NEW t \in Thread, GetReturnsFalse(t) PROVE BranchInv'
  BY Zenon, <1>18 DEF GetReturnsFalse
<1>19. ASSUME NEW t \in Thread, Write(t) PROVE BranchInv'
  BY Zenon, <1>19 DEF Write
<1>20. ASSUME NEW t \in Thread, WriteRefused(t) PROVE BranchInv'
  BY Zenon, <1>20 DEF WriteRefused, ThreadGoes
<1>21. ASSUME NEW t \in Thread, WriteFails(t) PROVE BranchInv'
  BY Zenon, <1>21 DEF WriteFails, ThreadGoes
<1>22. ASSUME NEW t \in Thread, Processed(t) PROVE BranchInv'
  BY Zenon, <1>22 DEF Processed
<1>23. ASSUME NEW t \in Thread, Requeue(t) PROVE BranchInv'
  BY Zenon, <1>23 DEF Requeue
<1>24. ASSUME NEW t \in Thread, RequeueLost(t) PROVE BranchInv'
  BY Zenon, <1>24 DEF RequeueLost
<1>25. ASSUME NEW t \in Thread, Erase(t) PROVE BranchInv'
  BY Zenon, <1>25 DEF Erase
<1>26. CASE UNCHANGED vars
  BY Zenon, <1>26 DEF vars
<1> QED
  BY Zenon, <1>1, <1>2, <1>3, <1>4, <1>5, <1>6, <1>7, <1>8, <1>9, <1>10, <1>11, <1>12, <1>13,
     <1>14, <1>15, <1>16, <1>17, <1>18, <1>19, <1>20, <1>21, <1>22, <1>23, <1>24, <1>25, <1>26
  DEF Next, CalmNext, MainRuns, ConnectorRuns, ThreadRuns, TeePutDrops,
      GetFails, GetInterrupted

\* Every step keeps accepted messages behind the reading of the input.
LEMMA FreshStep ==
  TypeInv /\ BranchInv /\ FreshInv /\ [Next]_vars => FreshInv'
<1> SUFFICES ASSUME TypeInv, BranchInv, FreshInv, [Next]_vars PROVE FreshInv'
  BY Zenon
<1> USE PublisherAssumption DEF TypeInv, TypeOK, BranchInv, FreshInv, Msg, Payload, Empty
<1> USE DEF mainRest, mqVars, connVars, thVars, histVars, counters
<1>1. ASSUME PreFilterReady PROVE FreshInv'
  BY Zenon, <1>1 DEF PreFilterReady, MainGoes
<1>2. ASSUME PreFilterTimeout PROVE FreshInv'
  BY Zenon, <1>2 DEF PreFilterTimeout, MainGoes
<1>3. ASSUME NEW b \in BOOLEAN, ReadLine(b) PROVE FreshInv'
  BY <1>3 DEF ReadLine
<1>4. ASSUME ReadFails PROVE FreshInv'
  BY Zenon, <1>4 DEF ReadFails, MainGoes
<1>5. ASSUME NEW d \in Dest, TeePut(d) PROVE FreshInv'
  BY <1>5 DEF TeePut
<1>6. ASSUME NEW d \in Dest, TeePutFails(d) PROVE FreshInv'
  BY Zenon, <1>6 DEF TeePutFails
<1>7. ASSUME PostFilter PROVE FreshInv'
  BY Zenon, <1>7 DEF PostFilter
<1>8. ASSUME DrainDone PROVE FreshInv'
  BY Zenon, <1>8 DEF DrainDone, MainGoes
<1>9. ASSUME DrainTimeout PROVE FreshInv'
  BY Zenon, <1>9 DEF DrainTimeout, MainGoes
<1>10. ASSUME Destroy PROVE FreshInv'
  BY Zenon, <1>10 DEF Destroy
<1>11. ASSUME Exit PROVE FreshInv'
  BY Zenon, <1>11 DEF Exit
<1>12. ASSUME NEW a \in Addr, NEW t \in Thread, Open(a, t) PROVE FreshInv'
  BY <1>12 DEF Open
<1>13. ASSUME Insert PROVE FreshInv'
  BY Zenon, <1>13 DEF Insert
<1>14. ASSUME NEW t \in Thread, Connect(t) PROVE FreshInv'
  BY Zenon, <1>14 DEF Connect
<1>15. ASSUME NEW t \in Thread, ConnectFails(t) PROVE FreshInv'
  BY Zenon, <1>15 DEF ConnectFails, ThreadGoes
<1>16. ASSUME NEW t \in Thread, MqInit(t) PROVE FreshInv'
  BY Zenon, <1>16 DEF MqInit
<1>17. ASSUME NEW t \in Thread, Get(t) PROVE FreshInv'
  BY Zenon, <1>17 DEF Get
<1>18. ASSUME NEW t \in Thread, GetReturnsFalse(t) PROVE FreshInv'
  BY Zenon, <1>18 DEF GetReturnsFalse
<1>19. ASSUME NEW t \in Thread, Write(t) PROVE FreshInv'
  BY Zenon, <1>19 DEF Write
<1>20. ASSUME NEW t \in Thread, WriteRefused(t) PROVE FreshInv'
  BY Zenon, <1>20 DEF WriteRefused, ThreadGoes
<1>21. ASSUME NEW t \in Thread, WriteFails(t) PROVE FreshInv'
  BY Zenon, <1>21 DEF WriteFails, ThreadGoes
<1>22. ASSUME NEW t \in Thread, Processed(t) PROVE FreshInv'
  BY Zenon, <1>22 DEF Processed
<1>23. ASSUME NEW t \in Thread, Requeue(t) PROVE FreshInv'
  BY Zenon, <1>23 DEF Requeue
<1>24. ASSUME NEW t \in Thread, RequeueLost(t) PROVE FreshInv'
  BY Zenon, <1>24 DEF RequeueLost
<1>25. ASSUME NEW t \in Thread, Erase(t) PROVE FreshInv'
  BY Zenon, <1>25 DEF Erase
<1>26. CASE UNCHANGED vars
  BY Zenon, <1>26 DEF vars
<1> QED
  BY Zenon, <1>1, <1>2, <1>3, <1>4, <1>5, <1>6, <1>7, <1>8, <1>9, <1>10, <1>11, <1>12, <1>13,
     <1>14, <1>15, <1>16, <1>17, <1>18, <1>19, <1>20, <1>21, <1>22, <1>23, <1>24, <1>25, <1>26
  DEF Next, CalmNext, MainRuns, ConnectorRuns, ThreadRuns, TeePutDrops,
      GetFails, GetInterrupted

\* A step that touches neither the queue of d, nor what d has accepted, sent
\* and lost, nor who holds m for d, leaves the place of m alone.
LEMMA PlaceStutter ==
  ASSUME NEW d \in Dest, NEW m \in Msg, Place(d, m),
         UNCHANGED <<mq, accepted, sent, lost>>,
         \A t \in Thread : Has(t, d, m)' <=> Has(t, d, m)
  PROVE  Place(d, m)'
BY Zenon DEF Place, InQueue

\* Every step moves a message from one place to another, if it moves it.
LEMMA PlaceStep == IInv /\ [Next]_vars => PlaceInv'
<1> SUFFICES ASSUME IInv, [Next]_vars, NEW e \in Dest, NEW m \in Msg
             PROVE  Place(e, m)'
  BY Zenon DEF PlaceInv
<1>0. Place(e, m)
  BY Zenon DEF IInv, PlaceInv
<1> USE <1>0, PublisherAssumption DEF IInv, TypeInv, TypeOK, Msg, Payload, Empty
<1> USE DEF mainRest, mqVars, connVars, thVars, histVars, counters
<1>1. ASSUME PreFilterReady PROVE Place(e, m)'
  <2>1. /\ UNCHANGED <<mq, accepted, sent, lost>>
        /\ \A u \in Thread : Has(u, e, m)' <=> Has(u, e, m)
    BY Zenon, <1>1 DEF PreFilterReady, MainGoes, Has, Holds, ThDest
  <2> QED  BY Zenon, <2>1, PlaceStutter
<1>2. ASSUME PreFilterTimeout PROVE Place(e, m)'
  <2>1. /\ UNCHANGED <<mq, accepted, sent, lost>>
        /\ \A u \in Thread : Has(u, e, m)' <=> Has(u, e, m)
    BY Zenon, <1>2 DEF PreFilterTimeout, MainGoes, Has, Holds, ThDest
  <2> QED  BY Zenon, <2>1, PlaceStutter
<1>3. ASSUME NEW b \in BOOLEAN, ReadLine(b) PROVE Place(e, m)'
  <2>1. /\ UNCHANGED <<mq, accepted, sent, lost>>
        /\ \A u \in Thread : Has(u, e, m)' <=> Has(u, e, m)
    BY Zenon, <1>3 DEF ReadLine, Has, Holds, ThDest
  <2> QED  BY Zenon, <2>1, PlaceStutter
<1>4. ASSUME ReadFails PROVE Place(e, m)'
  <2>1. /\ UNCHANGED <<mq, accepted, sent, lost>>
        /\ \A u \in Thread : Has(u, e, m)' <=> Has(u, e, m)
    BY Zenon, <1>4 DEF ReadFails, MainGoes, Has, Holds, ThDest
  <2> QED  BY Zenon, <2>1, PlaceStutter
<1>5. ASSUME NEW d \in Dest, TeePut(d) PROVE Place(e, m)'
  <2>1. /\ UNCHANGED <<sent, lost, thState, thMsg, thAddr>>
        /\ mq' = [mq EXCEPT ![d] = Append(mq[d], cur)]
        /\ accepted' = [accepted EXCEPT ![d] = accepted[d] \cup ({cur} \ {Empty})]
        /\ cur \in Payload /\ cur \notin accepted[d]
    BY Zenon, <1>5 DEF TeePut, FreshInv
  <2>2. \A u \in Thread : Has(u, e, m)' <=> Has(u, e, m)
    BY Zenon, <2>1 DEF Has, Holds, ThDest
  <2>5. mq'[e] = IF e = d THEN Append(mq[e], cur) ELSE mq[e]
    BY Zenon, <2>1
  <2>6. mq[e] \in Seq(Payload) /\ AtMostOne(mq[e], m)
    BY Zenon DEF Place
  <2>7. Occurs(Append(mq[e], cur), m) <=> Occurs(mq[e], m) \/ m = cur
    BY ONLY Zenon, <2>1, <2>6, AppendOccurs
  <2>8. (m = cur => ~Occurs(mq[e], m)) => AtMostOne(Append(mq[e], cur), m)
    BY ZenonT(30), <2>1, <2>6, AppendAtMostOne
  <2>3. CASE e # d \/ m # cur
    <3>1. InQueue(e, m)' <=> InQueue(e, m)
      BY Zenon, <2>3, <2>5, <2>7 DEF InQueue
    <3>2. AtMostOne(mq[e], m)'
      BY Zenon, <2>3, <2>5, <2>6, <2>8
    <3>3. m \in accepted'[e] <=> m \in accepted[e]
      BY Zenon, <2>1, <2>3
    <3> QED  BY Zenon, <2>1, <2>2, <3>1, <3>2, <3>3 DEF Place
  <2>4. CASE e = d /\ m = cur
    <3>1. m \notin accepted[e] /\ m \in accepted'[e]
      BY <2>1, <2>4
    <3>2. ~InQueue(e, m) /\ m \notin sent[e] \cup lost[e] /\ \A u \in Thread : ~Has(u, e, m)
      BY Zenon, <3>1 DEF Place
    <3>3. InQueue(e, m)'
      BY Zenon, <2>4, <2>5, <2>7 DEF InQueue
    <3>4. AtMostOne(mq[e], m)'
      BY Zenon, <2>4, <2>5, <2>8, <3>2 DEF InQueue
    <3> QED  BY Zenon, <2>1, <2>2, <3>1, <3>2, <3>3, <3>4 DEF Place
  <2> QED  BY Zenon, <2>3, <2>4
<1>6. ASSUME NEW d \in Dest, TeePutFails(d) PROVE Place(e, m)'
  <2>1. /\ UNCHANGED <<mq, accepted, sent, lost>>
        /\ \A u \in Thread : Has(u, e, m)' <=> Has(u, e, m)
    BY Zenon, <1>6 DEF TeePutFails, Has, Holds, ThDest
  <2> QED  BY Zenon, <2>1, PlaceStutter
<1>7. ASSUME PostFilter PROVE Place(e, m)'
  <2>1. /\ UNCHANGED <<mq, accepted, sent, lost>>
        /\ \A u \in Thread : Has(u, e, m)' <=> Has(u, e, m)
    BY Zenon, <1>7 DEF PostFilter, Has, Holds, ThDest
  <2> QED  BY Zenon, <2>1, PlaceStutter
<1>8. ASSUME DrainDone PROVE Place(e, m)'
  <2>1. /\ UNCHANGED <<mq, accepted, sent, lost>>
        /\ \A u \in Thread : Has(u, e, m)' <=> Has(u, e, m)
    BY Zenon, <1>8 DEF DrainDone, MainGoes, Has, Holds, ThDest
  <2> QED  BY Zenon, <2>1, PlaceStutter
<1>9. ASSUME DrainTimeout PROVE Place(e, m)'
  <2>1. /\ UNCHANGED <<mq, accepted, sent, lost>>
        /\ \A u \in Thread : Has(u, e, m)' <=> Has(u, e, m)
    BY Zenon, <1>9 DEF DrainTimeout, MainGoes, Has, Holds, ThDest
  <2> QED  BY Zenon, <2>1, PlaceStutter
<1>10. ASSUME Destroy PROVE Place(e, m)'
  <2>1. /\ UNCHANGED <<accepted, sent, thState, thMsg, thAddr>>
        /\ mq'[e] = <<>>
        /\ m \in lost'[e] <=> m \in lost[e] \/ InQueue(e, m)
    BY Zenon, <1>10 DEF Destroy
  <2>2. \A u \in Thread : Has(u, e, m)' <=> Has(u, e, m)
    BY Zenon, <2>1 DEF Has, Holds, ThDest
  <2>3. ~InQueue(e, m)' /\ AtMostOne(mq[e], m)'
    BY <2>1, EmptyOccurs DEF InQueue
  <2> QED  BY Zenon, <2>1, <2>2, <2>3 DEF Place
<1>11. ASSUME Exit PROVE Place(e, m)'
  <2>1. /\ UNCHANGED <<mq, accepted, sent>>
        /\ thState' = [t \in Thread |-> "idle"]
        /\ m \in lost'[e] <=> m \in lost[e] \/ Held(e, m)
    BY Zenon, <1>11 DEF Exit
  <2>0. Held(e, m) <=> \E t \in Thread : Has(t, e, m)
    BY Zenon DEF Held, Has
  <2>2. \A u \in Thread : ~Has(u, e, m)'
    BY Zenon, <2>1 DEF Has, Holds
  <2> QED  BY Zenon, <2>0, <2>1, <2>2 DEF Place, InQueue
<1>12. ASSUME NEW a \in Addr, NEW t \in Thread, Open(a, t) PROVE Place(e, m)'
  <2>1. /\ UNCHANGED <<mq, accepted, sent, lost>>
        /\ \A u \in Thread : Has(u, e, m)' <=> Has(u, e, m)
    BY Zenon, <1>12 DEF Open, Has, Holds, ThDest
  <2> QED  BY Zenon, <2>1, PlaceStutter
<1>13. ASSUME Insert PROVE Place(e, m)'
  <2>1. /\ UNCHANGED <<mq, accepted, sent, lost>>
        /\ \A u \in Thread : Has(u, e, m)' <=> Has(u, e, m)
    BY Zenon, <1>13 DEF Insert, Has, Holds, ThDest
  <2> QED  BY Zenon, <2>1, PlaceStutter
<1>14. ASSUME NEW t \in Thread, Connect(t) PROVE Place(e, m)'
  <2>1. /\ UNCHANGED <<mq, accepted, sent, lost>>
        /\ \A u \in Thread : Has(u, e, m)' <=> Has(u, e, m)
    BY Zenon, <1>14 DEF Connect, Has, Holds, ThDest
  <2> QED  BY Zenon, <2>1, PlaceStutter
<1>15. ASSUME NEW t \in Thread, ConnectFails(t) PROVE Place(e, m)'
  <2>1. /\ UNCHANGED <<mq, accepted, sent, lost>>
        /\ \A u \in Thread : Has(u, e, m)' <=> Has(u, e, m)
    BY Zenon, <1>15 DEF ConnectFails, ThreadGoes, Has, Holds, ThDest
  <2> QED  BY Zenon, <2>1, PlaceStutter
<1>16. ASSUME NEW t \in Thread, MqInit(t) PROVE Place(e, m)'
  <2>1. /\ UNCHANGED <<mq, accepted, sent, lost>>
        /\ \A u \in Thread : Has(u, e, m)' <=> Has(u, e, m)
    BY Zenon, <1>16 DEF MqInit, Has, Holds, ThDest
  <2> QED  BY Zenon, <2>1, PlaceStutter
<1>17. ASSUME NEW t \in Thread, Get(t) PROVE Place(e, m)'
  <2> DEFINE d == ThDest(t)
  <2>0. d \in Dest
    BY Zenon, <1>17 DEF Get, ThDest
  <2>1. /\ UNCHANGED <<accepted, sent, lost, thAddr>>
        /\ thState[t] = "get" /\ mq[d] # <<>>
        /\ thMsg' = [thMsg EXCEPT ![t] = Head(mq[d])]
        /\ mq' = [mq EXCEPT ![d] = Tail(mq[d])]
        /\ thState' = [thState EXCEPT ![t] = "write"]
    BY Zenon, <1>17 DEF Get
  <2>2. \A u \in Thread \ {t} : Has(u, e, m)' <=> Has(u, e, m)
    BY Zenon, <2>1 DEF Has, Holds, ThDest
  <2>3. ~Has(t, e, m) /\ (Has(t, e, m)' <=> e = d /\ m = Head(mq[d]))
    BY Zenon, <2>1 DEF Has, Holds, ThDest
  <2> HIDE DEF d
  <2>4. mq[d] \in Seq(Payload)
    BY Zenon, <2>0
  <2>5. CASE e # d
    BY ZenonT(30), <2>1, <2>2, <2>3, <2>5 DEF Place, InQueue
  <2>6. CASE e = d
    <3>1. mq'[e] = Tail(mq[e])
      BY Zenon, <2>0, <2>1, <2>6
    <3>2. InQueue(e, m) <=> m = Head(mq[e]) \/ InQueue(e, m)'
      BY Zenon, <2>1, <2>4, <2>6, <3>1, TailOccurs DEF InQueue
    <3>3. AtMostOne(mq[e], m)' /\ (m = Head(mq[e]) => ~InQueue(e, m)')
      BY Zenon, <2>1, <2>4, <2>6, <3>1, TailAtMostOne DEF InQueue, Place
    <3> QED  BY ZenonT(30), <2>1, <2>2, <2>3, <2>6, <3>2, <3>3 DEF Place
  <2> QED  BY Zenon, <2>5, <2>6
<1>18. ASSUME NEW t \in Thread, GetReturnsFalse(t) PROVE Place(e, m)'
  <2>1. /\ UNCHANGED <<mq, accepted, sent, lost>>
        /\ \A u \in Thread : Has(u, e, m)' <=> Has(u, e, m)
    BY <1>18 DEF GetReturnsFalse, Has, Holds, ThDest
  <2> QED  BY Zenon, <2>1, PlaceStutter
<1>19. ASSUME NEW t \in Thread, Write(t) PROVE Place(e, m)'
  <2> DEFINE d == ThDest(t)
  <2>0. d \in Dest
    BY Zenon, <1>19 DEF Write, ThDest
  <2>1. /\ UNCHANGED <<mq, accepted, lost, thAddr, thMsg>>
        /\ thState[t] = "write"
        /\ sent' = [sent EXCEPT ![d] = sent[d] \cup {thMsg[t]}]
        /\ thState' = [thState EXCEPT ![t] = "post"]
    BY Zenon, <1>19 DEF Write
  <2>2. \A u \in Thread \ {t} : Has(u, e, m)' <=> Has(u, e, m)
    BY Zenon, <2>1 DEF Has, Holds, ThDest
  <2>3. ~Has(t, e, m)' /\ (Has(t, e, m) <=> e = d /\ m = thMsg[t])
    BY Zenon, <2>1 DEF Has, Holds, ThDest
  <2> HIDE DEF d
  <2>4. m \in sent'[e] <=> m \in sent[e] \/ (e = d /\ m = thMsg[t])
    BY Zenon, <2>0, <2>1
  <2> QED  BY <2>1, <2>2, <2>3, <2>4 DEF Place, InQueue
<1>20. ASSUME NEW t \in Thread, WriteRefused(t) PROVE Place(e, m)'
  <2>1. /\ UNCHANGED <<mq, accepted, sent, lost>>
        /\ \A u \in Thread : Has(u, e, m)' <=> Has(u, e, m)
    BY Zenon, <1>20 DEF WriteRefused, ThreadGoes, Has, Holds, ThDest
  <2> QED  BY Zenon, <2>1, PlaceStutter
<1>21. ASSUME NEW t \in Thread, WriteFails(t) PROVE Place(e, m)'
  <2>1. /\ UNCHANGED <<mq, accepted, sent, lost>>
        /\ \A u \in Thread : Has(u, e, m)' <=> Has(u, e, m)
    BY Zenon, <1>21 DEF WriteFails, ThreadGoes, Has, Holds, ThDest
  <2> QED  BY Zenon, <2>1, PlaceStutter
<1>22. ASSUME NEW t \in Thread, Processed(t) PROVE Place(e, m)'
  <2>1. /\ UNCHANGED <<mq, accepted, sent, lost>>
        /\ \A u \in Thread : Has(u, e, m)' <=> Has(u, e, m)
    BY Zenon, <1>22 DEF Processed, Has, Holds, ThDest
  <2> QED  BY Zenon, <2>1, PlaceStutter
<1>23. ASSUME NEW t \in Thread, Requeue(t) PROVE Place(e, m)'
  <2> DEFINE d == ThDest(t)
  <2>0. d \in Dest /\ mq[d] \in Seq(Payload) /\ thMsg[t] \in Payload
    BY Zenon, <1>23 DEF Requeue, ThDest
  <2>1. /\ UNCHANGED <<accepted, sent, lost, thAddr, thMsg>>
        /\ thState[t] = "requeue"
        /\ mq' = [mq EXCEPT ![d] = Append(mq[d], thMsg[t])]
        /\ thState' = [thState EXCEPT ![t] = "erase"]
    BY Zenon, <1>23 DEF Requeue
  <2>2. \A u \in Thread \ {t} : Has(u, e, m)' <=> Has(u, e, m)
    BY Zenon, <2>1 DEF Has, Holds, ThDest
  <2>3. ~Has(t, e, m)' /\ (Has(t, e, m) <=> e = d /\ m = thMsg[t])
    BY Zenon, <2>1 DEF Has, Holds, ThDest
  <2> HIDE DEF d
  <2>7. mq'[e] = IF e = d THEN Append(mq[e], thMsg[t]) ELSE mq[e]
    BY Zenon, <2>0, <2>1
  <2>8. mq[e] \in Seq(Payload) /\ AtMostOne(mq[e], m)
    BY Zenon DEF Place
  <2>9. Occurs(Append(mq[e], thMsg[t]), m) <=> Occurs(mq[e], m) \/ m = thMsg[t]
    BY ONLY Zenon, <2>0, <2>8, AppendOccurs
  <2>10. (m = thMsg[t] => ~Occurs(mq[e], m)) => AtMostOne(Append(mq[e], thMsg[t]), m)
    BY ZenonT(30), <2>0, <2>8, AppendAtMostOne
  <2>4. InQueue(e, m)' <=> InQueue(e, m) \/ Has(t, e, m)
    BY Zenon, <2>3, <2>7, <2>9 DEF InQueue
  <2>5. Has(t, e, m) => ~InQueue(e, m)
    BY Zenon DEF Place
  <2>6. AtMostOne(mq[e], m)'
    BY Zenon, <2>3, <2>5, <2>7, <2>8, <2>10 DEF InQueue
  <2> QED  BY ZenonT(30), <2>1, <2>2, <2>3, <2>4, <2>5, <2>6 DEF Place
<1>24. ASSUME NEW t \in Thread, RequeueLost(t) PROVE Place(e, m)'
  <2> DEFINE d == ThDest(t)
  <2>0. d \in Dest
    BY Zenon, <1>24 DEF RequeueLost, ThDest
  <2>1. /\ UNCHANGED <<mq, accepted, sent, thAddr, thMsg>>
        /\ thState[t] = "requeue"
        /\ lost' = [lost EXCEPT ![d] = lost[d] \cup ({thMsg[t]} \ {Empty})]
        /\ thState' = [thState EXCEPT ![t] = "erase"]
    BY Zenon, <1>24 DEF RequeueLost
  <2>2. \A u \in Thread \ {t} : Has(u, e, m)' <=> Has(u, e, m)
    BY Zenon, <2>1 DEF Has, Holds, ThDest
  <2>3. ~Has(t, e, m)' /\ (Has(t, e, m) <=> e = d /\ m = thMsg[t])
    BY Zenon, <2>1 DEF Has, Holds, ThDest
  <2> HIDE DEF d
  <2>4. m \in lost'[e] <=> m \in lost[e] \/ (e = d /\ m = thMsg[t])
    BY <2>0, <2>1
  <2> QED  BY ZenonT(30), <2>1, <2>2, <2>3, <2>4 DEF Place, InQueue
<1>25. ASSUME NEW t \in Thread, Erase(t) PROVE Place(e, m)'
  <2>1. /\ UNCHANGED <<mq, accepted, sent, lost>>
        /\ \A u \in Thread : Has(u, e, m)' <=> Has(u, e, m)
    BY Zenon, <1>25 DEF Erase, Has, Holds, ThDest
  <2> QED  BY Zenon, <2>1, PlaceStutter
<1>26. CASE UNCHANGED vars
  <2>1. /\ UNCHANGED <<mq, accepted, sent, lost>>
        /\ \A u \in Thread : Has(u, e, m)' <=> Has(u, e, m)
    BY Zenon, <1>26 DEF vars, Has, Holds, ThDest
  <2> QED  BY Zenon, <2>1, PlaceStutter
<1> QED
  BY Zenon, <1>1, <1>2, <1>3, <1>4, <1>5, <1>6, <1>7, <1>8, <1>9, <1>10, <1>11, <1>12, <1>13,
     <1>14, <1>15, <1>16, <1>17, <1>18, <1>19, <1>20, <1>21, <1>22, <1>23, <1>24, <1>25, <1>26
  DEF Next, CalmNext, MainRuns, ConnectorRuns, ThreadRuns, TeePutDrops,
      GetFails, GetInterrupted

\* The inductive invariant holds in every state of every behaviour.
THEOREM Invariance == Spec => []IInv
<1>1. Init => IInv
  <2> SUFFICES ASSUME Init PROVE IInv
    BY Zenon
  <2>1. TypeInv
    BY Zenon, TypeInit
  <2>2. BranchInv /\ FreshInv
    BY Zenon DEF Init, BranchInv, FreshInv
  <2>3. PlaceInv
    <3> SUFFICES ASSUME NEW d \in Dest, NEW m \in Msg PROVE Place(d, m)
      BY Zenon DEF PlaceInv
    <3>1. mq[d] = <<>> /\ accepted[d] = {} /\ sent[d] = {} /\ lost[d] = {}
      BY Zenon DEF Init
    <3>2. ~InQueue(d, m) /\ AtMostOne(mq[d], m)
      BY Zenon, <3>1, EmptyOccurs DEF InQueue
    <3>3. \A t \in Thread : ~Has(t, d, m)
      BY Zenon DEF Init, Has, Holds
    <3> QED  BY Zenon, <3>1, <3>2, <3>3 DEF Place
  <2> QED  BY Zenon, <2>1, <2>2, <2>3 DEF IInv
<1>2. IInv /\ [Next]_vars => IInv'
  BY Zenon, TypeStep, BranchStep, FreshStep, PlaceStep DEF IInv
<1> QED  BY <1>1, <1>2, PTL DEF Spec

\* At every moment at most one copy of a message exists per destination,
\* whatever the connector's put back (connector.hpp:97) does.
THEOREM NoDuplicates == Spec => []AtMostOnce
<1>1. IInv => AtMostOnce
  BY DEF IInv, PlaceInv, Place, Has, Held, AtMostOnce
<1> QED  BY <1>1, Invariance, PTL

\* An accepted message is queued, held, sent or given up at a place the code
\* names; no interleaving of the threads makes it disappear.
THEOREM NoneForgotten == Spec => []NothingForgotten
<1>1. IInv => NothingForgotten
  BY Zenon DEF IInv, TypeInv, TypeOK, PlaceInv, Place, Has, Held, NothingForgotten
<1> QED  BY <1>1, Invariance, PTL

\* Every step of the publisher is a step of at-most-once delivery, or
\* changes nothing a destination can see.
LEMMA DeliveryStep == IInv /\ [Next]_vars => [D!Next]_(D!deliveryVars)
<1> SUFFICES ASSUME IInv, [Next]_vars
             PROVE  D!Next \/ UNCHANGED D!deliveryVars
  BY Zenon
<1>0. TypeOK
  BY Zenon DEF IInv, TypeInv
<1> USE <1>0, PublisherAssumption DEF TypeOK, Msg, Payload, Empty, D!deliveryVars
<1> USE DEF mainRest, mqVars, connVars, thVars, histVars, counters
<1>1. ASSUME PreFilterReady PROVE D!Next \/ UNCHANGED D!deliveryVars
  BY Zenon, <1>1 DEF PreFilterReady, MainGoes
<1>2. ASSUME PreFilterTimeout PROVE D!Next \/ UNCHANGED D!deliveryVars
  BY Zenon, <1>2 DEF PreFilterTimeout, MainGoes
<1>3. ASSUME NEW b \in BOOLEAN, ReadLine(b) PROVE D!Next \/ UNCHANGED D!deliveryVars
  BY Zenon, <1>3 DEF ReadLine
<1>4. ASSUME ReadFails PROVE D!Next \/ UNCHANGED D!deliveryVars
  BY Zenon, <1>4 DEF ReadFails, MainGoes
<1>5. ASSUME NEW d \in Dest, TeePut(d) PROVE D!Next \/ UNCHANGED D!deliveryVars
  <2>1. /\ UNCHANGED <<sent, writes, lost>>
        /\ accepted' = [accepted EXCEPT ![d] = accepted[d] \cup ({cur} \ {Empty})]
        /\ cur \in Payload /\ cur \notin accepted[d]
    BY Zenon, <1>5 DEF TeePut, IInv, FreshInv
  <2>2. CASE cur = Empty
    BY <2>1, <2>2
  <2>3. CASE cur # Empty
    <3>1. cur \in Msg /\ {cur} \ {Empty} = {cur}
      BY <2>1, <2>3
    <3>2. D!Accept(d, cur)
      BY Zenon, <2>1, <3>1 DEF D!Accept
    <3> QED  BY Zenon, <3>1, <3>2 DEF D!Next
  <2> QED  BY Zenon, <2>2, <2>3
<1>6. ASSUME NEW d \in Dest, TeePutFails(d) PROVE D!Next \/ UNCHANGED D!deliveryVars
  BY Zenon, <1>6 DEF TeePutFails
<1>7. ASSUME PostFilter PROVE D!Next \/ UNCHANGED D!deliveryVars
  BY Zenon, <1>7 DEF PostFilter
<1>8. ASSUME DrainDone PROVE D!Next \/ UNCHANGED D!deliveryVars
  BY Zenon, <1>8 DEF DrainDone, MainGoes
<1>9. ASSUME DrainTimeout PROVE D!Next \/ UNCHANGED D!deliveryVars
  BY Zenon, <1>9 DEF DrainTimeout, MainGoes
<1>10. ASSUME Destroy PROVE D!Next \/ UNCHANGED D!deliveryVars
  <2> DEFINE L == [d \in Dest |-> {m \in Msg : InQueue(d, m)}]
  <2>1. L \in [Dest -> SUBSET Msg]
    BY Zenon, <1>10 DEF Destroy
  <2>2. lost' = [d \in Dest |-> lost[d] \cup L[d]] /\ UNCHANGED <<accepted, sent, writes>>
    BY Zenon, <1>10 DEF Destroy
  <2>3. \A d \in Dest : L[d] \subseteq D!Outstanding(d)
    BY Zenon DEF IInv, PlaceInv, Place, D!Outstanding
  <2> HIDE DEF L
  <2>4. D!Lose(L)
    BY Zenon, <2>2, <2>3 DEF D!Lose
  <2> QED  BY Zenon, <2>1, <2>4 DEF D!Next
<1>11. ASSUME Exit PROVE D!Next \/ UNCHANGED D!deliveryVars
  <2> DEFINE L == [d \in Dest |-> {m \in Msg : Held(d, m)}]
  <2>1. L \in [Dest -> SUBSET Msg]
    BY Zenon, <1>11 DEF Exit
  <2>2. lost' = [d \in Dest |-> lost[d] \cup L[d]] /\ UNCHANGED <<accepted, sent, writes>>
    BY Zenon, <1>11 DEF Exit
  <2>3. \A d \in Dest : L[d] \subseteq D!Outstanding(d)
    BY Zenon DEF IInv, PlaceInv, Place, Has, Held, D!Outstanding
  <2> HIDE DEF L
  <2>4. D!Lose(L)
    BY Zenon, <2>2, <2>3 DEF D!Lose
  <2> QED  BY Zenon, <2>1, <2>4 DEF D!Next
<1>12. ASSUME NEW a \in Addr, NEW t \in Thread, Open(a, t) PROVE D!Next \/ UNCHANGED D!deliveryVars
  BY Zenon, <1>12 DEF Open
<1>13. ASSUME Insert PROVE D!Next \/ UNCHANGED D!deliveryVars
  BY Zenon, <1>13 DEF Insert
<1>14. ASSUME NEW t \in Thread, Connect(t) PROVE D!Next \/ UNCHANGED D!deliveryVars
  BY Zenon, <1>14 DEF Connect
<1>15. ASSUME NEW t \in Thread, ConnectFails(t) PROVE D!Next \/ UNCHANGED D!deliveryVars
  BY Zenon, <1>15 DEF ConnectFails, ThreadGoes
<1>16. ASSUME NEW t \in Thread, MqInit(t) PROVE D!Next \/ UNCHANGED D!deliveryVars
  BY Zenon, <1>16 DEF MqInit
<1>17. ASSUME NEW t \in Thread, Get(t) PROVE D!Next \/ UNCHANGED D!deliveryVars
  BY Zenon, <1>17 DEF Get
<1>18. ASSUME NEW t \in Thread, GetReturnsFalse(t) PROVE D!Next \/ UNCHANGED D!deliveryVars
  BY Zenon, <1>18 DEF GetReturnsFalse
<1>19. ASSUME NEW t \in Thread, Write(t) PROVE D!Next \/ UNCHANGED D!deliveryVars
  <2> DEFINE d == ThDest(t)
  <2>1. d \in Dest /\ thMsg[t] \in Msg
    <3>1. thState[t] = "write" /\ thMsg[t] # Empty
      BY ONLY SMTT(30), <1>19 DEF Write
    <3>2. thAddr[t] \in Addr
      BY ONLY SMTT(30), <3>1, IInv, t \in Thread DEF IInv, TypeInv
    <3>3. thMsg[t] \in Payload
      BY ONLY SMTT(30), <1>0, t \in Thread DEF TypeOK
    <3>4. DestOf[thAddr[t]] \in Dest
      BY ONLY SMTT(30), <3>2, PublisherAssumption DEF PublisherAssumption
    <3> QED
      BY ONLY SMTT(30), <3>1, <3>3, <3>4, PublisherAssumption
      DEF ThDest, Payload, Msg, Empty, PublisherAssumption
  <2>2. Has(t, d, thMsg[t])
    BY Zenon, <1>19 DEF Write, Has, Holds
  <2>3. thMsg[t] \in D!Outstanding(d)
    BY Zenon, <2>1, <2>2 DEF IInv, PlaceInv, Place, D!Outstanding
  <2>4. D!Send(d, thMsg[t])
    BY Zenon, <1>19, <2>3 DEF Write, D!Send
  <2> HIDE DEF d
  <2> QED  BY Zenon, <2>1, <2>4 DEF D!Next
<1>20. ASSUME NEW t \in Thread, WriteRefused(t) PROVE D!Next \/ UNCHANGED D!deliveryVars
  BY Zenon, <1>20 DEF WriteRefused, ThreadGoes
<1>21. ASSUME NEW t \in Thread, WriteFails(t) PROVE D!Next \/ UNCHANGED D!deliveryVars
  BY Zenon, <1>21 DEF WriteFails, ThreadGoes
<1>22. ASSUME NEW t \in Thread, Processed(t) PROVE D!Next \/ UNCHANGED D!deliveryVars
  BY Zenon, <1>22 DEF Processed
<1>23. ASSUME NEW t \in Thread, Requeue(t) PROVE D!Next \/ UNCHANGED D!deliveryVars
  BY Zenon, <1>23 DEF Requeue
<1>24. ASSUME NEW t \in Thread, RequeueLost(t) PROVE D!Next \/ UNCHANGED D!deliveryVars
  <2> DEFINE L == [d \in Dest |-> IF d = ThDest(t) THEN {thMsg[t]} \ {Empty} ELSE {}]
  <2>1. L \in [Dest -> SUBSET Msg]
    BY <1>24 DEF RequeueLost
  <2>2. lost' = [d \in Dest |-> lost[d] \cup L[d]] /\ UNCHANGED <<accepted, sent, writes>>
    BY ZenonT(60), <1>24 DEF RequeueLost, ThDest
  <2>3. \A d \in Dest : L[d] \subseteq D!Outstanding(d)
    BY <1>24 DEF RequeueLost, IInv, PlaceInv, Place, Has, Holds, D!Outstanding
  <2> HIDE DEF L
  <2>4. D!Lose(L)
    BY Zenon, <2>2, <2>3 DEF D!Lose
  <2> QED  BY Zenon, <2>1, <2>4 DEF D!Next
<1>25. ASSUME NEW t \in Thread, Erase(t) PROVE D!Next \/ UNCHANGED D!deliveryVars
  BY Zenon, <1>25 DEF Erase
<1>26. CASE UNCHANGED vars
  BY Zenon, <1>26 DEF vars
<1> QED
  BY Zenon, <1>1, <1>2, <1>3, <1>4, <1>5, <1>6, <1>7, <1>8, <1>9, <1>10, <1>11, <1>12, <1>13,
     <1>14, <1>15, <1>16, <1>17, <1>18, <1>19, <1>20, <1>21, <1>22, <1>23, <1>24, <1>25, <1>26
  DEF Next, CalmNext, MainRuns, ConnectorRuns, ThreadRuns, TeePutDrops,
      GetFails, GetInterrupted

\* A publisher implements at-most-once delivery: what main, the Connector and
\* the producer threads do together is what module Delivery allows.
THEOREM Implementation == Spec => DeliversAtMostOnce
<1>1. Init => D!Init
  BY Zenon DEF Init, D!Init
<1> QED  BY <1>1, DeliveryStep, Invariance, PTL DEF Spec, DeliversAtMostOnce, D!Spec

-----------------------------------------------------------------------------
(* After the end of run().                                                 *)

\* Once the queues are removed, no queue holds a message, and a thread that
\* has a queue which was made afterwards has no message either.
LeftoverInv ==
  ~Alive =>
    /\ \A d \in Dest, m \in Msg : ~InQueue(d, m)
    /\ \A t \in Thread \ stale :
         thState[t] \in {"write", "requeue"} => thMsg[t] = Empty

\* Every step keeps the queues clean after Destroy.
LEMMA LeftoverStep == TypeInv /\ LeftoverInv /\ [Next]_vars => LeftoverInv'
<1> SUFFICES ASSUME TypeInv, LeftoverInv, [Next]_vars PROVE LeftoverInv'
  BY Zenon
<1> USE PublisherAssumption DEF TypeInv, TypeOK, LeftoverInv, Alive, InQueue
<1> USE DEF mainRest, mqVars, connVars, thVars, histVars, counters
<1>1. ASSUME PreFilterReady PROVE LeftoverInv'
  BY Zenon, <1>1 DEF PreFilterReady, MainGoes
<1>2. ASSUME PreFilterTimeout PROVE LeftoverInv'
  BY Zenon, <1>2 DEF PreFilterTimeout, MainGoes
<1>3. ASSUME NEW b \in BOOLEAN, ReadLine(b) PROVE LeftoverInv'
  BY Zenon, <1>3 DEF ReadLine
<1>4. ASSUME ReadFails PROVE LeftoverInv'
  BY Zenon, <1>4 DEF ReadFails, MainGoes
<1>5. ASSUME NEW d \in Dest, TeePut(d) PROVE LeftoverInv'
  BY Zenon, <1>5 DEF TeePut
<1>6. ASSUME NEW d \in Dest, TeePutFails(d) PROVE LeftoverInv'
  BY Zenon, <1>6 DEF TeePutFails
<1>7. ASSUME PostFilter PROVE LeftoverInv'
  BY Zenon, <1>7 DEF PostFilter
<1>8. ASSUME DrainDone PROVE LeftoverInv'
  BY Zenon, <1>8 DEF DrainDone, MainGoes
<1>9. ASSUME DrainTimeout PROVE LeftoverInv'
  BY Zenon, <1>9 DEF DrainTimeout, MainGoes
<1>10. ASSUME Destroy PROVE LeftoverInv'
  <2>1. \A d \in Dest, m \in Msg : ~InQueue(d, m)'
    BY Zenon, <1>10, EmptyOccurs DEF Destroy
  <2> QED  BY Zenon, <1>10, <2>1 DEF Destroy, HasQueue
<1>11. ASSUME Exit PROVE LeftoverInv'
  BY Zenon, <1>11 DEF Exit
<1>12. ASSUME NEW a \in Addr, NEW t \in Thread, Open(a, t) PROVE LeftoverInv'
  BY Zenon, <1>12 DEF Open
<1>13. ASSUME Insert PROVE LeftoverInv'
  BY Zenon, <1>13 DEF Insert
<1>14. ASSUME NEW t \in Thread, Connect(t) PROVE LeftoverInv'
  BY Zenon, <1>14 DEF Connect
<1>15. ASSUME NEW t \in Thread, ConnectFails(t) PROVE LeftoverInv'
  BY Zenon, <1>15 DEF ConnectFails, ThreadGoes
<1>16. ASSUME NEW t \in Thread, MqInit(t) PROVE LeftoverInv'
  BY Zenon, <1>16 DEF MqInit
<1>17. ASSUME NEW t \in Thread, Get(t) PROVE LeftoverInv'
  <2> SUFFICES ASSUME ~Alive PROVE LeftoverInv'
    BY Zenon, <1>17 DEF Get
  <2> DEFINE d == ThDest(t)
  <2>0. d \in Dest
    BY Zenon, <1>17 DEF Get, ThDest
  <2>1. /\ thMsg' = [thMsg EXCEPT ![t] = Head(mq[d])]
        /\ mq' = [mq EXCEPT ![d] = Tail(mq[d])]
        /\ thState' = [thState EXCEPT ![t] = "write"]
        /\ stale' = stale /\ mq[d] # <<>>
    BY Zenon, <1>17 DEF Get
  <2> HIDE DEF d
  <2>2. mq[d] \in Seq(Payload)
    BY Zenon, <2>0
  <2>3. Head(mq[d]) \in Payload
    BY <2>1, <2>2
  <2>4. \A m \in Msg : m # Head(mq[d]) /\ ~Occurs(Tail(mq[d]), m)
    BY Zenon, <2>0, <2>1, <2>2, TailOccurs
  <2>5. Head(mq[d]) = Empty
    BY <2>3, <2>4 DEF Msg, Payload, Empty
  <2>6. \A e \in Dest, m \in Msg : ~InQueue(e, m)'
    BY Zenon, <2>0, <2>1, <2>4
  <2> QED  BY Zenon, <2>1, <2>5, <2>6
<1>18. ASSUME NEW t \in Thread, GetReturnsFalse(t) PROVE LeftoverInv'
  BY Zenon, <1>18 DEF GetReturnsFalse
<1>19. ASSUME NEW t \in Thread, Write(t) PROVE LeftoverInv'
  BY Zenon, <1>19 DEF Write
<1>20. ASSUME NEW t \in Thread, WriteRefused(t) PROVE LeftoverInv'
  BY Zenon, <1>20 DEF WriteRefused, ThreadGoes
<1>21. ASSUME NEW t \in Thread, WriteFails(t) PROVE LeftoverInv'
  BY Zenon, <1>21 DEF WriteFails, ThreadGoes
<1>22. ASSUME NEW t \in Thread, Processed(t) PROVE LeftoverInv'
  BY Zenon, <1>22 DEF Processed
<1>23. ASSUME NEW t \in Thread, Requeue(t) PROVE LeftoverInv'
  <2> SUFFICES ASSUME ~Alive PROVE LeftoverInv'
    BY Zenon, <1>23 DEF Requeue
  <2> DEFINE d == ThDest(t)
  <2>0. d \in Dest
    BY Zenon, <1>23 DEF Requeue, ThDest
  <2>1. /\ mq' = [mq EXCEPT ![d] = Append(mq[d], thMsg[t])]
        /\ thState' = [thState EXCEPT ![t] = "erase"]
        /\ UNCHANGED <<stale, thMsg>> /\ thMsg[t] = Empty
    BY Zenon, <1>23 DEF Requeue
  <2> HIDE DEF d
  <2>2. mq[d] \in Seq(Payload) /\ Empty \in Payload
    BY <2>0 DEF Payload, Empty
  <2>3. \A m \in Msg : m # Empty /\ ~Occurs(mq[d], m)
    BY <2>0 DEF Msg, Empty
  <2>4. \A m \in Msg : ~Occurs(Append(mq[d], Empty), m)
    BY Zenon, <2>2, <2>3, AppendOccurs
  <2>6. \A e \in Dest, m \in Msg : ~InQueue(e, m)'
    BY Zenon, <2>0, <2>1, <2>4
  <2> QED  BY Zenon, <2>1, <2>6
<1>24. ASSUME NEW t \in Thread, RequeueLost(t) PROVE LeftoverInv'
  BY Zenon, <1>24 DEF RequeueLost
<1>25. ASSUME NEW t \in Thread, Erase(t) PROVE LeftoverInv'
  BY Zenon, <1>25 DEF Erase
<1>26. CASE UNCHANGED vars
  BY Zenon, <1>26 DEF vars
<1> QED
  BY ZenonT(30), <1>1, <1>2, <1>3, <1>4, <1>5, <1>6, <1>7, <1>8, <1>9, <1>10, <1>11, <1>12, <1>13,
     <1>14, <1>15, <1>16, <1>17, <1>18, <1>19, <1>20, <1>21, <1>22, <1>23, <1>24, <1>25, <1>26
  DEF Next, CalmNext, MainRuns, ConnectorRuns, ThreadRuns, TeePutDrops,
      GetFails, GetInterrupted

\* When the process has exited, a queue that a late mq_init made
\* (connector.hpp:103) holds no message for a later process.
THEOREM NothingLeftOver == Spec => []LeftoverClean
<1>1. Init => TypeInv /\ LeftoverInv
  BY Zenon, TypeInit DEF Init, LeftoverInv, Alive
<1>2. TypeInv /\ LeftoverInv /\ [Next]_vars => (TypeInv /\ LeftoverInv)'
  BY Zenon, TypeStep, LeftoverStep
<1>3. TypeInv /\ LeftoverInv => LeftoverClean
  BY Zenon DEF TypeInv, TypeOK, LeftoverInv, LeftoverClean, Alive
<1> QED  BY <1>1, <1>2, <1>3, PTL DEF Spec

-----------------------------------------------------------------------------
(* The order of the messages on one connection.                            *)

\* The messages of a queue are in the order they were read in.
Ordered(s) ==
  \A i, j \in 1..Len(s) : i < j /\ s[i] # Empty /\ s[j] # Empty => s[i] < s[j]

\* The message x was read before every message of the queue.
Below(x, s) == \A i \in 1..Len(s) : s[i] # Empty => x < s[i]

\* Putting a message that was read last keeps a queue in order.
LEMMA AppendOrdered ==
  ASSUME NEW s \in Seq(Payload), NEW e \in Payload, Ordered(s),
         e # Empty => \A i \in 1..Len(s) : s[i] < e
  PROVE  Ordered(Append(s, e))
<1> DEFINE a == Append(s, e)
<1>1. /\ Len(a) = Len(s) + 1 /\ Len(s) \in Nat
      /\ \A i \in 1..Len(s) : a[i] = s[i]
      /\ a[Len(s) + 1] = e
  OBVIOUS
<1> HIDE DEF a
<1>2. \A i \in 1..Len(a) : i \in 1..Len(s) \/ i = Len(s) + 1
  BY <1>1
<1>3. \A i, j \in 1..Len(a) : i < j => i \in 1..Len(s)
  BY <1>1
<1>4. Ordered(a)
  BY Zenon, <1>1, <1>2, <1>3 DEF Ordered
<1> QED  BY Zenon, <1>4 DEF a

\* Putting a message that was read after x keeps x before the queue.
LEMMA AppendBelow ==
  ASSUME NEW s \in Seq(Payload), NEW e \in Payload, NEW x, Below(x, s),
         e # Empty => x < e
  PROVE  Below(x, Append(s, e))
<1> DEFINE a == Append(s, e)
<1>1. /\ Len(a) = Len(s) + 1 /\ Len(s) \in Nat
      /\ \A i \in 1..Len(s) : a[i] = s[i]
      /\ a[Len(s) + 1] = e
  OBVIOUS
<1> HIDE DEF a
<1>2. \A i \in 1..Len(a) : i \in 1..Len(s) \/ i = Len(s) + 1
  BY <1>1
<1>3. Below(x, a)
  BY Zenon, <1>1, <1>2 DEF Below
<1> QED  BY Zenon, <1>3 DEF a

\* Taking the first message leaves a queue in order, behind that message.
LEMMA TailOrdered ==
  ASSUME NEW s \in Seq(Payload), s # <<>>, Ordered(s)
  PROVE  Ordered(Tail(s)) /\ (Head(s) # Empty => Below(Head(s), Tail(s)))
<1> DEFINE r == Tail(s)
<1>1. /\ Len(s) \in Nat /\ Len(s) > 0 /\ Head(s) = s[1]
      /\ Len(r) = Len(s) - 1
      /\ \A i \in 1..Len(r) : r[i] = s[i + 1]
  OBVIOUS
<1> HIDE DEF r
<1>2. \A i \in 1..Len(r) : i + 1 \in 1..Len(s) /\ 1 < i + 1
  BY <1>1
<1>3. \A i, j \in 1..Len(r) : i < j => i + 1 < j + 1
  BY <1>1
<1>4. 1 \in 1..Len(s)
  BY <1>1
<1>5. Ordered(r)
  BY Zenon, <1>1, <1>2, <1>3 DEF Ordered
<1>6. Head(s) # Empty => Below(Head(s), r)
  BY Zenon, <1>1, <1>2, <1>4 DEF Ordered, Below
<1> QED  BY Zenon, <1>5, <1>6 DEF r

\* What was read before a queue's messages was read before its first and its
\* remaining ones.
LEMMA TailBelow ==
  ASSUME NEW s \in Seq(Payload), s # <<>>, NEW x, Below(x, s)
  PROVE  Below(x, Tail(s)) /\ (Head(s) # Empty => x < Head(s))
<1> DEFINE r == Tail(s)
<1>1. /\ Len(s) \in Nat /\ Len(s) > 0 /\ Head(s) = s[1]
      /\ Len(r) = Len(s) - 1
      /\ \A i \in 1..Len(r) : r[i] = s[i + 1]
  OBVIOUS
<1> HIDE DEF r
<1>2. 1 \in 1..Len(s) /\ \A i \in 1..Len(r) : i + 1 \in 1..Len(s)
  BY <1>1
<1>3. Below(x, r) /\ (Head(s) # Empty => x < Head(s))
  BY Zenon, <1>1, <1>2 DEF Below
<1> QED  BY Zenon, <1>3 DEF r

\* An empty queue is in order, and everything is before it.
LEMMA EmptyOrdered == Ordered(<<>>) /\ \A x : Below(x, <<>>)
BY DEF Ordered, Below

\* What thread t wrote last was accepted by its destination.
LastInv ==
  \A t \in Thread : thLast[t] # Empty =>
    thState[t] # "idle" /\ thLast[t] \in accepted[ThDest(t)]

\* Thread t serves d.
Serves(t, d) == thState[t] # "idle" /\ ThDest(t) = d

\* As long as nothing was put back on the queue of d, the queue is in the order
\* of the input, and what a thread of d has written, and what it is about to
\* write, comes before it in that order.
InOrder(d) ==
  /\ Ordered(mq[d])
  /\ \A t \in Thread : Serves(t, d) =>
       /\ Below(thLast[t], mq[d])
       /\ thState[t] = "write" /\ thMsg[t] # Empty =>
            thLast[t] < thMsg[t] /\ Below(thMsg[t], mq[d])

OrderInv == LastInv /\ \A d \in Dest \ requeued : InOrder(d)

\* Every step keeps what was written last among the accepted messages.
LEMMA LastStep == IInv /\ LastInv /\ [Next]_vars => LastInv'
<1> SUFFICES ASSUME IInv, LastInv, [Next]_vars PROVE LastInv'
  BY Zenon
<1> USE PublisherAssumption DEF IInv, TypeInv, TypeOK, LastInv, ThDest
<1> USE DEF mainRest, mqVars, connVars, thVars, histVars, counters
<1>1. ASSUME PreFilterReady PROVE LastInv'
  BY Zenon, <1>1 DEF PreFilterReady, MainGoes
<1>2. ASSUME PreFilterTimeout PROVE LastInv'
  BY Zenon, <1>2 DEF PreFilterTimeout, MainGoes
<1>3. ASSUME NEW b \in BOOLEAN, ReadLine(b) PROVE LastInv'
  BY Zenon, <1>3 DEF ReadLine
<1>4. ASSUME ReadFails PROVE LastInv'
  BY Zenon, <1>4 DEF ReadFails, MainGoes
<1>5. ASSUME NEW d \in Dest, TeePut(d) PROVE LastInv'
  BY Zenon, <1>5 DEF TeePut
<1>6. ASSUME NEW d \in Dest, TeePutFails(d) PROVE LastInv'
  BY Zenon, <1>6 DEF TeePutFails
<1>7. ASSUME PostFilter PROVE LastInv'
  BY Zenon, <1>7 DEF PostFilter
<1>8. ASSUME DrainDone PROVE LastInv'
  BY Zenon, <1>8 DEF DrainDone, MainGoes
<1>9. ASSUME DrainTimeout PROVE LastInv'
  BY Zenon, <1>9 DEF DrainTimeout, MainGoes
<1>10. ASSUME Destroy PROVE LastInv'
  BY Zenon, <1>10 DEF Destroy
<1>11. ASSUME Exit PROVE LastInv'
  BY Zenon, <1>11 DEF Exit
<1>12. ASSUME NEW a \in Addr, NEW t \in Thread, Open(a, t) PROVE LastInv'
  BY Zenon, <1>12 DEF Open
<1>13. ASSUME Insert PROVE LastInv'
  BY Zenon, <1>13 DEF Insert
<1>14. ASSUME NEW t \in Thread, Connect(t) PROVE LastInv'
  BY Zenon, <1>14 DEF Connect
<1>15. ASSUME NEW t \in Thread, ConnectFails(t) PROVE LastInv'
  BY Zenon, <1>15 DEF ConnectFails, ThreadGoes
<1>16. ASSUME NEW t \in Thread, MqInit(t) PROVE LastInv'
  BY Zenon, <1>16 DEF MqInit
<1>17. ASSUME NEW t \in Thread, Get(t) PROVE LastInv'
  BY Zenon, <1>17 DEF Get
<1>18. ASSUME NEW t \in Thread, GetReturnsFalse(t) PROVE LastInv'
  BY Zenon, <1>18 DEF GetReturnsFalse
<1>19. ASSUME NEW t \in Thread, Write(t) PROVE LastInv'
  <2> DEFINE d == ThDest(t)
  <2>1. d \in Dest /\ thMsg[t] \in Msg /\ Has(t, d, thMsg[t])
    BY <1>19 DEF Write, Has, Holds, Msg, Payload, Empty
  <2>2. thMsg[t] \in accepted[d]
    BY Zenon, <2>1 DEF PlaceInv, Place
  <2> QED  BY Zenon, <1>19, <2>2 DEF Write
<1>20. ASSUME NEW t \in Thread, WriteRefused(t) PROVE LastInv'
  BY Zenon, <1>20 DEF WriteRefused, ThreadGoes
<1>21. ASSUME NEW t \in Thread, WriteFails(t) PROVE LastInv'
  BY Zenon, <1>21 DEF WriteFails, ThreadGoes
<1>22. ASSUME NEW t \in Thread, Processed(t) PROVE LastInv'
  BY Zenon, <1>22 DEF Processed
<1>23. ASSUME NEW t \in Thread, Requeue(t) PROVE LastInv'
  BY Zenon, <1>23 DEF Requeue
<1>24. ASSUME NEW t \in Thread, RequeueLost(t) PROVE LastInv'
  BY Zenon, <1>24 DEF RequeueLost
<1>25. ASSUME NEW t \in Thread, Erase(t) PROVE LastInv'
  BY Zenon, <1>25 DEF Erase
<1>26. CASE UNCHANGED vars
  BY Zenon, <1>26 DEF vars
<1> QED
  BY ZenonT(30), <1>1, <1>2, <1>3, <1>4, <1>5, <1>6, <1>7, <1>8, <1>9, <1>10, <1>11, <1>12, <1>13,
     <1>14, <1>15, <1>16, <1>17, <1>18, <1>19, <1>20, <1>21, <1>22, <1>23, <1>24, <1>25, <1>26
  DEF Next, CalmNext, MainRuns, ConnectorRuns, ThreadRuns, TeePutDrops,
      GetFails, GetInterrupted

\* A step that changes neither the queue of d, nor what the threads of d have
\* written and are about to write, leaves the order alone.
LEMMA OrderStutter ==
  ASSUME NEW d \in Dest, InOrder(d), mq'[d] = mq[d],
         \A t \in Thread : Serves(t, d)' =>
           /\ Serves(t, d) /\ thLast'[t] = thLast[t]
           /\ (thState'[t] = "write" => thState[t] = "write" /\ thMsg'[t] = thMsg[t])
  PROVE  InOrder(d)'
BY Zenon DEF InOrder

\* Every step keeps the order of a queue nothing was put back on.
LEMMA OrderStep == IInv /\ OrderInv /\ [Next]_vars => OrderInv'
<1> SUFFICES ASSUME IInv, OrderInv, [Next]_vars, NEW e \in Dest, e \notin requeued'
             PROVE  InOrder(e)'
  BY Zenon, LastStep DEF OrderInv
<1> USE PublisherAssumption DEF IInv, TypeInv, TypeOK
<1> USE DEF mainRest, mqVars, connVars, thVars, histVars, counters
<1>0. e \notin requeued => InOrder(e)
  BY Zenon DEF OrderInv
<1> USE <1>0
<1>1. ASSUME PreFilterReady PROVE InOrder(e)'
  <2>1. /\ e \notin requeued /\ mq'[e] = mq[e]
        /\ \A u \in Thread : Serves(u, e)' =>
             /\ Serves(u, e) /\ thLast'[u] = thLast[u]
             /\ (thState'[u] = "write" => thState[u] = "write" /\ thMsg'[u] = thMsg[u])
    BY Zenon, <1>1 DEF PreFilterReady, MainGoes, Serves, ThDest
  <2> QED  BY ZenonT(30), <2>1, OrderStutter
<1>2. ASSUME PreFilterTimeout PROVE InOrder(e)'
  <2>1. /\ e \notin requeued /\ mq'[e] = mq[e]
        /\ \A u \in Thread : Serves(u, e)' =>
             /\ Serves(u, e) /\ thLast'[u] = thLast[u]
             /\ (thState'[u] = "write" => thState[u] = "write" /\ thMsg'[u] = thMsg[u])
    BY Zenon, <1>2 DEF PreFilterTimeout, MainGoes, Serves, ThDest
  <2> QED  BY Zenon, <2>1, OrderStutter
<1>3. ASSUME NEW b \in BOOLEAN, ReadLine(b) PROVE InOrder(e)'
  <2>1. /\ e \notin requeued /\ mq'[e] = mq[e]
        /\ \A u \in Thread : Serves(u, e)' =>
             /\ Serves(u, e) /\ thLast'[u] = thLast[u]
             /\ (thState'[u] = "write" => thState[u] = "write" /\ thMsg'[u] = thMsg[u])
    BY Zenon, <1>3 DEF ReadLine, Serves, ThDest
  <2> QED  BY ZenonT(30), <2>1, OrderStutter
<1>4. ASSUME ReadFails PROVE InOrder(e)'
  <2>1. /\ e \notin requeued /\ mq'[e] = mq[e]
        /\ \A u \in Thread : Serves(u, e)' =>
             /\ Serves(u, e) /\ thLast'[u] = thLast[u]
             /\ (thState'[u] = "write" => thState[u] = "write" /\ thMsg'[u] = thMsg[u])
    BY Zenon, <1>4 DEF ReadFails, MainGoes, Serves, ThDest
  <2> QED  BY Zenon, <2>1, OrderStutter
<1>5. ASSUME NEW d \in Dest, TeePut(d) PROVE InOrder(e)'
  <2>1. /\ e \notin requeued /\ UNCHANGED <<thState, thMsg, thLast, thAddr>>
        /\ mq' = [mq EXCEPT ![d] = Append(mq[d], cur)]
        /\ cur \in Payload /\ cur \notin accepted[d] /\ cur \in {Empty, nread}
    BY Zenon, <1>5 DEF TeePut, FreshInv
  <2>2. \A u \in Thread : Serves(u, e)' <=> Serves(u, e)
    BY Zenon, <2>1 DEF Serves, ThDest
  <2>3. CASE e # d
    BY Zenon, <2>1, <2>2, <2>3, OrderStutter
  <2>4. CASE e = d
    <3>1. mq'[e] = Append(mq[e], cur) /\ mq[e] \in Seq(Payload) /\ InOrder(e)
      BY Zenon, <2>1, <2>4
    <3>2. \A m \in Msg : cur # Empty /\ m \in accepted[e] => m < cur
      BY <2>1, <2>4 DEF FreshInv, Msg
    <3>3. ASSUME NEW i \in 1..Len(mq[e]), cur # Empty PROVE mq[e][i] < cur
      <4>1. mq[e][i] \in Payload
        BY <3>1
      <4>2. CASE mq[e][i] = Empty
        BY <2>1, <3>3, <4>2 DEF Payload, Empty
      <4>3. CASE mq[e][i] \in Msg
        <5>1. InQueue(e, mq[e][i])
          BY Zenon DEF InQueue, Occurs
        <5> QED  BY Zenon, <3>2, <3>3, <4>3, <5>1 DEF PlaceInv, Place
      <4> QED  BY <4>1, <4>2, <4>3 DEF Payload, Msg, Empty
    <3>4. Ordered(mq[e])'
      BY Zenon, <2>1, <3>1, <3>3, AppendOrdered DEF InOrder
    <3>5. ASSUME NEW u \in Thread, Serves(u, e)
          PROVE  Below(thLast[u], mq'[e])
      <4>1. cur # Empty => thLast[u] < cur
        <5>1. CASE thLast[u] = Empty
          BY <2>1, <5>1 DEF Payload, Empty
        <5>2. CASE thLast[u] # Empty
          BY Zenon, <3>2, <3>5, <5>2 DEF OrderInv, LastInv, Serves, Msg
        <5> QED  BY Zenon, <5>1, <5>2
      <4> QED  BY Zenon, <2>1, <3>1, <3>5, <4>1, AppendBelow DEF InOrder
    <3>6. ASSUME NEW u \in Thread, Serves(u, e), thState[u] = "write", thMsg[u] # Empty
          PROVE  thLast[u] < thMsg[u] /\ Below(thMsg[u], mq'[e])
      <4>1. thMsg[u] \in Msg /\ Has(u, e, thMsg[u])
        BY <3>6 DEF Has, Holds, Serves, Payload, Msg, Empty
      <4>2. cur # Empty => thMsg[u] < cur
        BY Zenon, <3>2, <4>1 DEF PlaceInv, Place
      <4> QED  BY ZenonT(30), <2>1, <3>1, <3>6, <4>2, AppendBelow DEF InOrder
    <3> QED  BY Zenon, <2>1, <2>2, <3>4, <3>5, <3>6 DEF InOrder
  <2> QED  BY Zenon, <2>3, <2>4
<1>6. ASSUME NEW d \in Dest, TeePutFails(d) PROVE InOrder(e)'
  <2>1. /\ e \notin requeued /\ mq'[e] = mq[e]
        /\ \A u \in Thread : Serves(u, e)' =>
             /\ Serves(u, e) /\ thLast'[u] = thLast[u]
             /\ (thState'[u] = "write" => thState[u] = "write" /\ thMsg'[u] = thMsg[u])
    BY Zenon, <1>6 DEF TeePutFails, Serves, ThDest
  <2> QED  BY ZenonT(30), <2>1, OrderStutter
<1>7. ASSUME PostFilter PROVE InOrder(e)'
  <2>1. /\ e \notin requeued /\ mq'[e] = mq[e]
        /\ \A u \in Thread : Serves(u, e)' =>
             /\ Serves(u, e) /\ thLast'[u] = thLast[u]
             /\ (thState'[u] = "write" => thState[u] = "write" /\ thMsg'[u] = thMsg[u])
    BY Zenon, <1>7 DEF PostFilter, Serves, ThDest
  <2> QED  BY Zenon, <2>1, OrderStutter
<1>8. ASSUME DrainDone PROVE InOrder(e)'
  <2>1. /\ e \notin requeued /\ mq'[e] = mq[e]
        /\ \A u \in Thread : Serves(u, e)' =>
             /\ Serves(u, e) /\ thLast'[u] = thLast[u]
             /\ (thState'[u] = "write" => thState[u] = "write" /\ thMsg'[u] = thMsg[u])
    BY Zenon, <1>8 DEF DrainDone, MainGoes, Serves, ThDest
  <2> QED  BY Zenon, <2>1, OrderStutter
<1>9. ASSUME DrainTimeout PROVE InOrder(e)'
  <2>1. /\ e \notin requeued /\ mq'[e] = mq[e]
        /\ \A u \in Thread : Serves(u, e)' =>
             /\ Serves(u, e) /\ thLast'[u] = thLast[u]
             /\ (thState'[u] = "write" => thState[u] = "write" /\ thMsg'[u] = thMsg[u])
    BY Zenon, <1>9 DEF DrainTimeout, MainGoes, Serves, ThDest
  <2> QED  BY Zenon, <2>1, OrderStutter
<1>10. ASSUME Destroy PROVE InOrder(e)'
  <2>1. mq'[e] = <<>> /\ UNCHANGED <<thState, thMsg, thLast, thAddr, requeued>>
    BY Zenon, <1>10 DEF Destroy
  <2>2. \A u \in Thread : Serves(u, e)' <=> Serves(u, e)
    BY Zenon, <2>1 DEF Serves, ThDest
  <2>3. InOrder(e)
    BY ZenonT(30), <2>1
  <2> QED  BY ONLY ZenonT(30), <2>1, <2>2, <2>3, EmptyOrdered DEF InOrder
<1>11. ASSUME Exit PROVE InOrder(e)'
  <2>1. /\ e \notin requeued /\ mq'[e] = mq[e]
        /\ \A u \in Thread : Serves(u, e)' =>
             /\ Serves(u, e) /\ thLast'[u] = thLast[u]
             /\ (thState'[u] = "write" => thState[u] = "write" /\ thMsg'[u] = thMsg[u])
    BY Zenon, <1>11 DEF Exit, Serves, ThDest
  <2> QED  BY Zenon, <2>1, OrderStutter
<1>12. ASSUME NEW a \in Addr, NEW t \in Thread, Open(a, t) PROVE InOrder(e)'
  <2>1. e \notin requeued /\ UNCHANGED <<mq, thMsg>>
    BY Zenon, <1>12 DEF Open
  <2>2. \A u \in Thread \ {t} : Serves(u, e)' =>
          /\ Serves(u, e) /\ thLast'[u] = thLast[u] /\ thState'[u] = thState[u]
    BY Zenon, <1>12 DEF Open, Serves, ThDest
  <2>3. thLast'[t] = Empty /\ thState'[t] # "write"
    BY Zenon, <1>12 DEF Open, OrderInv, LastInv
  <2>4. Below(Empty, mq[e])
    BY DEF Below, Payload, Empty
  <2> QED  BY ZenonT(30), <2>1, <2>2, <2>3, <2>4 DEF InOrder
<1>13. ASSUME Insert PROVE InOrder(e)'
  <2>1. /\ e \notin requeued /\ mq'[e] = mq[e]
        /\ \A u \in Thread : Serves(u, e)' =>
             /\ Serves(u, e) /\ thLast'[u] = thLast[u]
             /\ (thState'[u] = "write" => thState[u] = "write" /\ thMsg'[u] = thMsg[u])
    BY Zenon, <1>13 DEF Insert, Serves, ThDest
  <2> QED  BY Zenon, <2>1, OrderStutter
<1>14. ASSUME NEW t \in Thread, Connect(t) PROVE InOrder(e)'
  <2>1. e \notin requeued /\ UNCHANGED <<mq, thMsg>>
    BY Zenon, <1>14 DEF Connect
  <2>2. \A u \in Thread \ {t} : Serves(u, e)' =>
          /\ Serves(u, e) /\ thLast'[u] = thLast[u] /\ thState'[u] = thState[u]
    BY Zenon, <1>14 DEF Connect, Serves, ThDest
  <2>3. thLast'[t] = Empty /\ thState'[t] # "write"
    BY Zenon, <1>14 DEF Connect, OrderInv, LastInv
  <2>4. Below(Empty, mq[e])
    BY DEF Below, Payload, Empty
  <2> QED  BY ZenonT(30), <2>1, <2>2, <2>3, <2>4 DEF InOrder
<1>15. ASSUME NEW t \in Thread, ConnectFails(t) PROVE InOrder(e)'
  <2>1. /\ e \notin requeued /\ mq'[e] = mq[e]
        /\ \A u \in Thread : Serves(u, e)' =>
             /\ Serves(u, e) /\ thLast'[u] = thLast[u]
             /\ (thState'[u] = "write" => thState[u] = "write" /\ thMsg'[u] = thMsg[u])
    BY Zenon, <1>15 DEF ConnectFails, ThreadGoes, Serves, ThDest
  <2> QED  BY Zenon, <2>1, OrderStutter
<1>16. ASSUME NEW t \in Thread, MqInit(t) PROVE InOrder(e)'
  <2>1. /\ e \notin requeued /\ mq'[e] = mq[e]
        /\ \A u \in Thread : Serves(u, e)' =>
             /\ Serves(u, e) /\ thLast'[u] = thLast[u]
             /\ (thState'[u] = "write" => thState[u] = "write" /\ thMsg'[u] = thMsg[u])
    BY Zenon, <1>16 DEF MqInit, Serves, ThDest
  <2> QED  BY Zenon, <2>1, OrderStutter
<1>17. ASSUME NEW t \in Thread, Get(t) PROVE InOrder(e)'
  <2> DEFINE d == ThDest(t)
  <2>0. d \in Dest /\ Serves(t, d)
    BY Zenon, <1>17 DEF Get, ThDest, Serves
  <2>1. /\ e \notin requeued /\ UNCHANGED <<thLast, thAddr>>
        /\ thMsg' = [thMsg EXCEPT ![t] = Head(mq[d])]
        /\ mq' = [mq EXCEPT ![d] = Tail(mq[d])] /\ mq[d] # <<>>
        /\ thState' = [thState EXCEPT ![t] = "write"] /\ thState[t] = "get"
    BY Zenon, <1>17 DEF Get
  <2>2. \A u \in Thread : Serves(u, e)' <=> Serves(u, e)
    BY Zenon, <2>1 DEF Serves, ThDest
  <2>3. Serves(t, e) => e = d
    BY Zenon DEF Serves
  <2> HIDE DEF d
  <2>4. CASE e # d
    <3>1. mq'[e] = mq[e] /\ \A u \in Thread : Serves(u, e)' =>
            /\ Serves(u, e) /\ thLast'[u] = thLast[u]
            /\ (thState'[u] = "write" => thState[u] = "write" /\ thMsg'[u] = thMsg[u])
      BY Zenon, <2>1, <2>2, <2>3, <2>4
    <3> QED  BY Zenon, <2>1, <3>1, OrderStutter
  <2>5. CASE e = d
    <3>1. mq'[e] = Tail(mq[e]) /\ mq[e] \in Seq(Payload) /\ mq[e] # <<>> /\ InOrder(e)
      BY Zenon, <2>0, <2>1, <2>5
    <3>2. Ordered(mq[e])' /\ (Head(mq[e]) # Empty => Below(Head(mq[e]), mq'[e]))
      BY ONLY Zenon, <3>1, TailOrdered DEF InOrder
    <3>3. \A x : Below(x, mq[e]) => Below(x, mq'[e]) /\ (Head(mq[e]) # Empty => x < Head(mq[e]))
      BY ONLY SMTT(30), <3>1, TailBelow
    <3>4. ASSUME NEW u \in Thread \ {t}, Serves(u, e)
          PROVE  /\ Below(thLast'[u], mq'[e])
                 /\ thState'[u] = "write" /\ thMsg'[u] # Empty =>
                      thLast'[u] < thMsg'[u] /\ Below(thMsg'[u], mq'[e])
      BY Zenon, <2>1, <3>1, <3>3, <3>4 DEF InOrder
    <3>5. /\ Below(thLast'[t], mq'[e])
          /\ thMsg'[t] # Empty => thLast'[t] < thMsg'[t] /\ Below(thMsg'[t], mq'[e])
      <4>1. thMsg'[t] = Head(mq[e]) /\ thLast'[t] = thLast[t]
        BY Zenon, <2>1, <2>5
      <4>2. Below(thLast[t], mq[e])
        BY Zenon, <2>0, <2>5, <3>1 DEF InOrder
      <4> QED  BY ONLY ZenonT(30), <3>2, <3>3, <4>1, <4>2
    <3> QED  BY ZenonT(30), <2>2, <3>2, <3>4, <3>5 DEF InOrder
  <2> QED  BY Zenon, <2>4, <2>5
<1>18. ASSUME NEW t \in Thread, GetReturnsFalse(t) PROVE InOrder(e)'
  <2>1. /\ e \notin requeued /\ mq'[e] = mq[e]
        /\ \A u \in Thread : Serves(u, e)' =>
             /\ Serves(u, e) /\ thLast'[u] = thLast[u]
             /\ (thState'[u] = "write" => thState[u] = "write" /\ thMsg'[u] = thMsg[u])
    BY Zenon, <1>18 DEF GetReturnsFalse, Serves, ThDest
  <2> QED  BY Zenon, <2>1, OrderStutter
<1>19. ASSUME NEW t \in Thread, Write(t) PROVE InOrder(e)'
  <2>1. /\ e \notin requeued /\ UNCHANGED <<mq, thMsg, thAddr>>
        /\ thState[t] = "write" /\ thMsg[t] # Empty
        /\ thState' = [thState EXCEPT ![t] = "post"]
        /\ thLast' = [thLast EXCEPT ![t] = thMsg[t]]
    BY Zenon, <1>19 DEF Write
  <2>2. \A u \in Thread : Serves(u, e)' <=> Serves(u, e)
    BY Zenon, <2>1 DEF Serves, ThDest
  <2>3. \A u \in Thread \ {t} : thState'[u] = thState[u] /\ thLast'[u] = thLast[u]
    BY Zenon, <2>1
  <2>4. thState'[t] # "write" /\ thLast'[t] = thMsg[t]
    BY Zenon, <2>1
  <2> QED  BY Zenon, <2>1, <2>2, <2>3, <2>4 DEF InOrder
<1>20. ASSUME NEW t \in Thread, WriteRefused(t) PROVE InOrder(e)'
  <2>1. /\ e \notin requeued /\ mq'[e] = mq[e]
        /\ \A u \in Thread : Serves(u, e)' =>
             /\ Serves(u, e) /\ thLast'[u] = thLast[u]
             /\ (thState'[u] = "write" => thState[u] = "write" /\ thMsg'[u] = thMsg[u])
    BY Zenon, <1>20 DEF WriteRefused, ThreadGoes, Serves, ThDest
  <2> QED  BY Zenon, <2>1, OrderStutter
<1>21. ASSUME NEW t \in Thread, WriteFails(t) PROVE InOrder(e)'
  <2>1. /\ e \notin requeued /\ mq'[e] = mq[e]
        /\ \A u \in Thread : Serves(u, e)' =>
             /\ Serves(u, e) /\ thLast'[u] = thLast[u]
             /\ (thState'[u] = "write" => thState[u] = "write" /\ thMsg'[u] = thMsg[u])
    BY Zenon, <1>21 DEF WriteFails, ThreadGoes, Serves, ThDest
  <2> QED  BY Zenon, <2>1, OrderStutter
<1>22. ASSUME NEW t \in Thread, Processed(t) PROVE InOrder(e)'
  <2>1. /\ e \notin requeued /\ mq'[e] = mq[e]
        /\ \A u \in Thread : Serves(u, e)' =>
             /\ Serves(u, e) /\ thLast'[u] = thLast[u]
             /\ (thState'[u] = "write" => thState[u] = "write" /\ thMsg'[u] = thMsg[u])
    BY Zenon, <1>22 DEF Processed, Serves, ThDest
  <2> QED  BY Zenon, <2>1, OrderStutter
<1>23. ASSUME NEW t \in Thread, Requeue(t) PROVE InOrder(e)'
  <2> DEFINE d == ThDest(t)
  <2>0. d \in Dest
    BY Zenon, <1>23 DEF Requeue, ThDest
  <2>1. /\ UNCHANGED <<thMsg, thLast, thAddr>>
        /\ mq' = [mq EXCEPT ![d] = Append(mq[d], thMsg[t])]
        /\ requeued' = IF thMsg[t] = Empty THEN requeued ELSE requeued \cup {d}
        /\ thState' = [thState EXCEPT ![t] = "erase"] /\ thState[t] = "requeue"
    BY Zenon, <1>23 DEF Requeue
  <2>2. \A u \in Thread : Serves(u, e)' <=> Serves(u, e)
    BY Zenon, <2>1 DEF Serves, ThDest
  <2>3. \A u \in Thread : thState'[u] = "write" => thState[u] = "write"
    BY Zenon, <2>1
  <2> HIDE DEF d
  <2>4. e \notin requeued /\ (e = d => thMsg[t] = Empty)
    BY Zenon, <2>1
  <2>5. CASE e # d
    BY Zenon, <2>0, <2>1, <2>2, <2>3, <2>4, <2>5, OrderStutter
  <2>6. CASE e = d
    <3>1. mq'[e] = Append(mq[e], Empty) /\ mq[e] \in Seq(Payload) /\ InOrder(e)
      BY Zenon, <2>0, <2>1, <2>4, <2>6
    <3>2. Empty \in Payload
      BY DEF Payload, Empty
    <3>3. Ordered(mq[e])'
      BY ONLY SMTT(30), <3>1, <3>2, AppendOrdered DEF InOrder
    <3>4. \A x : Below(x, mq[e]) => Below(x, mq'[e])
      BY ONLY SMTT(30), <3>1, <3>2, AppendBelow
    <3> QED  BY ZenonT(30), <2>1, <2>2, <2>3, <3>1, <3>3, <3>4 DEF InOrder
  <2> QED  BY Zenon, <2>5, <2>6
<1>24. ASSUME NEW t \in Thread, RequeueLost(t) PROVE InOrder(e)'
  <2>1. /\ e \notin requeued /\ mq'[e] = mq[e]
        /\ \A u \in Thread : Serves(u, e)' =>
             /\ Serves(u, e) /\ thLast'[u] = thLast[u]
             /\ (thState'[u] = "write" => thState[u] = "write" /\ thMsg'[u] = thMsg[u])
    BY Zenon, <1>24 DEF RequeueLost, Serves, ThDest
  <2> QED  BY Zenon, <2>1, OrderStutter
<1>25. ASSUME NEW t \in Thread, Erase(t) PROVE InOrder(e)'
  <2>1. /\ e \notin requeued /\ mq'[e] = mq[e]
        /\ \A u \in Thread : Serves(u, e)' =>
             /\ Serves(u, e) /\ thLast'[u] = thLast[u]
             /\ (thState'[u] = "write" => thState[u] = "write" /\ thMsg'[u] = thMsg[u])
    BY Zenon, <1>25 DEF Erase, Serves, ThDest
  <2> QED  BY Zenon, <2>1, OrderStutter
<1>26. CASE UNCHANGED vars
  <2>1. /\ e \notin requeued /\ mq'[e] = mq[e]
        /\ \A u \in Thread : Serves(u, e)' =>
             /\ Serves(u, e) /\ thLast'[u] = thLast[u]
             /\ (thState'[u] = "write" => thState[u] = "write" /\ thMsg'[u] = thMsg[u])
    BY Zenon, <1>26 DEF vars, Serves, ThDest
  <2> QED  BY Zenon, <2>1, OrderStutter
<1> QED
  BY ZenonT(30), <1>1, <1>2, <1>3, <1>4, <1>5, <1>6, <1>7, <1>8, <1>9, <1>10, <1>11, <1>12, <1>13,
     <1>14, <1>15, <1>16, <1>17, <1>18, <1>19, <1>20, <1>21, <1>22, <1>23, <1>24, <1>25, <1>26
  DEF Next, CalmNext, MainRuns, ConnectorRuns, ThreadRuns, TeePutDrops,
      GetFails, GetInterrupted

\* One connection carries the messages in the order they were read in, until a
\* failed write puts one back at the end of the queue (connector.hpp:97).
THEOREM ConnectionsInOrder == Spec => []OrderOnConnection
<1>1. Init => OrderInv
  BY EmptyOrdered DEF Init, OrderInv, LastInv, InOrder, Serves
<1>2. IInv /\ OrderInv => OrderOnConnection
  <2> SUFFICES ASSUME IInv, OrderInv, NEW t \in Thread, thState[t] = "write",
                      thMsg[t] # Empty, ThDest(t) \notin requeued
               PROVE  thMsg[t] > thLast[t]
    BY Zenon DEF OrderOnConnection
  <2>1. ThDest(t) \in Dest /\ Serves(t, ThDest(t))
    BY Zenon, PublisherAssumption DEF IInv, TypeInv, TypeOK, ThDest, Serves
  <2>2. thLast[t] < thMsg[t]
    BY Zenon, <2>1 DEF OrderInv, InOrder
  <2> QED  BY Zenon, <2>2 DEF IInv, TypeInv, TypeOK, Payload
<1> QED  BY <1>1, <1>2, OrderStep, Invariance, PTL DEF Spec
=============================================================================
