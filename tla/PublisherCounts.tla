-------------------------- MODULE PublisherCounts ---------------------------
(***************************************************************************)
(* Proofs about the counters of Publisher and about what it has drained    *)
(* when it exits, for any constants.                                       *)
(***************************************************************************)
EXTENDS PublisherProofs, FiniteSetTheorems

\* The time the provers may take at a step that names none of them.
USE SMTT(30), ZenonT(30)

-----------------------------------------------------------------------------
(* The counters: total_processed and pending_counter.                      *)

\* Threads of d that have written a message and not counted it yet.
PostingFor(d) == {t \in Thread : thState[t] = "post" /\ ThDest(t) = d}

\* total_processed of d counts the written messages but those still to be
\* counted.
ExactFor(d) == processed[d] + Cardinality(PostingFor(d)) = Cardinality(sent[d])

\* Sets of threads and of messages have a size.
LEMMA FiniteParts ==
  ASSUME TypeInv
  PROVE  /\ \A d \in Dest : IsFiniteSet(PostingFor(d)) /\ IsFiniteSet(sent[d])
         /\ \A d \in Dest : Cardinality(PostingFor(d)) \in Nat /\ Cardinality(sent[d]) \in Nat
<1>1. IsFiniteSet(Msg)
  BY PublisherAssumption, FS_Interval DEF Msg
<1>2. ASSUME NEW d \in Dest PROVE IsFiniteSet(PostingFor(d)) /\ IsFiniteSet(sent[d])
  <2>1. PostingFor(d) \in SUBSET Thread /\ sent[d] \in SUBSET Msg
    BY Zenon DEF PostingFor, TypeInv, TypeOK
  <2> QED  BY Zenon, <1>1, <2>1, CounterAssumption, FS_Subset
<1> QED  BY Zenon, <1>2, FS_CardinalityType

\* Every step of a living process counts a written message once.
LEMMA MetricStep == IInv /\ MetricExact /\ [Next]_vars => MetricExact'
<1> SUFFICES ASSUME IInv, MetricExact, [Next]_vars, Alive', NEW e \in Dest
             PROVE  ExactFor(e)'
  BY Zenon DEF MetricExact, ExactFor, PostingFor
<1> USE PublisherAssumption DEF IInv, TypeInv, TypeOK, ExactFor
<1> USE DEF mainRest, mqVars, connVars, thVars, histVars, counters
<1>0. Alive => ExactFor(e)
  BY Zenon DEF MetricExact, PostingFor
<1>1. ASSUME PreFilterReady PROVE ExactFor(e)'
  <2>1. Alive /\ UNCHANGED <<processed, sent>>
    BY Zenon, <1>1 DEF PreFilterReady, MainGoes, Alive
  <2>2. PostingFor(e)' = PostingFor(e)
    BY Zenon, <1>1 DEF PreFilterReady, MainGoes, PostingFor, ThDest
  <2> QED  BY Zenon, <1>0, <2>1, <2>2
<1>2. ASSUME PreFilterTimeout PROVE ExactFor(e)'
  <2>1. Alive /\ UNCHANGED <<processed, sent>>
    BY Zenon, <1>2 DEF PreFilterTimeout, MainGoes, Alive
  <2>2. PostingFor(e)' = PostingFor(e)
    BY Zenon, <1>2 DEF PreFilterTimeout, MainGoes, PostingFor, ThDest
  <2> QED  BY Zenon, <1>0, <2>1, <2>2
<1>3. ASSUME NEW b \in BOOLEAN, ReadLine(b) PROVE ExactFor(e)'
  <2>1. Alive /\ UNCHANGED <<processed, sent>>
    BY Zenon, <1>3 DEF ReadLine, Alive
  <2>2. PostingFor(e)' = PostingFor(e)
    BY Zenon, <1>3 DEF ReadLine, PostingFor, ThDest
  <2> QED  BY Zenon, <1>0, <2>1, <2>2
<1>4. ASSUME ReadFails PROVE ExactFor(e)'
  <2>1. Alive /\ UNCHANGED <<processed, sent>>
    BY Zenon, <1>4 DEF ReadFails, MainGoes, Alive
  <2>2. PostingFor(e)' = PostingFor(e)
    BY Zenon, <1>4 DEF ReadFails, MainGoes, PostingFor, ThDest
  <2> QED  BY Zenon, <1>0, <2>1, <2>2
<1>5. ASSUME NEW d \in Dest, TeePut(d) PROVE ExactFor(e)'
  <2>1. Alive /\ UNCHANGED <<processed, sent>>
    BY Zenon, <1>5 DEF TeePut, Alive
  <2>2. PostingFor(e)' = PostingFor(e)
    BY Zenon, <1>5 DEF TeePut, PostingFor, ThDest
  <2> QED  BY Zenon, <1>0, <2>1, <2>2
<1>6. ASSUME NEW d \in Dest, TeePutFails(d) PROVE ExactFor(e)'
  <2>1. Alive /\ UNCHANGED <<processed, sent>>
    BY Zenon, <1>6 DEF TeePutFails, Alive
  <2>2. PostingFor(e)' = PostingFor(e)
    BY Zenon, <1>6 DEF TeePutFails, PostingFor, ThDest
  <2> QED  BY Zenon, <1>0, <2>1, <2>2
<1>7. ASSUME PostFilter PROVE ExactFor(e)'
  <2>1. Alive /\ UNCHANGED <<processed, sent>>
    BY Zenon, <1>7 DEF PostFilter, Alive
  <2>2. PostingFor(e)' = PostingFor(e)
    BY Zenon, <1>7 DEF PostFilter, PostingFor, ThDest
  <2> QED  BY Zenon, <1>0, <2>1, <2>2
<1>8. ASSUME DrainDone PROVE ExactFor(e)'
  <2>1. Alive /\ UNCHANGED <<processed, sent>>
    BY Zenon, <1>8 DEF DrainDone, MainGoes, Alive
  <2>2. PostingFor(e)' = PostingFor(e)
    BY Zenon, <1>8 DEF DrainDone, MainGoes, PostingFor, ThDest
  <2> QED  BY Zenon, <1>0, <2>1, <2>2
<1>9. ASSUME DrainTimeout PROVE ExactFor(e)'
  <2>1. Alive /\ UNCHANGED <<processed, sent>>
    BY Zenon, <1>9 DEF DrainTimeout, MainGoes, Alive
  <2>2. PostingFor(e)' = PostingFor(e)
    BY Zenon, <1>9 DEF DrainTimeout, MainGoes, PostingFor, ThDest
  <2> QED  BY Zenon, <1>0, <2>1, <2>2
<1>10. ASSUME Destroy PROVE ExactFor(e)'
  BY Zenon, <1>10 DEF Destroy, Alive
<1>11. ASSUME Exit PROVE ExactFor(e)'
  BY Zenon, <1>11 DEF Exit, Alive
<1>12. ASSUME NEW a \in Addr, NEW t \in Thread, Open(a, t) PROVE ExactFor(e)'
  <2>1. Alive /\ UNCHANGED <<processed, sent>>
    BY Zenon, <1>12 DEF Open, Alive
  <2>2. PostingFor(e)' = PostingFor(e)
    BY Zenon, <1>12 DEF Open, PostingFor, ThDest
  <2> QED  BY Zenon, <1>0, <2>1, <2>2
<1>13. ASSUME Insert PROVE ExactFor(e)'
  <2>1. Alive /\ UNCHANGED <<processed, sent>>
    BY Zenon, <1>13 DEF Insert, Alive
  <2>2. PostingFor(e)' = PostingFor(e)
    BY Zenon, <1>13 DEF Insert, PostingFor, ThDest
  <2> QED  BY Zenon, <1>0, <2>1, <2>2
<1>14. ASSUME NEW t \in Thread, Connect(t) PROVE ExactFor(e)'
  <2>1. Alive /\ UNCHANGED <<processed, sent>>
    BY Zenon, <1>14 DEF Connect, Alive
  <2>2. PostingFor(e)' = PostingFor(e)
    BY Zenon, <1>14 DEF Connect, PostingFor, ThDest
  <2> QED  BY Zenon, <1>0, <2>1, <2>2
<1>15. ASSUME NEW t \in Thread, ConnectFails(t) PROVE ExactFor(e)'
  <2>1. Alive /\ UNCHANGED <<processed, sent>>
    BY Zenon, <1>15 DEF ConnectFails, ThreadGoes, Alive
  <2>2. PostingFor(e)' = PostingFor(e)
    BY Zenon, <1>15 DEF ConnectFails, ThreadGoes, PostingFor, ThDest
  <2> QED  BY Zenon, <1>0, <2>1, <2>2
<1>16. ASSUME NEW t \in Thread, MqInit(t) PROVE ExactFor(e)'
  <2>1. Alive /\ UNCHANGED <<processed, sent>>
    BY Zenon, <1>16 DEF MqInit, Alive
  <2>2. PostingFor(e)' = PostingFor(e)
    BY Zenon, <1>16 DEF MqInit, PostingFor, ThDest
  <2> QED  BY Zenon, <1>0, <2>1, <2>2
<1>17. ASSUME NEW t \in Thread, Get(t) PROVE ExactFor(e)'
  <2>1. Alive /\ UNCHANGED <<processed, sent>>
    BY Zenon, <1>17 DEF Get, Alive
  <2>2. PostingFor(e)' = PostingFor(e)
    BY Zenon, <1>17 DEF Get, PostingFor, ThDest
  <2> QED  BY Zenon, <1>0, <2>1, <2>2
<1>18. ASSUME NEW t \in Thread, GetReturnsFalse(t) PROVE ExactFor(e)'
  <2>1. Alive /\ UNCHANGED <<processed, sent>>
    BY Zenon, <1>18 DEF GetReturnsFalse, Alive
  <2>2. PostingFor(e)' = PostingFor(e)
    BY Zenon, <1>18 DEF GetReturnsFalse, PostingFor, ThDest
  <2> QED  BY Zenon, <1>0, <2>1, <2>2
<1>19. ASSUME NEW t \in Thread, Write(t) PROVE ExactFor(e)'
  <2> DEFINE d == ThDest(t)
  <2>0. d \in Dest /\ thMsg[t] \in Msg /\ Has(t, d, thMsg[t])
    BY <1>19 DEF Write, ThDest, Has, Holds, Msg, Payload, Empty
  <2>1. /\ Alive /\ UNCHANGED <<processed, thAddr>>
        /\ thState' = [thState EXCEPT ![t] = "post"] /\ thState[t] = "write"
        /\ sent' = [sent EXCEPT ![d] = sent[d] \cup {thMsg[t]}]
    BY Zenon, <1>19 DEF Write, Alive
  <2>2. thMsg[t] \notin sent[d]
    BY Zenon, <2>0 DEF PlaceInv, Place
  <2>3. PostingFor(e)' = (IF e = d THEN PostingFor(e) \cup {t} ELSE PostingFor(e))
    BY <2>1 DEF PostingFor, ThDest
  <2>4. t \notin PostingFor(e)
    BY Zenon, <2>1 DEF PostingFor
  <2> HIDE DEF d
  <2>5. CASE e # d
    BY Zenon, <1>0, <2>1, <2>3, <2>5
  <2>6. CASE e = d
    <3>1. Cardinality(PostingFor(e)') = Cardinality(PostingFor(e)) + 1
      <4>1. PostingFor(e)' = PostingFor(e) \cup {t} /\ IsFiniteSet(PostingFor(e))
        BY Zenon, <2>3, <2>6, FiniteParts
      <4> QED  BY ONLY SMTT(30), <2>4, <4>1, FS_AddElement
    <3>2. Cardinality(sent'[e]) = Cardinality(sent[e]) + 1
      <4>1. sent'[e] = sent[e] \cup {thMsg[t]} /\ IsFiniteSet(sent[e]) /\ thMsg[t] \notin sent[e]
        BY Zenon, <2>0, <2>1, <2>2, <2>6, FiniteParts
      <4> QED  BY ONLY Zenon, <4>1, FS_AddElement
    <3> QED  BY <1>0, <2>1, <3>1, <3>2, FiniteParts
  <2> QED  BY Zenon, <2>5, <2>6
<1>20. ASSUME NEW t \in Thread, WriteRefused(t) PROVE ExactFor(e)'
  <2>1. Alive /\ UNCHANGED <<processed, sent>>
    BY Zenon, <1>20 DEF WriteRefused, ThreadGoes, Alive
  <2>2. PostingFor(e)' = PostingFor(e)
    BY Zenon, <1>20 DEF WriteRefused, ThreadGoes, PostingFor, ThDest
  <2> QED  BY Zenon, <1>0, <2>1, <2>2
<1>21. ASSUME NEW t \in Thread, WriteFails(t) PROVE ExactFor(e)'
  <2>1. Alive /\ UNCHANGED <<processed, sent>>
    BY Zenon, <1>21 DEF WriteFails, ThreadGoes, Alive
  <2>2. PostingFor(e)' = PostingFor(e)
    BY Zenon, <1>21 DEF WriteFails, ThreadGoes, PostingFor, ThDest
  <2> QED  BY Zenon, <1>0, <2>1, <2>2
<1>22. ASSUME NEW t \in Thread, Processed(t) PROVE ExactFor(e)'
  <2> DEFINE d == ThDest(t)
  <2>0. d \in Dest
    BY Zenon, <1>22 DEF Processed, ThDest
  <2>1. /\ Alive /\ UNCHANGED <<sent, thAddr>>
        /\ thState' = [thState EXCEPT ![t] = "get"] /\ thState[t] = "post"
        /\ processed' = [processed EXCEPT ![d] = processed[d] + 1]
    BY Zenon, <1>22 DEF Processed, Alive
  <2>3. PostingFor(e)' = (IF e = d THEN PostingFor(e) \ {t} ELSE PostingFor(e))
    BY Zenon, <2>1 DEF PostingFor, ThDest
  <2>4. e = d => t \in PostingFor(e)
    BY Zenon, <2>1 DEF PostingFor
  <2> HIDE DEF d
  <2>5. CASE e # d
    BY Zenon, <1>0, <2>0, <2>1, <2>3, <2>5
  <2>6. CASE e = d
    <3>1. Cardinality(PostingFor(e)') = Cardinality(PostingFor(e)) - 1
      BY ZenonT(30), <2>3, <2>4, <2>6, FiniteParts, FS_RemoveElement
    <3>2. processed'[e] = processed[e] + 1
      BY Zenon, <2>0, <2>1, <2>6
    <3> QED  BY <1>0, <2>1, <3>1, <3>2, FiniteParts
  <2> QED  BY Zenon, <2>5, <2>6
<1>23. ASSUME NEW t \in Thread, Requeue(t) PROVE ExactFor(e)'
  <2>1. Alive /\ UNCHANGED <<processed, sent>>
    BY Zenon, <1>23 DEF Requeue, Alive
  <2>2. PostingFor(e)' = PostingFor(e)
    BY Zenon, <1>23 DEF Requeue, PostingFor, ThDest
  <2> QED  BY Zenon, <1>0, <2>1, <2>2
<1>24. ASSUME NEW t \in Thread, RequeueLost(t) PROVE ExactFor(e)'
  <2>1. Alive /\ UNCHANGED <<processed, sent>>
    BY Zenon, <1>24 DEF RequeueLost, Alive
  <2>2. PostingFor(e)' = PostingFor(e)
    BY Zenon, <1>24 DEF RequeueLost, PostingFor, ThDest
  <2> QED  BY Zenon, <1>0, <2>1, <2>2
<1>25. ASSUME NEW t \in Thread, Erase(t) PROVE ExactFor(e)'
  <2>1. Alive /\ UNCHANGED <<processed, sent>>
    BY Zenon, <1>25 DEF Erase, Alive
  <2>2. PostingFor(e)' = PostingFor(e)
    BY Zenon, <1>25 DEF Erase, PostingFor, ThDest
  <2> QED  BY Zenon, <1>0, <2>1, <2>2
<1>26. CASE UNCHANGED vars
  <2>1. Alive /\ UNCHANGED <<processed, sent>>
    BY Zenon, <1>26 DEF vars, Alive
  <2>2. PostingFor(e)' = PostingFor(e)
    BY Zenon, <1>26 DEF vars, PostingFor, ThDest
  <2> QED  BY Zenon, <1>0, <2>1, <2>2
<1> QED
  BY ZenonT(30), <1>1, <1>2, <1>3, <1>4, <1>5, <1>6, <1>7, <1>8, <1>9, <1>10, <1>11, <1>12, <1>13,
     <1>14, <1>15, <1>16, <1>17, <1>18, <1>19, <1>20, <1>21, <1>22, <1>23, <1>24, <1>25, <1>26
  DEF Next, CalmNext, MainRuns, ConnectorRuns, ThreadRuns, TeePutDrops,
      GetFails, GetInterrupted

\* The messages a destination accepted and was not sent.
Unsent == {x \in Dest \X Msg : x[2] \in accepted[x[1]] \ sent[x[1]]}

\* The threads that have written a message and not counted it yet.
Posting == {t \in Thread : thState[t] = "post"}

\* The puts of the message being teed, which pending_counter learns of later,
\* and the lines whose puts it has learned of.
Teed    == IF mainPc = "tee" THEN teeCount ELSE 0
Counted == IF mainPc = "tee" THEN nread - 1 ELSE nread

\* pending_counter stands for the number p: at least one for every message
\* that is not sent or not counted as sent.  A thread may count a message
\* before the main thread does, and p is negative then.
PendingIs(p) ==
  /\ pending = IF p < 0 THEN p + CounterMod ELSE p
  /\ Cardinality(Unsent) + Cardinality(Posting) <= p + Teed
  /\ p <= Counted * Cardinality(Dest)

CountInv ==
  /\ mainPc = "tee" => nread > 0 /\ teeCount <= Cardinality(branch \ left)
  /\ Alive => \E p \in (1 - CounterMod)..(CounterMod - 1) : PendingIs(p)

\* The remainder of a number below twice the modulus.
LEMMA Wrap ==
  ASSUME NEW M \in Nat \ {0}, NEW b \in 0..(2 * M - 1)
  PROVE  b % M = IF b < M THEN b ELSE b - M
OBVIOUS

\* Products with the number of destinations.
LEMMA Products ==
  ASSUME NEW n \in Nat, NEW k \in Nat, NEW W \in Nat, n <= k
  PROVE  n * W \in Nat /\ n * W <= k * W /\ (n + 1) * W = n * W + W
OBVIOUS

\* Fewer messages are teed than the counter can count.
LEMMA CountBound ==
  ASSUME NEW n \in 0..MaxMsg
  PROVE  /\ Cardinality(Dest) \in Nat /\ n * Cardinality(Dest) \in Nat
         /\ n * Cardinality(Dest) < CounterMod
         /\ n > 0 => /\ Cardinality(Dest) < CounterMod
                     /\ (n - 1) * Cardinality(Dest) \in Nat
                     /\ n * Cardinality(Dest) = (n - 1) * Cardinality(Dest) + Cardinality(Dest)
<1>1. Cardinality(Dest) \in Nat
  BY Zenon, CounterAssumption, FS_CardinalityType
<1>2. PICK W \in Nat : W = Cardinality(Dest)
  BY Zenon, <1>1
<1>3. MaxMsg \in Nat /\ CounterMod \in Nat /\ MaxMsg * W < CounterMod /\ n <= MaxMsg /\ n \in Nat
  BY <1>2, PublisherAssumption, CounterAssumption
<1>4. n * W \in Nat /\ n * W <= MaxMsg * W /\ MaxMsg * W \in Nat
  BY <1>3, Products
<1>5. ASSUME n > 0
      PROVE  (n - 1) * W \in Nat /\ n * W = (n - 1) * W + W
  <2>1. PICK k \in Nat : k = n - 1
    BY <1>3, <1>5
  <2>2. k * W \in Nat /\ (k + 1) * W = k * W + W
    BY Products
  <2>3. k + 1 = n
    BY <1>3, <2>1
  <2> QED  BY Zenon, <2>1, <2>2, <2>3
<1>6. ASSUME n > 0 PROVE W < CounterMod
  <2>1. PICK x \in Nat, y \in Nat, z \in Nat : x = n * W /\ y = (n - 1) * W /\ z = MaxMsg * W
    BY Zenon, <1>4, <1>5, <1>6
  <2> QED  BY <1>3, <1>4, <1>5, <1>6, <2>1
<1>7. n * W < CounterMod
  <2>1. PICK x \in Nat, z \in Nat : x = n * W /\ z = MaxMsg * W
    BY Zenon, <1>4
  <2> QED  BY <1>3, <1>4, <2>1
<1> QED  BY Zenon, <1>2, <1>4, <1>5, <1>6, <1>7

\* The sets that are counted are finite.
LEMMA CountFinite ==
  ASSUME TypeInv
  PROVE  /\ IsFiniteSet(Unsent) /\ Cardinality(Unsent) \in Nat
         /\ IsFiniteSet(Posting) /\ Cardinality(Posting) \in Nat
         /\ IsFiniteSet(branch \ left) /\ Cardinality(branch \ left) \in Nat
         /\ Cardinality(branch \ left) <= Cardinality(Dest)
<1>1. IsFiniteSet(Msg)
  BY PublisherAssumption, FS_Interval DEF Msg
<1>2. IsFiniteSet(Dest \X Msg)
  BY Zenon, <1>1, CounterAssumption, FS_Product
<1>3. Unsent \in SUBSET (Dest \X Msg) /\ Posting \in SUBSET Thread
  BY Zenon DEF Unsent, Posting
<1>4. IsFiniteSet(Unsent) /\ IsFiniteSet(Posting)
  BY Zenon, <1>2, <1>3, CounterAssumption, FS_Subset
<1>5. branch \ left \in SUBSET Dest
  BY Zenon DEF TypeInv, TypeOK
<1>6. IsFiniteSet(branch \ left) /\ Cardinality(branch \ left) <= Cardinality(Dest)
  BY Zenon, <1>5, CounterAssumption, FS_Subset
<1> QED  BY Zenon, <1>4, <1>6, FS_CardinalityType

\* A step that touches nothing that is counted.
LEMMA CountStutter ==
  ASSUME CountInv, UNCHANGED <<pending, accepted, sent, nread, teeCount, branch, left>>,
         Posting' = Posting, mainPc' = "tee" <=> mainPc = "tee", Alive' => Alive
  PROVE  CountInv'
<1>1. Unsent' = Unsent /\ Teed' = Teed /\ Counted' = Counted
  BY Zenon DEF Unsent, Teed, Counted
<1>2. \A p \in (1 - CounterMod)..(CounterMod - 1) : PendingIs(p) => PendingIs(p)'
  BY Zenon, <1>1 DEF PendingIs
<1>3. Cardinality(branch \ left)' = Cardinality(branch \ left)
  BY Zenon
<1> QED  BY Zenon, <1>2, <1>3 DEF CountInv

\* The same, for the state after a step.
LEMMA CountFiniteNow ==
  TypeInv' => (/\ IsFiniteSet(Unsent) /\ Cardinality(Unsent) \in Nat
               /\ IsFiniteSet(Posting) /\ Cardinality(Posting) \in Nat
               /\ IsFiniteSet(branch \ left) /\ Cardinality(branch \ left) \in Nat)'
<1>1. TypeInv => /\ IsFiniteSet(Unsent) /\ Cardinality(Unsent) \in Nat
                 /\ IsFiniteSet(Posting) /\ Cardinality(Posting) \in Nat
                 /\ IsFiniteSet(branch \ left) /\ Cardinality(branch \ left) \in Nat
  BY Zenon, CountFinite
<1> QED  BY <1>1, PTL

\* The puts of one message, added to those counted before.
LEMMA AddUp ==
  ASSUME NEW p \in Int, NEW c \in Nat, NEW X \in Nat, NEW Y \in Nat, NEW W \in Nat,
         NEW B \in Nat, 0 <= p + c, p <= X, c <= B, B <= W, Y = X + W, Y < CounterMod
  PROVE  p + c \in 0..(CounterMod - 1) /\ p + c <= Y
BY PublisherAssumption

\* A step may lower the count of the unsent and unposted messages, and raises
\* it by no more than the puts it adds.
LEMMA CountKept ==
  ASSUME TypeInv, TypeInv', Alive, CountInv, pending' = pending,
         Counted' = Counted, NEW k \in Nat, Teed' = Teed + k,
         Cardinality(Unsent)' + Cardinality(Posting)'
           <= Cardinality(Unsent) + Cardinality(Posting) + k
  PROVE  \E p \in (1 - CounterMod)..(CounterMod - 1) : PendingIs(p)'
<1>1. PICK p \in (1 - CounterMod)..(CounterMod - 1) : PendingIs(p)
  BY Zenon DEF CountInv
<1>2. Teed \in Nat /\ Cardinality(Unsent) \in Nat /\ Cardinality(Posting) \in Nat
  BY Zenon, CountFinite DEF Teed, TypeInv, TypeOK
<1>3. TypeInv' => Cardinality(Unsent)' \in Nat /\ Cardinality(Posting)' \in Nat
  BY Zenon, CountFiniteNow
<1>4. PendingIs(p)'
  <2>1. Cardinality(Unsent)' + Cardinality(Posting)' <= p + Teed'
    <3>1. PICK u \in Nat, q \in Nat, v \in Nat, r \in Nat, x \in Nat :
            /\ u = Cardinality(Unsent) /\ q = Cardinality(Posting)
            /\ v = Cardinality(Unsent)' /\ r = Cardinality(Posting)' /\ x = Teed
      BY Zenon, <1>2, <1>3
    <3>2. u + q <= p + x /\ v + r <= u + q + k /\ Teed' = x + k
      BY Zenon, <1>1, <3>1 DEF PendingIs
    <3>3. v + r <= p + (x + k)
      BY <3>2, PublisherAssumption
    <3> QED  BY Zenon, <3>1, <3>2, <3>3
  <2> QED  BY Zenon, <1>1, <2>1 DEF PendingIs
<1> QED  BY Zenon, <1>4

\* Every step keeps pending_counter at or above what is still to be sent.
LEMMA CountStep == IInv /\ IInv' /\ CountInv /\ [Next]_vars => CountInv'
<1> SUFFICES ASSUME IInv, IInv', CountInv, [Next]_vars PROVE CountInv'
  BY Zenon
<1>0. TypeInv /\ TypeInv' /\ TypeOK /\ BranchInv
  BY Zenon DEF IInv, TypeInv
<1> USE <1>0, PublisherAssumption DEF TypeOK
<1> USE DEF mainRest, mqVars, connVars, thVars, histVars, counters
<1>1. ASSUME PreFilterReady PROVE CountInv'
  <2>1. /\ UNCHANGED <<pending, accepted, sent, nread, teeCount, branch, left>>
        /\ Posting' = Posting /\ (mainPc' = "tee" <=> mainPc = "tee") /\ (Alive' => Alive)
    BY Zenon, <1>1 DEF PreFilterReady, MainGoes, Posting, Alive
  <2> QED  BY Zenon, <2>1, CountStutter
<1>2. ASSUME PreFilterTimeout PROVE CountInv'
  <2>1. /\ UNCHANGED <<pending, accepted, sent, nread, teeCount, branch, left>>
        /\ Posting' = Posting /\ (mainPc' = "tee" <=> mainPc = "tee") /\ (Alive' => Alive)
    BY Zenon, <1>2 DEF PreFilterTimeout, MainGoes, Posting, Alive
  <2> QED  BY Zenon, <2>1, CountStutter
<1>3. ASSUME NEW b \in BOOLEAN, ReadLine(b) PROVE CountInv'
  <2>1. /\ UNCHANGED <<pending, accepted, sent, branch>> /\ left' = branch
        /\ mainPc = "get" /\ mainPc' = "tee" /\ nread' = nread + 1 /\ teeCount' = 0
        /\ Unsent' = Unsent /\ Posting' = Posting
    BY Zenon, <1>3 DEF ReadLine, Unsent, Posting
  <2>2. Alive /\ Teed' = Teed + 0 /\ Counted' = Counted
    BY <2>1 DEF Alive, Teed, Counted
  <2>3. \E p \in (1 - CounterMod)..(CounterMod - 1) : PendingIs(p)'
    <3>1. Cardinality(Unsent)' + Cardinality(Posting)'
           <= Cardinality(Unsent) + Cardinality(Posting) + 0
      BY <2>1, CountFinite
    <3> QED  BY Zenon, <2>1, <2>2, <3>1, CountKept
  <2>4. Cardinality(branch \ left)' = 0
    <3>1. (branch \ left)' = {}
      BY Zenon, <2>1
    <3> QED  BY Zenon, <3>1, FS_EmptySet
  <2>5. nread' > 0 /\ teeCount' <= Cardinality(branch \ left)'
    BY <2>1, <2>4
  <2> QED  BY Zenon, <2>3, <2>5 DEF CountInv
<1>4. ASSUME ReadFails PROVE CountInv'
  <2>1. /\ UNCHANGED <<pending, accepted, sent, nread, teeCount, branch, left>>
        /\ Posting' = Posting /\ (mainPc' = "tee" <=> mainPc = "tee") /\ (Alive' => Alive)
    BY Zenon, <1>4 DEF ReadFails, MainGoes, Posting, Alive
  <2> QED  BY Zenon, <2>1, CountStutter
<1>5. ASSUME NEW d \in Dest, TeePut(d) PROVE CountInv'
  <2>1. /\ UNCHANGED <<pending, sent, branch, nread, mainPc>> /\ mainPc = "tee" /\ d \in left
        /\ left' = left \ {d} /\ teeCount' = teeCount + 1
        /\ accepted' = [accepted EXCEPT ![d] = accepted[d] \cup ({cur} \ {Empty})]
        /\ Posting' = Posting
    BY Zenon, <1>5 DEF TeePut, Posting
  <2>2. Alive /\ Teed' = Teed + 1 /\ Counted' = Counted
    BY Zenon, <2>1 DEF Alive, Teed, Counted
  <2>3. Cardinality(Unsent)' <= Cardinality(Unsent) + 1
    <3>1. Unsent' \in SUBSET (Unsent \cup {<<d, cur>>})
      BY <2>1 DEF Unsent
    <3>0. PICK x : x = <<d, cur>>
      BY Zenon
    <3>5. IsFiniteSet(Unsent) /\ Cardinality(Unsent) \in Nat
      BY Zenon, CountFinite
    <3>6. /\ IsFiniteSet(Unsent \cup {x})
          /\ Cardinality(Unsent \cup {x}) =
               IF x \in Unsent THEN Cardinality(Unsent) ELSE Cardinality(Unsent) + 1
      BY ONLY SMTT(30), <3>5, FS_AddElement
    <3>2. /\ IsFiniteSet(Unsent \cup {<<d, cur>>})
          /\ Cardinality(Unsent \cup {<<d, cur>>}) <= Cardinality(Unsent) + 1
      BY <3>0, <3>5, <3>6
    <3>3. Cardinality(Unsent') <= Cardinality(Unsent \cup {<<d, cur>>})
      BY Zenon, <3>1, <3>2, FS_Subset
    <3>4. Cardinality(Unsent \cup {<<d, cur>>}) \in Nat /\ Cardinality(Unsent') \in Nat
      BY Zenon, <3>2, CountFiniteNow, FS_CardinalityType
    <3> QED  BY <3>2, <3>3, <3>4, <3>5
  <2>4. \E p \in (1 - CounterMod)..(CounterMod - 1) : PendingIs(p)'
    <3>1. Cardinality(Unsent)' + Cardinality(Posting)'
           <= Cardinality(Unsent) + Cardinality(Posting) + 1
      BY <2>1, <2>3, CountFinite, CountFiniteNow
    <3> QED  BY Zenon, <2>1, <2>2, <3>1, CountKept
  <2>5. Cardinality(branch \ left)' = Cardinality(branch \ left) + 1
    <3>1. (branch \ left)' = (branch \ left) \cup {d} /\ d \notin branch \ left
      BY <2>1 DEF BranchInv
    <3> QED  BY ONLY ZenonT(30), <1>0, <3>1, CountFinite, FS_AddElement
  <2>6. nread' > 0 /\ teeCount' <= Cardinality(branch \ left)'
    BY <2>1, <2>5, CountFinite DEF CountInv
  <2> QED  BY Zenon, <2>4, <2>6 DEF CountInv
<1>6. ASSUME NEW d \in Dest, TeePutFails(d) PROVE CountInv'
  <2>1. /\ UNCHANGED <<pending, sent, accepted, branch, nread, mainPc>> /\ mainPc = "tee"
        /\ d \in left /\ left' = left \ {d} /\ teeCount' = teeCount + 1
        /\ Posting' = Posting /\ Unsent' = Unsent
    BY Zenon, <1>6 DEF TeePutFails, Posting, Unsent
  <2>2. Alive /\ Teed' = Teed + 1 /\ Counted' = Counted
    BY Zenon, <2>1 DEF Alive, Teed, Counted
  <2>4. \E p \in (1 - CounterMod)..(CounterMod - 1) : PendingIs(p)'
    <3>1. Cardinality(Unsent)' + Cardinality(Posting)'
           <= Cardinality(Unsent) + Cardinality(Posting) + 1
      BY <2>1, CountFinite
    <3> QED  BY Zenon, <2>1, <2>2, <3>1, CountKept
  <2>5. Cardinality(branch \ left)' = Cardinality(branch \ left) + 1
    <3>1. (branch \ left)' = (branch \ left) \cup {d} /\ d \notin branch \ left
      BY <2>1 DEF BranchInv
    <3> QED  BY ONLY Zenon, <1>0, <3>1, CountFinite, FS_AddElement
  <2>6. nread' > 0 /\ teeCount' <= Cardinality(branch \ left)'
    BY <2>1, <2>5, CountFinite DEF CountInv
  <2> QED  BY Zenon, <2>4, <2>6 DEF CountInv
<1>7. ASSUME PostFilter PROVE CountInv'
  <2>1. /\ UNCHANGED <<sent, accepted, nread>> /\ mainPc = "tee" /\ mainPc' = "pre"
        /\ pending' = (pending + teeCount) % CounterMod
        /\ Posting' = Posting /\ Unsent' = Unsent
    BY Zenon, <1>7 DEF PostFilter, Posting, Unsent
  <2>2. /\ Alive /\ Teed = teeCount /\ Teed' = 0 /\ Counted = nread - 1 /\ Counted' = nread
        /\ nread > 0
    BY Zenon, <2>1 DEF Alive, Teed, Counted, CountInv
  <2>3. PICK p \in (1 - CounterMod)..(CounterMod - 1) : PendingIs(p)
    BY Zenon, <2>2 DEF CountInv
  <2>4. PICK W \in Nat, X \in Nat, Y \in Nat, U \in Nat, Q \in Nat, B \in Nat :
          /\ W = Cardinality(Dest) /\ X = (nread - 1) * W /\ Y = nread * W
          /\ U = Cardinality(Unsent) /\ Q = Cardinality(Posting)
          /\ B = Cardinality(branch \ left)
    BY ZenonT(30), <2>2, CountBound, CountFinite
  <2>41. Y = X + W /\ Y < CounterMod /\ B <= W
    BY Zenon, <2>2, <2>4, CountBound, CountFinite
  <2>5. /\ pending = (IF p < 0 THEN p + CounterMod ELSE p)
        /\ U + Q <= p + teeCount /\ p <= X /\ teeCount <= B
    BY Zenon, <2>1, <2>2, <2>3, <2>4 DEF PendingIs, CountInv
  <2>51. PICK c \in Nat : c = teeCount
    BY Zenon
  <2>52. p \in Int /\ 0 <= p + c /\ p <= X /\ c <= B
    BY <2>5, <2>51
  <2>53. p + c \in 0..(CounterMod - 1) /\ p + c <= Y
    BY Zenon, <2>41, <2>52, AddUp
  <2>6. PICK r \in 0..(CounterMod - 1) : r = p + c
    BY Zenon, <2>53
  <2>7. pending' = r
    <3>1. PICK b \in 0..(2 * CounterMod - 1) : b = pending + teeCount
      BY <2>5, <2>51, <2>6
    <3>2. b % CounterMod = IF b < CounterMod THEN b ELSE b - CounterMod
      BY ZenonT(30), Wrap
    <3> QED  BY <2>1, <2>5, <2>51, <2>6, <3>1, <3>2
  <2>8. U + Q <= r /\ r <= Y
    BY Zenon, <2>5, <2>51, <2>53, <2>6
  <2>81. /\ pending' = IF r < 0 THEN r + CounterMod ELSE r
         /\ r \in (1 - CounterMod)..(CounterMod - 1)
    BY <2>7
  <2>83. Cardinality(Unsent') = U /\ Cardinality(Posting') = Q
    BY Zenon, <2>1, <2>4
  <2>84. Cardinality(Unsent') + Cardinality(Posting') <= r + Teed'
    BY <2>2, <2>8, <2>83
  <2>82. r <= Counted' * Cardinality(Dest)
    BY Zenon, <2>2, <2>4, <2>8
  <2>9. r \in (1 - CounterMod)..(CounterMod - 1) /\ PendingIs(r)'
    BY <2>81, <2>82, <2>84 DEF PendingIs
  <2> QED  BY Zenon, <2>1, <2>9 DEF CountInv
<1>8. ASSUME DrainDone PROVE CountInv'
  <2>1. /\ UNCHANGED <<pending, accepted, sent, nread, teeCount, branch, left>>
        /\ Posting' = Posting /\ (mainPc' = "tee" <=> mainPc = "tee") /\ (Alive' => Alive)
    BY Zenon, <1>8 DEF DrainDone, MainGoes, Posting, Alive
  <2> QED  BY Zenon, <2>1, CountStutter
<1>9. ASSUME DrainTimeout PROVE CountInv'
  <2>1. /\ UNCHANGED <<pending, accepted, sent, nread, teeCount, branch, left>>
        /\ Posting' = Posting /\ (mainPc' = "tee" <=> mainPc = "tee") /\ (Alive' => Alive)
    BY Zenon, <1>9 DEF DrainTimeout, MainGoes, Posting, Alive
  <2> QED  BY Zenon, <2>1, CountStutter
<1>10. ASSUME Destroy PROVE CountInv'
  BY Zenon, <1>10 DEF Destroy, CountInv, Alive
<1>11. ASSUME Exit PROVE CountInv'
  BY Zenon, <1>11 DEF Exit, CountInv, Alive
<1>12. ASSUME NEW a \in Addr, NEW t \in Thread, Open(a, t) PROVE CountInv'
  <2> DEFINE d == DestOf[a]
  <2>1. /\ UNCHANGED <<pending, sent, accepted, nread, mainPc, teeCount>> /\ Alive
        /\ branch' = branch \cup {d}
        /\ left' \in (IF mainPc = "tee" /\ d \notin branch THEN {left, left \cup {d}} ELSE {left})
        /\ Posting' = Posting /\ Unsent' = Unsent
    BY Zenon, <1>12 DEF Open, Posting, Unsent
  <2>2. Teed' = Teed + 0 /\ Counted' = Counted
    BY <2>1 DEF Teed, Counted
  <2>3. \E p \in (1 - CounterMod)..(CounterMod - 1) : PendingIs(p)'
    <3>1. Cardinality(Unsent)' + Cardinality(Posting)'
           <= Cardinality(Unsent) + Cardinality(Posting) + 0
      BY <2>1, CountFinite
    <3> QED  BY Zenon, <2>1, <2>2, <3>1, CountKept
  <2> HIDE DEF d
  <2>4. Cardinality(branch \ left) <= Cardinality(branch \ left)'
    <3>1. branch \ left \in SUBSET (branch \ left)'
      BY Zenon, <2>1
    <3> QED  BY Zenon, <3>1, CountFiniteNow, FS_Subset
  <2>5. mainPc' = "tee" => nread' > 0 /\ teeCount' <= Cardinality(branch \ left)'
    <3>1. Cardinality(branch \ left) \in Nat /\ Cardinality(branch \ left)' \in Nat
      BY Zenon, CountFinite, CountFiniteNow
    <3> QED  BY <2>1, <2>4, <3>1 DEF CountInv
  <2> QED  BY Zenon, <2>3, <2>5 DEF CountInv
<1>13. ASSUME Insert PROVE CountInv'
  <2>1. /\ UNCHANGED <<pending, accepted, sent, nread, teeCount, branch, left>>
        /\ Posting' = Posting /\ (mainPc' = "tee" <=> mainPc = "tee") /\ (Alive' => Alive)
    BY Zenon, <1>13 DEF Insert, Posting, Alive
  <2> QED  BY Zenon, <2>1, CountStutter
<1>14. ASSUME NEW t \in Thread, Connect(t) PROVE CountInv'
  <2>1. /\ UNCHANGED <<pending, accepted, sent, nread, teeCount, branch, left>>
        /\ Posting' = Posting /\ (mainPc' = "tee" <=> mainPc = "tee") /\ (Alive' => Alive)
    BY Zenon, <1>14 DEF Connect, Posting, Alive
  <2> QED  BY Zenon, <2>1, CountStutter
<1>15. ASSUME NEW t \in Thread, ConnectFails(t) PROVE CountInv'
  <2>1. /\ UNCHANGED <<pending, accepted, sent, nread, teeCount, branch, left>>
        /\ Posting' = Posting /\ (mainPc' = "tee" <=> mainPc = "tee") /\ (Alive' => Alive)
    BY Zenon, <1>15 DEF ConnectFails, ThreadGoes, Posting, Alive
  <2> QED  BY Zenon, <2>1, CountStutter
<1>16. ASSUME NEW t \in Thread, MqInit(t) PROVE CountInv'
  <2>1. /\ UNCHANGED <<pending, accepted, sent, nread, teeCount, branch, left>>
        /\ Posting' = Posting /\ (mainPc' = "tee" <=> mainPc = "tee") /\ (Alive' => Alive)
    BY Zenon, <1>16 DEF MqInit, Posting, Alive
  <2> QED  BY Zenon, <2>1, CountStutter
<1>17. ASSUME NEW t \in Thread, Get(t) PROVE CountInv'
  <2>1. /\ UNCHANGED <<pending, accepted, sent, nread, teeCount, branch, left>>
        /\ Posting' = Posting /\ (mainPc' = "tee" <=> mainPc = "tee") /\ (Alive' => Alive)
    BY Zenon, <1>17 DEF Get, Posting, Alive
  <2> QED  BY Zenon, <2>1, CountStutter
<1>18. ASSUME NEW t \in Thread, GetReturnsFalse(t) PROVE CountInv'
  <2>1. /\ UNCHANGED <<pending, accepted, sent, nread, teeCount, branch, left>>
        /\ Posting' = Posting /\ (mainPc' = "tee" <=> mainPc = "tee") /\ (Alive' => Alive)
    BY Zenon, <1>18 DEF GetReturnsFalse, Posting, Alive
  <2> QED  BY Zenon, <2>1, CountStutter
<1>19. ASSUME NEW t \in Thread, Write(t) PROVE CountInv'
  <2> DEFINE d == ThDest(t)
             m == thMsg[t]
  <2>0. d \in Dest /\ m \in Msg /\ Has(t, d, m)
    BY ZenonT(30), <1>19 DEF Write, ThDest, Has, Holds, Msg, Payload, Empty, TypeInv
  <2>1. /\ UNCHANGED <<pending, accepted, nread, mainPc, teeCount, branch, left>>
        /\ sent' = [sent EXCEPT ![d] = sent[d] \cup {m}]
        /\ thState' = [thState EXCEPT ![t] = "post"] /\ thState[t] = "write"
    BY Zenon, <1>19 DEF Write
  <2>2. m \in accepted[d] /\ m \notin sent[d]
    BY Zenon, <2>0 DEF IInv, PlaceInv, Place
  <2> HIDE DEF d, m
  <2>3. Unsent' = Unsent \ {<<d, m>>} /\ <<d, m>> \in Unsent
    <3>1. ASSUME NEW x \in Dest \X Msg
          PROVE  x[2] \in accepted'[x[1]] \ sent'[x[1]]
                   <=> x[2] \in accepted[x[1]] \ sent[x[1]] /\ x # <<d, m>>
      BY <2>0, <2>1
    <3> QED  BY ZenonT(30), <2>0, <2>2, <3>1 DEF Unsent
  <2>4. Posting' = Posting \cup {t} /\ t \notin Posting
    BY <2>1 DEF Posting
  <2>5. Cardinality(Unsent') = Cardinality(Unsent) - 1
    <3>1. PICK x : x = <<d, m>>
      BY ZenonT(30)
    <3>2. Unsent' = Unsent \ {x} /\ x \in Unsent /\ IsFiniteSet(Unsent)
      BY Zenon, <2>3, <3>1, CountFinite
    <3> QED  BY ONLY SMTT(30), <3>2, FS_RemoveElement
  <2>6. Cardinality(Posting') = Cardinality(Posting) + 1
    BY ONLY ZenonT(30), <1>0, <2>4, CountFinite, FS_AddElement
  <2>7. Teed' = Teed + 0 /\ Counted' = Counted /\ (Alive' => Alive)
    BY <2>1 DEF Teed, Counted, Alive
  <2>8. Alive' => \E p \in (1 - CounterMod)..(CounterMod - 1) : PendingIs(p)'
    <3>1. Cardinality(Unsent)' + Cardinality(Posting)'
           <= Cardinality(Unsent) + Cardinality(Posting) + 0
      BY <2>5, <2>6, CountFinite
    <3> QED  BY Zenon, <2>1, <2>7, <3>1, CountKept
  <2>9. Cardinality(branch \ left)' = Cardinality(branch \ left)
    BY Zenon, <2>1
  <2> QED  BY Zenon, <2>1, <2>8, <2>9 DEF CountInv
<1>20. ASSUME NEW t \in Thread, WriteRefused(t) PROVE CountInv'
  <2>1. /\ UNCHANGED <<pending, accepted, sent, nread, teeCount, branch, left>>
        /\ Posting' = Posting /\ (mainPc' = "tee" <=> mainPc = "tee") /\ (Alive' => Alive)
    BY Zenon, <1>20 DEF WriteRefused, ThreadGoes, Posting, Alive
  <2> QED  BY Zenon, <2>1, CountStutter
<1>21. ASSUME NEW t \in Thread, WriteFails(t) PROVE CountInv'
  <2>1. /\ UNCHANGED <<pending, accepted, sent, nread, teeCount, branch, left>>
        /\ Posting' = Posting /\ (mainPc' = "tee" <=> mainPc = "tee") /\ (Alive' => Alive)
    BY Zenon, <1>21 DEF WriteFails, ThreadGoes, Posting, Alive
  <2> QED  BY Zenon, <2>1, CountStutter
<1>22. ASSUME NEW t \in Thread, Processed(t) PROVE CountInv'
  <2>1. /\ UNCHANGED <<accepted, sent, nread, mainPc, teeCount, branch, left>>
        /\ pending' = (pending + CounterMod - 1) % CounterMod
        /\ thState' = [thState EXCEPT ![t] = "get"] /\ thState[t] = "post"
    BY Zenon, <1>22 DEF Processed
  <2>2. Unsent' = Unsent /\ Teed' = Teed /\ Counted' = Counted /\ (Alive' => Alive)
    BY Zenon, <2>1 DEF Unsent, Teed, Counted, Alive
  <2>3. Posting' = Posting \ {t} /\ t \in Posting
    BY Zenon, <2>1 DEF Posting
  <2>4. Cardinality(Posting') = Cardinality(Posting) - 1
    BY ONLY ZenonT(30), <1>0, <2>3, CountFinite, FS_RemoveElement
  <2>5. ASSUME Alive PROVE \E p \in (1 - CounterMod)..(CounterMod - 1) : PendingIs(p)'
    <3>1. PICK p \in (1 - CounterMod)..(CounterMod - 1) : PendingIs(p)
      BY Zenon, <2>5 DEF CountInv
    <3>2. Teed \in Nat /\ Teed < CounterMod
      <4>1. CASE mainPc = "tee"
        <5>1. nread \in 0..MaxMsg /\ nread > 0 /\ Teed = teeCount
          BY Zenon, <4>1 DEF Teed, CountInv
        <5>2. Cardinality(Dest) \in Nat /\ Cardinality(Dest) < CounterMod
          BY Zenon, <5>1, CountBound
        <5>3. teeCount <= Cardinality(branch \ left)
          BY Zenon, <4>1 DEF CountInv
        <5> QED  BY <5>1, <5>2, <5>3, CountFinite
      <4>2. CASE mainPc # "tee"
        BY <4>2 DEF Teed
      <4> QED  BY Zenon, <4>1, <4>2
    <3>3. Counted * Cardinality(Dest) \in Nat
      <4>1. Counted \in 0..MaxMsg
        BY DEF Counted, CountInv
      <4> QED  BY Zenon, <4>1, CountBound
    <3>4. PICK U \in Nat, Q \in Nat, r \in Nat, X \in Nat, x \in Nat :
            /\ U = Cardinality(Unsent) /\ Q = Cardinality(Posting) /\ r = Cardinality(Posting')
            /\ X = Counted * Cardinality(Dest) /\ x = Teed
      BY Zenon, <3>2, <3>3, CountFinite, CountFiniteNow
    <3>5. /\ pending = (IF p < 0 THEN p + CounterMod ELSE p)
          /\ U + Q <= p + x /\ p <= X /\ r = Q - 1 /\ x < CounterMod
      BY Zenon, <2>4, <3>1, <3>2, <3>4 DEF PendingIs
    <3>6. PICK s \in (1 - CounterMod)..(CounterMod - 1) : s = p - 1
      BY <3>5
    <3>7. pending' = IF s < 0 THEN s + CounterMod ELSE s
      <4>1. PICK b \in 0..(2 * CounterMod - 1) : b = pending + CounterMod - 1
        BY <3>5
      <4>2. b % CounterMod = IF b < CounterMod THEN b ELSE b - CounterMod
        BY ZenonT(30), Wrap
      <4> QED  BY <2>1, <3>5, <3>6, <4>1, <4>2
    <3>8. U + r <= s + x /\ s <= X
      BY <3>5, <3>6
    <3>9. PendingIs(s)'
      BY Zenon, <2>2, <3>4, <3>7, <3>8 DEF PendingIs
    <3> QED  BY Zenon, <3>9
  <2>6. Cardinality(branch \ left)' = Cardinality(branch \ left)
    BY Zenon, <2>1
  <2> QED  BY Zenon, <2>1, <2>2, <2>5, <2>6 DEF CountInv
<1>23. ASSUME NEW t \in Thread, Requeue(t) PROVE CountInv'
  <2>1. /\ UNCHANGED <<pending, accepted, sent, nread, teeCount, branch, left>>
        /\ Posting' = Posting /\ (mainPc' = "tee" <=> mainPc = "tee") /\ (Alive' => Alive)
    BY Zenon, <1>23 DEF Requeue, Posting, Alive
  <2> QED  BY Zenon, <2>1, CountStutter
<1>24. ASSUME NEW t \in Thread, RequeueLost(t) PROVE CountInv'
  <2>1. /\ UNCHANGED <<pending, accepted, sent, nread, teeCount, branch, left>>
        /\ Posting' = Posting /\ (mainPc' = "tee" <=> mainPc = "tee") /\ (Alive' => Alive)
    BY Zenon, <1>24 DEF RequeueLost, Posting, Alive
  <2> QED  BY Zenon, <2>1, CountStutter
<1>25. ASSUME NEW t \in Thread, Erase(t) PROVE CountInv'
  <2>1. /\ UNCHANGED <<pending, accepted, sent, nread, teeCount, branch, left>>
        /\ Posting' = Posting /\ (mainPc' = "tee" <=> mainPc = "tee") /\ (Alive' => Alive)
    BY Zenon, <1>25 DEF Erase, Posting, Alive
  <2> QED  BY Zenon, <2>1, CountStutter
<1>26. CASE UNCHANGED vars
  <2>1. /\ UNCHANGED <<pending, accepted, sent, nread, teeCount, branch, left>>
        /\ Posting' = Posting /\ (mainPc' = "tee" <=> mainPc = "tee") /\ (Alive' => Alive)
    BY Zenon, <1>26 DEF vars, Posting, Alive
  <2> QED  BY Zenon, <2>1, CountStutter
<1> QED
  BY ZenonT(30), <1>1, <1>2, <1>3, <1>4, <1>5, <1>6, <1>7, <1>8, <1>9, <1>10, <1>11, <1>12, <1>13,
     <1>14, <1>15, <1>16, <1>17, <1>18, <1>19, <1>20, <1>21, <1>22, <1>23, <1>24, <1>25, <1>26
  DEF Next, CalmNext, MainRuns, ConnectorRuns, ThreadRuns, TeePutDrops,
      GetFails, GetInterrupted

\* When run() stops waiting because pending_counter is 0 (pub.cpp:96), every
\* message a queue accepted has been written, whatever the order in which the
\* main thread adds and the producer threads subtract; total_processed counts
\* every written message once; no counter leaves its range.
THEOREM CountersAreSound == Spec => []CountersSound
<1>1. Init => MetricExact /\ CountInv
  <2> SUFFICES ASSUME Init PROVE MetricExact /\ CountInv
    BY Zenon
  <2> USE DEF Init
  <2>1. \A d \in Dest : PostingFor(d) = {}
    BY Zenon DEF PostingFor
  <2>6. \A d \in Dest : processed[d] = 0 /\ sent[d] = {}
    BY Zenon
  <2>7. Cardinality({}) = 0
    BY Zenon, FS_EmptySet
  <2>2. MetricExact
    <3>1. \A d \in Dest : processed[d] + Cardinality(PostingFor(d)) = Cardinality(sent[d])
      BY ONLY SMTT(30), <2>1, <2>6, <2>7
    <3> QED  BY ONLY SMTT(30), <3>1 DEF MetricExact, PostingFor
  <2>3. Unsent = {} /\ Posting = {} /\ Teed = 0 /\ Counted = 0
    BY Zenon DEF Unsent, Posting, Teed, Counted
  <2>4. PendingIs(0)
    BY <2>3, FS_EmptySet, CounterAssumption, FS_CardinalityType DEF PendingIs
  <2>5. 0 \in (1 - CounterMod)..(CounterMod - 1)
    BY PublisherAssumption
  <2> QED  BY Zenon, <2>2, <2>4, <2>5 DEF CountInv
<1>2. IInv /\ CountInv => DrainSound
  <2> SUFFICES ASSUME IInv, CountInv, mainPc = "drain", pending = 0
               PROVE  \A d \in Dest : accepted[d] \subseteq sent[d]
    BY Zenon DEF DrainSound
  <2>0. TypeInv
    BY Zenon DEF IInv
  <2>1. PICK p \in (1 - CounterMod)..(CounterMod - 1) : PendingIs(p)
    BY Zenon DEF CountInv, Alive
  <2>2. /\ Cardinality(Unsent) + Cardinality(Posting) <= p
        /\ 0 = IF p < 0 THEN p + CounterMod ELSE p
    BY <2>1, PublisherAssumption DEF PendingIs, Teed
  <2>3. Cardinality(Unsent) = 0
    BY <2>0, <2>2, CountFinite, PublisherAssumption
  <2>4. Unsent = {}
    BY Zenon, <2>0, <2>3, CountFinite, FS_EmptySet
  <2>5. ASSUME NEW d \in Dest, NEW m \in accepted[d] PROVE m \in sent[d]
    <3>1. <<d, m>> \in Dest \X Msg
      BY Zenon, <2>0 DEF TypeInv, TypeOK
    <3> QED  BY <2>4, <3>1 DEF Unsent
  <2> QED  BY Zenon, <2>5
<1>3. IInv => TypeOK
  BY Zenon DEF IInv, TypeInv
<1>4. IInv /\ MetricExact /\ CountInv => CountersSound
  BY Zenon, <1>2, <1>3 DEF CountersSound
<1> QED  BY <1>1, <1>4, MetricStep, CountStep, Invariance, PTL DEF Spec

\* The part of it that run() relies on at the end of the input.
THEOREM AllDrained == Spec => []DrainSound
<1>1. CountersSound => DrainSound
  BY Zenon DEF CountersSound
<1> QED  BY <1>1, CountersAreSound, PTL
=============================================================================
