--------------------------- MODULE PipelineProofs ---------------------------
(***************************************************************************)
(* The inductive invariant of Pipeline and the theorems about it.  Every   *)
(* byte stream is made of whole messages, in order, but for the one that   *)
(* is being written; a message goes whole and in one copy; Delivery is     *)
(* implemented.  For any number of subscribers, connections and messages,  *)
(* any capacity of the queues and any length of header and body.           *)
(***************************************************************************)
EXTENDS Pipeline, TLAPS

\* The time the provers may take at a step that names none of them.
USE SMTT(30), ZenonT(30)

Unit == Msg \X (1..UnitLen)

-----------------------------------------------------------------------------
(* The inductive invariant.                                                *)

\* What was written on the connection and not put in the subscriber's queue.
Flow(c) == acc[c] \o wire[c]

\* Units come in the order in which Units(m) has them, message after message,
\* from the beginning of one: the unit d places after the j-th unit of m is
\* the (j + d)-th of m, or the first of another message when j was the last.
Framed(u) ==
  /\ Len(u) > 0 => u[1][2] = 1
  /\ \A p, q \in 1..Len(u) : p <= q =>
       /\ u[p][2] + (q - p) <= UnitLen => u[q] = <<u[p][1], u[p][2] + (q - p)>>
       /\ u[p][2] + (q - p) = UnitLen + 1 => u[q][2] = 1

\* The last unit is the last one the producer thread wrote of its message, or
\* the end of a message if it has written nothing of the next.
Ends(c) ==
  LET u == Flow(c) IN
  IF th[c] = "write" /\ done[c] > 0
  THEN Len(u) > 0 /\ u[Len(u)] = <<thMsg[c], done[c]>>
  ELSE Len(u) > 0 => u[Len(u)][2] = UnitLen

\* The two ends of a connection: what is on it, and who works on it.
ConnAt(c) ==
  /\ net[c] = "none" => th[c] = "none" /\ rc[c] = "none" /\ peer[c] = NoSub
  /\ net[c] # "none" => peer[c] \in Sub /\ rc[c] # "none"
  /\ net[c] = "finished" => th[c] = "ended"
  /\ th[c] = "requeue" => net[c] \in {"gone", "reset"}
  /\ th[c] \in {"write", "post", "requeue"} => thMsg[c] \in Msg
  /\ th[c] = "write" => done[c] < UnitLen
  /\ rc[c] \in {"none", "ended"} => acc[c] = <<>> /\ wire[c] = <<>>
  /\ rc[c] = "read" => Len(acc[c]) < UnitLen
  /\ rc[c] = "put" => Len(acc[c]) = UnitLen
  /\ rc[c] = "ended" => net[c] # "open"
  /\ wire[c] # <<>> => net[c] \in {"open", "finished"}
  /\ net[c] \in {"gone", "reset"} => faulty

ConnInv == \A c \in Conn : ConnAt(c)

FrameAt(c) == Framed(Flow(c)) /\ (net[c] \in {"open", "finished"} => Ends(c))

FrameInv == \A c \in Conn : FrameAt(c)

\* The places of a message: the branch queue, the buffer of a producer thread,
\* a connection (once its last unit is written) and a subscriber's queue.
Single(s, x)  == \A i, j \in 1..Len(s) : s[i] = x /\ s[j] = x => i = j
InBuf(c, m)   == th[c] \in {"write", "requeue"} /\ thMsg[c] = m
InFlow(c, m)  == In(<<m, UnitLen>>, Flow(c))
InSub(s, m)   == In(m, sq[s])
Placed(m)     == \/ In(m, mq) \/ \E c \in Conn : InBuf(c, m) \/ InFlow(c, m)
                 \/ \E s \in Sub : InSub(s, m)

\* A message is in one place and there once, and only between its acceptance
\* and its printing.
Kept(m) ==
  /\ Single(mq, m)
  /\ \A c \in Conn : Single(Flow(c), <<m, UnitLen>>)
  /\ \A s \in Sub : Single(sq[s], m)
  /\ In(m, mq) => /\ \A c \in Conn : ~InBuf(c, m) /\ ~InFlow(c, m)
                  /\ \A s \in Sub : ~InSub(s, m)
  /\ \A c, e \in Conn : /\ InBuf(c, m) /\ InBuf(e, m) => c = e
                        /\ InFlow(c, m) /\ InFlow(e, m) => c = e
                        /\ ~(InBuf(c, m) /\ InFlow(e, m))
  /\ \A c \in Conn, s \in Sub : InSub(s, m) => ~InBuf(c, m) /\ ~InFlow(c, m)
  /\ \A s, t \in Sub : InSub(s, m) /\ InSub(t, m) => s = t
  /\ Placed(m) => m \in accepted /\ m \notin printed

KeptInv == \A m \in Msg : Kept(m)

\* Without a fault no accepted message is out of place before it is printed.
LossInv == ~faulty => \A m \in accepted : m \in printed \/ Placed(m)

\* The subscribers' queues hold messages, and so does standard output; the
\* accepted messages are the first ones.
MsgInv ==
  /\ sq \in [Sub -> Seq(Msg)] /\ printed \subseteq accepted
  /\ \E n \in 0..MaxMsg : accepted = 1..n

IInv == TypeOK /\ ConnInv /\ FrameInv /\ KeptInv /\ LossInv /\ MsgInv

-----------------------------------------------------------------------------
(* Lemmas about sequences.                                                 *)

\* Append (msgsnd) adds an occurrence of what is appended and no other.
LEMMA AppendIn ==
  ASSUME NEW S, NEW s \in Seq(S), NEW e \in S, NEW x
  PROVE  In(x, Append(s, e)) <=> In(x, s) \/ x = e
<1>1. /\ Len(Append(s, e)) = Len(s) + 1 /\ Len(s) \in Nat
      /\ \A i \in 1..Len(s) : Append(s, e)[i] = s[i]
      /\ Append(s, e)[Len(s) + 1] = e
  OBVIOUS
<1>2. \A i \in 1..Len(Append(s, e)) : i \in 1..Len(s) \/ i = Len(s) + 1
  BY <1>1
<1>3. \A i \in 1..Len(s) : i \in 1..Len(Append(s, e))
  BY <1>1
<1>4. Len(s) + 1 \in 1..Len(Append(s, e))
  BY <1>1
<1> QED BY Zenon, <1>1, <1>2, <1>3, <1>4 DEF In

\* An element that comes once still does after another is appended.
LEMMA AppendSingle ==
  ASSUME NEW S, NEW s \in Seq(S), NEW e \in S, NEW x, Single(s, x), x = e => ~In(x, s)
  PROVE  Single(Append(s, e), x)
<1>1. /\ Len(Append(s, e)) = Len(s) + 1 /\ Len(s) \in Nat
      /\ \A i \in 1..Len(s) : Append(s, e)[i] = s[i]
      /\ Append(s, e)[Len(s) + 1] = e
  OBVIOUS
<1>2. \A i \in 1..Len(Append(s, e)) : i \in 1..Len(s) \/ i = Len(s) + 1
  BY <1>1
<1> QED BY Zenon, <1>1, <1>2 DEF In, Single

\* Taking the head (msgrcv) takes that occurrence away and no other.
LEMMA TailIn ==
  ASSUME NEW S, NEW s \in Seq(S), s # <<>>, NEW x, Single(s, x)
  PROVE  /\ Head(s) \in S /\ In(Head(s), s) /\ Tail(s) \in Seq(S)
         /\ In(x, Tail(s)) <=> In(x, s) /\ x # Head(s)
         /\ Single(Tail(s), x)
<1>1. /\ Len(s) \in Nat /\ Len(s) > 0 /\ Head(s) = s[1] /\ Head(s) \in S /\ Tail(s) \in Seq(S)
      /\ Len(Tail(s)) = Len(s) - 1
      /\ \A i \in 1..Len(Tail(s)) : Tail(s)[i] = s[i + 1]
  OBVIOUS
<1>2. \A i \in 1..Len(Tail(s)) : i + 1 \in 1..Len(s) /\ i + 1 # 1
  BY <1>1
<1>3. \A i \in 1..Len(s) : i # 1 => i - 1 \in 1..Len(Tail(s)) /\ Tail(s)[i - 1] = s[i]
  BY <1>1
<1>4. 1 \in 1..Len(s)
  BY <1>1
<1>5. In(Head(s), s)
  BY Zenon, <1>1, <1>4 DEF In
<1>6. ASSUME In(x, Tail(s)) PROVE In(x, s) /\ x # Head(s)
  BY Zenon, <1>1, <1>2, <1>4, <1>6 DEF In, Single
<1>7. ASSUME In(x, s), x # Head(s) PROVE In(x, Tail(s))
  BY Zenon, <1>1, <1>3, <1>7 DEF In
<1>8. ASSUME NEW i \in 1..Len(Tail(s)), NEW j \in 1..Len(Tail(s)), Tail(s)[i] = x, Tail(s)[j] = x
      PROVE  i = j
  <2>1. i + 1 = j + 1
    BY Zenon, <1>1, <1>2, <1>8 DEF Single
  <2> QED BY <2>1
<1>9. Single(Tail(s), x)
  BY Zenon, <1>8 DEF Single
<1> QED BY Zenon, <1>1, <1>5, <1>6, <1>7, <1>9

\* What is joined has the parts' elements, in their order.
LEMMA Joined ==
  ASSUME NEW S, NEW a \in Seq(S), NEW w \in Seq(S)
  PROVE  /\ a \o w \in Seq(S) /\ Len(a) \in Nat /\ Len(w) \in Nat
         /\ Len(a \o w) = Len(a) + Len(w)
         /\ \A i \in 1..Len(a) : (a \o w)[i] = a[i]
         /\ \A i \in 1..Len(w) : (a \o w)[Len(a) + i] = w[i]
         /\ (w = <<>> => a \o w = a) /\ (a = <<>> => a \o w = w)
<1>1. a \o w \in Seq(S) /\ Len(a) \in Nat /\ Len(w) \in Nat /\ Len(a \o w) = Len(a) + Len(w)
  OBVIOUS
<1>2. \A i \in 1..Len(a) + Len(w) : (a \o w)[i] = IF i <= Len(a) THEN a[i] ELSE w[i - Len(a)]
  OBVIOUS
<1>3. ASSUME NEW i \in 1..Len(a) PROVE (a \o w)[i] = a[i]
  <2>1. i \in 1..Len(a) + Len(w) /\ i <= Len(a)
    BY <1>1
  <2> QED BY Zenon, <1>2, <2>1
<1>4. ASSUME NEW i \in 1..Len(w) PROVE (a \o w)[Len(a) + i] = w[i]
  <2>1. Len(a) + i \in 1..Len(a) + Len(w) /\ ~(Len(a) + i <= Len(a)) /\ (Len(a) + i) - Len(a) = i
    BY <1>1
  <2> QED BY Zenon, <1>2, <2>1
<1>5. (w = <<>> => a \o w = a) /\ (a = <<>> => a \o w = w)
  OBVIOUS
<1> QED BY Zenon, <1>1, <1>3, <1>4, <1>5

\* Nothing is in the empty sequence.
LEMMA EmptyIn == ASSUME NEW x PROVE ~In(x, <<>>) /\ Single(<<>>, x)
BY DEF In, Single

\* A beginning of a sequence has nothing the sequence has not.
LEMMA PrefixIn ==
  ASSUME NEW S, NEW u \in Seq(S), NEW v \in Seq(S), Len(v) <= Len(u),
         \A i \in 1..Len(v) : v[i] = u[i], NEW x
  PROVE  (In(x, v) => In(x, u)) /\ (Single(u, x) => Single(v, x))
<1>1. \A i \in 1..Len(v) : i \in 1..Len(u)
  OBVIOUS
<1> QED BY Zenon, <1>1 DEF In, Single

-----------------------------------------------------------------------------
(* Frames.                                                                 *)

\* A framed message has a header and a body, each of at least one unit.
LEMMA LengthsAreNumbers ==
  UnitLen \in Nat /\ UnitLen > 1 /\ HeadLen \in Nat /\ HeadLen < UnitLen /\ HeadLen > 0
BY PipelineAssumption DEF UnitLen

\* A unit is a message and a place in it.
LEMMA UnitParts ==
  ASSUME NEW u \in Seq(Unit)
  PROVE  /\ Len(u) \in Nat
         /\ \A i \in 1..Len(u) : /\ u[i] \in Unit /\ u[i][1] \in Msg /\ u[i][2] \in Nat
                                 /\ u[i][2] >= 1 /\ u[i][2] <= UnitLen /\ u[i] = <<u[i][1], u[i][2]>>
BY LengthsAreNumbers DEF Unit

\* A beginning of a framed sequence is framed.
LEMMA FramedPrefix ==
  ASSUME NEW u \in Seq(Unit), NEW v \in Seq(Unit), Framed(u), Len(v) <= Len(u),
         \A i \in 1..Len(v) : v[i] = u[i]
  PROVE  Framed(v)
<1>1. \A i \in 1..Len(v) : i \in 1..Len(u)
  OBVIOUS
<1>2. Len(v) > 0 => Len(u) > 0 /\ 1 \in 1..Len(v)
  OBVIOUS
<1>3. Len(v) > 0 => v[1][2] = 1
  BY Zenon, <1>2 DEF Framed
<1>4. \A p, q \in 1..Len(v) : p <= q =>
       /\ v[p][2] + (q - p) <= UnitLen => v[q] = <<v[p][1], v[p][2] + (q - p)>>
       /\ v[p][2] + (q - p) = UnitLen + 1 => v[q][2] = 1
  BY <1>1 DEF Framed
<1> QED BY Zenon, <1>3, <1>4 DEF Framed

\* The first units of a framed sequence are those of one message.
LEMMA FirstMessage ==
  ASSUME NEW u \in Seq(Unit), Framed(u), NEW i \in 1..Len(u), i <= UnitLen
  PROVE  u[i] = <<u[1][1], i>>
<1>1. 1 \in 1..Len(u) /\ 1 <= i /\ Len(u) > 0
  OBVIOUS
<1>2. u[1][2] = 1
  BY Zenon, <1>1 DEF Framed
<1>3. u[1][2] + (i - 1) <= UnitLen => u[i] = <<u[1][1], u[1][2] + (i - 1)>>
  BY Zenon, <1>1 DEF Framed
<1>4. u[1][2] + (i - 1) = i
  BY <1>2
<1> QED BY Zenon, <1>3, <1>4

\* Without its first message a framed sequence is framed.
LEMMA FramedShift ==
  ASSUME NEW u \in Seq(Unit), NEW v \in Seq(Unit), Framed(u), Len(u) >= UnitLen,
         Len(v) = Len(u) - UnitLen, \A i \in 1..Len(v) : v[i] = u[i + UnitLen]
  PROVE  Framed(v)
<1>0. Len(u) \in Nat /\ Len(v) \in Nat /\ UnitLen \in Nat /\ UnitLen > 1
  BY LengthsAreNumbers
<1>1. \A i \in 1..Len(v) : i + UnitLen \in 1..Len(u)
  BY <1>0
<1>2. ASSUME Len(v) > 0 PROVE v[1][2] = 1
  <2>1. 1 \in 1..Len(v) /\ 1 \in 1..Len(u) /\ 1 + UnitLen \in 1..Len(u) /\ 1 <= 1 + UnitLen
    BY <1>0, <1>1, <1>2
  <2>2. u[1][2] = 1
    BY <2>1 DEF Framed
  <2>3. u[1][2] + ((1 + UnitLen) - 1) = UnitLen + 1
    BY <1>0, <2>2
  <2>4. u[1 + UnitLen][2] = 1
    BY Zenon, <2>1, <2>3 DEF Framed
  <2> QED BY Zenon, <2>1, <2>4
<1>3. ASSUME NEW p \in 1..Len(v), NEW q \in 1..Len(v), p <= q
      PROVE  /\ v[p][2] + (q - p) <= UnitLen => v[q] = <<v[p][1], v[p][2] + (q - p)>>
             /\ v[p][2] + (q - p) = UnitLen + 1 => v[q][2] = 1
  <2>1. /\ p + UnitLen \in 1..Len(u) /\ q + UnitLen \in 1..Len(u) /\ p + UnitLen <= q + UnitLen
        /\ (q + UnitLen) - (p + UnitLen) = q - p
    BY <1>0, <1>1, <1>3
  <2>2. v[p] = u[p + UnitLen] /\ v[q] = u[q + UnitLen]
    BY Zenon
  <2>3. /\ u[p + UnitLen][2] + ((q + UnitLen) - (p + UnitLen)) <= UnitLen =>
             u[q + UnitLen] = <<u[p + UnitLen][1], u[p + UnitLen][2] + ((q + UnitLen) - (p + UnitLen))>>
        /\ u[p + UnitLen][2] + ((q + UnitLen) - (p + UnitLen)) = UnitLen + 1 => u[q + UnitLen][2] = 1
    BY Zenon, <2>1 DEF Framed
  <2> QED BY Zenon, <2>1, <2>2, <2>3
<1> QED BY Zenon, <1>2, <1>3 DEF Framed

\* Distances from p over t to q.
LEMMA Distances ==
  ASSUME NEW a \in Nat, NEW p \in Nat, NEW t \in Nat, NEW q \in Nat, NEW n \in Nat, p <= t, t < q
  PROVE  /\ a + (q - p) <= n + 1 => a + (t - p) <= n
         /\ (a + (t - p)) + (q - t) = a + (q - p)
OBVIOUS

\* A message of n units ends at t: what comes after t is beyond its end.
LEMMA BeyondEnd ==
  ASSUME NEW a \in Nat, NEW p \in Nat, NEW t \in Nat, NEW q \in Nat, NEW n \in Nat, t < q,
         a + (q - p) <= n + 1 => a + (t - p) = n
  PROVE  ~(a + (q - p) <= n)
OBVIOUS

\* The next units of the message under way, or the first ones of another
\* after the end of one, keep a sequence framed.
LEMMA FramedExtend ==
  ASSUME NEW u \in Seq(Unit), NEW v \in Seq(Unit), Framed(u),
         NEW m \in Msg, NEW d \in Nat, NEW k \in Nat, d + k <= UnitLen,
         d > 0 => Len(u) > 0 /\ u[Len(u)] = <<m, d>>,
         d = 0 /\ Len(u) > 0 => u[Len(u)][2] = UnitLen,
         Len(v) = Len(u) + k, \A i \in 1..Len(u) : v[i] = u[i],
         \A j \in 1..k : v[Len(u) + j] = <<m, d + j>>
  PROVE  Framed(v)
<1> DEFINE T == Len(u)
<1>0. T \in Nat /\ UnitLen \in Nat /\ UnitLen > 1 /\ Len(v) = T + k
  BY LengthsAreNumbers
<1>1. \A i \in 1..T : v[i] = u[i] /\ u[i][2] \in Nat /\ u[i][2] >= 1 /\ u[i][2] <= UnitLen
  BY Zenon, UnitParts
<1>2. \A i \in 1..Len(v) : i > T => i - T \in 1..k /\ v[i][1] = m /\ v[i][2] = d + (i - T)
  <2> TAKE i \in 1..Len(v)
  <2> HAVE i > T
  <2>1. i - T \in 1..k /\ T + (i - T) = i
    BY <1>0
  <2>2. v[i] = <<m, d + (i - T)>>
    BY Zenon, <2>1
  <2> QED BY <2>1, <2>2
<1>3. T > 0 => T \in 1..T
  BY <1>0
<1>4. ASSUME Len(v) > 0 PROVE v[1][2] = 1
  <2>1. CASE T > 0
    BY <1>0, <1>1, <2>1 DEF Framed
  <2>2. CASE T = 0
    BY <1>0, <1>2, <1>4, <2>2
  <2> QED BY <1>0, <2>1, <2>2
<1>5. ASSUME NEW p \in 1..Len(v), NEW q \in 1..Len(v), p <= q
      PROVE  /\ v[p][2] + (q - p) <= UnitLen => v[q] = <<v[p][1], v[p][2] + (q - p)>>
             /\ v[p][2] + (q - p) = UnitLen + 1 => v[q][2] = 1
  <2>0. v[q] = <<v[q][1], v[q][2]>> /\ v[q][2] \in Nat /\ v[p][2] \in Nat
    BY Zenon, UnitParts
  <2>1. CASE q <= T
    <3>1. p \in 1..T /\ q \in 1..T
      BY <1>0, <1>5, <2>1
    <3> QED BY ZenonT(30), <1>5, <3>1 DEF Framed
  <2>2. CASE p > T
    <3>1. v[p][1] = m /\ v[p][2] = d + (p - T) /\ v[q][1] = m /\ v[q][2] = d + (q - T) /\ q - T <= k
      BY <1>0, <1>2, <1>5, <2>2
    <3> QED BY <1>0, <2>0, <3>1
  <2>3. CASE p <= T /\ q > T
    <3>1. p \in 1..T /\ T \in 1..T /\ p <= T /\ T > 0
      BY <1>0, <2>3
    <3>2. v[p] = u[p] /\ v[q][1] = m /\ v[q][2] = d + (q - T) /\ q - T <= k /\ q - T >= 1
      BY <1>0, <1>1, <1>2, <1>5, <2>3, <3>1
    <3>3. u[p][2] + (T - p) <= UnitLen => u[T] = <<u[p][1], u[p][2] + (T - p)>>
      BY Zenon, <3>1 DEF Framed
    <3>4. u[p][2] + (T - p) <= UnitLen => u[T][1] = u[p][1] /\ u[T][2] = u[p][2] + (T - p)
      BY ONLY SMTT(30), <3>3
    <3>7. /\ u[p][2] \in Nat /\ p \in Nat /\ q \in Nat /\ T \in Nat /\ UnitLen \in Nat
          /\ q > T /\ p <= T /\ q - T <= k /\ d + k <= UnitLen
      BY <1>0, <1>1, <1>5, <2>3, <3>1, <3>2
    <3> HIDE DEF T
    <3>5. CASE d > 0
      <4>1. u[T][1] = m /\ u[T][2] = d
        BY <3>5 DEF T
      <4>2. u[p][2] + (q - p) <= UnitLen + 1 => u[p][2] + (T - p) <= UnitLen
        BY Zenon, <3>7, Distances
      <4>3. u[p][2] + (q - p) <= UnitLen + 1 => v[q][1] = u[p][1] /\ v[q][2] = u[p][2] + (q - p)
        <5> HAVE u[p][2] + (q - p) <= UnitLen + 1
        <5>1. m = u[p][1] /\ d = u[p][2] + (T - p)
          BY Zenon, <3>4, <4>1, <4>2
        <5>2. PICK a \in Nat : a = u[p][2]
          BY Zenon, <3>7
        <5>3. d + (q - T) = a + (q - p)
          <6>1. p \in Nat /\ q \in Nat /\ T \in Nat /\ d = a + (T - p)
            BY Zenon, <3>7, <5>1, <5>2
          <6> QED BY ONLY SMTT(30), <6>1, a \in Nat, d \in Nat, Distances
        <5> QED BY Zenon, <3>2, <5>1, <5>2, <5>3
      <4>4. u[p][2] + (q - p) # UnitLen + 1
        BY <3>2, <3>7, <4>3
      <4> QED BY <2>0, <3>2, <3>7, <4>3, <4>4
    <3>6. CASE d = 0
      <4>1. u[T][2] = UnitLen
        BY Zenon, <3>1, <3>6 DEF T
      <4>2. u[p][2] + (q - p) <= UnitLen + 1 => u[p][2] + (T - p) <= UnitLen
        BY Zenon, <3>7, Distances
      <4>3. u[p][2] + (q - p) <= UnitLen + 1 => u[p][2] + (T - p) = UnitLen
        BY Zenon, <3>4, <3>7, <4>1, <4>2
      <4>4. ~(u[p][2] + (q - p) <= UnitLen)
        BY Zenon, <3>7, <4>3, BeyondEnd
      <4>5. u[p][2] + (q - p) = UnitLen + 1 => q - T = 1
        <5> HAVE u[p][2] + (q - p) = UnitLen + 1
        <5>1. u[p][2] + (q - p) <= UnitLen + 1
          BY <3>7
        <5>2. u[p][2] + (T - p) = UnitLen
          BY Zenon, <4>3, <5>1
        <5>3. p \in Nat /\ q \in Nat /\ T \in Nat
          BY Zenon, <3>7
        <5>4. PICK a \in Nat : a = u[p][2]
          BY Zenon, <3>7
        <5>5. a + (q - p) = UnitLen + 1 /\ a + (T - p) = UnitLen
          BY Zenon, <5>2, <5>4
        <5> QED BY ONLY SMTT(30), <5>3, <5>5, a \in Nat
      <4> QED BY <3>2, <3>6, <3>7, <4>4, <4>5
    <3> QED BY <3>5, <3>6
  <2> QED BY <1>0, <2>1, <2>2, <2>3
<1> QED BY Zenon, <1>4, <1>5 DEF Framed

-----------------------------------------------------------------------------
(* Connections.                                                            *)

\* Flow(c) is what was read followed by what is on the wire.
LEMMA FlowFacts ==
  ASSUME TypeOK, NEW c \in Conn
  PROVE  /\ acc[c] \in Seq(Unit) /\ wire[c] \in Seq(Unit) /\ Flow(c) \in Seq(Unit)
         /\ Len(acc[c]) \in Nat /\ Len(wire[c]) \in Nat
         /\ Len(Flow(c)) = Len(acc[c]) + Len(wire[c]) /\ Len(acc[c]) <= Len(Flow(c))
         /\ \A i \in 1..Len(acc[c]) : Flow(c)[i] = acc[c][i]
         /\ \A i \in 1..Len(wire[c]) : Flow(c)[Len(acc[c]) + i] = wire[c][i]
         /\ wire[c] = <<>> => Flow(c) = acc[c]
         /\ acc[c] = <<>> => Flow(c) = wire[c]
<1> DEFINE a == acc[c]
<1> DEFINE w == wire[c]
<1>1. a \in Seq(Unit) /\ w \in Seq(Unit) /\ Flow(c) = a \o w
  BY Zenon DEF TypeOK, Unit, Flow
<1> SUFFICES /\ a \in Seq(Unit) /\ w \in Seq(Unit) /\ Flow(c) \in Seq(Unit)
             /\ Len(a) \in Nat /\ Len(w) \in Nat
             /\ Len(Flow(c)) = Len(a) + Len(w) /\ Len(a) <= Len(Flow(c))
             /\ \A i \in 1..Len(a) : Flow(c)[i] = a[i]
             /\ \A i \in 1..Len(w) : Flow(c)[Len(a) + i] = w[i]
             /\ w = <<>> => Flow(c) = a
             /\ a = <<>> => Flow(c) = w
  BY Zenon
<1> HIDE DEF a, w
<1>2. /\ a \o w \in Seq(Unit) /\ Len(a) \in Nat /\ Len(w) \in Nat
      /\ Len(a \o w) = Len(a) + Len(w)
      /\ \A i \in 1..Len(a) : (a \o w)[i] = a[i]
      /\ \A i \in 1..Len(w) : (a \o w)[Len(a) + i] = w[i]
      /\ (w = <<>> => a \o w = a) /\ (a = <<>> => a \o w = w)
  BY Zenon, <1>1, Joined
<1>3. Len(a) <= Len(a) + Len(w)
  BY <1>2
<1> QED BY ONLY SMTT(30), <1>1, <1>2, <1>3

\* A message that is written in part has at most the rest to go.
LEMMA PieceFits ==
  ASSUME NEW n \in Nat, n <= UnitLen, NEW k \in Nat, k <= Piece(n)
  PROVE  n + k <= UnitLen
BY LengthsAreNumbers DEF Piece

\* What write() sends: k units of m after the first d.
LEMMA SentUnits ==
  ASSUME NEW m \in Msg, NEW d \in Nat, NEW k \in Nat, d + k <= UnitLen
  PROVE  LET x == SubSeq(Units(m), d + 1, d + k)
         IN  x \in Seq(Unit) /\ Len(x) = k /\ \A j \in 1..k : x[j] = <<m, d + j>>
<1>1. UnitLen \in Nat
  BY Zenon, LengthsAreNumbers
<1>2. Units(m) \in Seq(Unit) /\ Len(Units(m)) = UnitLen /\ \A i \in 1..UnitLen : Units(m)[i] = <<m, i>>
  BY <1>1 DEF Units, Unit
<1> DEFINE x == SubSeq(Units(m), d + 1, d + k)
<1>3. d + 1 \in Nat /\ d + k \in Nat /\ (d + k) - (d + 1) + 1 = k
  OBVIOUS
<1>4. x \in Seq(Unit) /\ Len(x) = k
  <2>1. PICK u \in Seq(Unit) : u = Units(m) /\ Len(u) = UnitLen
    BY Zenon, <1>2
  <2>2. SubSeq(u, d + 1, d + k) \in Seq(Unit) /\ Len(SubSeq(u, d + 1, d + k)) = k
    BY ONLY SMTT(30), <1>1, <2>1, d \in Nat, k \in Nat, d + k <= UnitLen
  <2> QED BY Zenon, <2>1, <2>2
<1>5. \A j \in 1..k : x[j] = Units(m)[d + j]
  BY <1>1, <1>2
<1>6. \A j \in 1..k : d + j \in 1..UnitLen
  BY <1>1
<1> QED BY Zenon, <1>2, <1>4, <1>5, <1>6

\* Concatenation is associative.
LEMMA Associative ==
  ASSUME NEW S, NEW s \in Seq(S), NEW t \in Seq(S), NEW u \in Seq(S)
  PROVE  s \o (t \o u) = (s \o t) \o u
OBVIOUS

\* Sequences of one length with the same elements are equal.
LEMMA SameSeq ==
  ASSUME NEW S, NEW s \in Seq(S), NEW t \in Seq(S), Len(s) = Len(t),
         \A i \in 1..Len(t) : s[i] = t[i]
  PROVE  s = t
OBVIOUS

\* read() moves units from the wire to the buffer, and the flow is the same.
LEMMA ReadUnits ==
  ASSUME NEW a \in Seq(Unit), NEW w \in Seq(Unit), NEW k \in Nat, k <= Len(w)
  PROVE  /\ a \o SubSeq(w, 1, k) \in Seq(Unit) /\ SubSeq(w, k + 1, Len(w)) \in Seq(Unit)
         /\ Len(a \o SubSeq(w, 1, k)) = Len(a) + k
         /\ (a \o SubSeq(w, 1, k)) \o SubSeq(w, k + 1, Len(w)) = a \o w
<1> DEFINE x == SubSeq(w, 1, k)
<1> DEFINE y == SubSeq(w, k + 1, Len(w))
<1>1. x \in Seq(Unit) /\ Len(x) = k /\ y \in Seq(Unit)
  OBVIOUS
<1>2. x \o y = w
  <2>1. /\ Len(w) \in Nat /\ Len(y) = Len(w) - k
        /\ \A i \in 1..k : x[i] = w[i]
        /\ \A i \in 1..Len(y) : y[i] = w[k + i]
    OBVIOUS
  <2> HIDE DEF x, y
  <2>2. /\ x \o y \in Seq(Unit) /\ Len(x \o y) = Len(w)
        /\ \A i \in 1..k : (x \o y)[i] = x[i]
        /\ \A i \in 1..Len(y) : (x \o y)[k + i] = y[i]
    BY <1>1, <2>1, Joined
  <2>3. ASSUME NEW i \in 1..Len(w) PROVE (x \o y)[i] = w[i]
    <3>1. CASE i <= k
      BY <2>1, <2>2, <3>1
    <3>2. CASE ~(i <= k)
      <4>1. i - k \in 1..Len(y) /\ k + (i - k) = i
        BY <2>1, <3>2
      <4> QED BY <2>1, <2>2, <4>1
    <3> QED BY Zenon, <3>1, <3>2
  <2> QED BY ONLY Zenon, w \in Seq(Unit), <2>2, <2>3, SameSeq
<1> HIDE DEF x, y
<1>3. a \o x \in Seq(Unit) /\ Len(a \o x) = Len(a) + k
  BY <1>1, Joined
<1>4. (a \o x) \o y = a \o (x \o y)
  BY ONLY SMTT(30), <1>1, a \in Seq(Unit), Associative
<1> QED BY Zenon, <1>1, <1>2, <1>3, <1>4 DEF x, y

\* The types, in two parts.
PubType ==
  /\ accepted \subseteq Msg /\ mq \in Seq(Msg) /\ Len(mq) <= QCap
  /\ th \in [Conn -> {"none", "get", "write", "post", "requeue", "ended"}]
  /\ thMsg \in [Conn -> Msg \cup {0}] /\ done \in [Conn -> 0..UnitLen]
  /\ net \in [Conn -> {"none", "open", "finished", "gone", "reset"}]
  /\ peer \in [Conn -> Sub \cup {NoSub}] /\ faulty \in BOOLEAN

SubType ==
  /\ wire \in [Conn -> Seq(Unit)] /\ acc \in [Conn -> Seq(Unit)]
  /\ rc \in [Conn -> {"none", "read", "put", "ended"}]
  /\ up \in [Sub -> {"off", "up", "dead"}]
  /\ sq \in [Sub -> Seq(Msg)]
  /\ printed \subseteq Msg /\ prints \in Nat

\* The two parts make the type invariant.
LEMMA TypeSplit == PubType /\ SubType => TypeOK
<1>1. sq \in [Sub -> Seq(Msg)] => sq \in [Sub -> Seq(Msg \cup {Garbled})]
  <2>1. Seq(Msg) \subseteq Seq(Msg \cup {Garbled})
    OBVIOUS
  <2> QED BY Zenon, <2>1
<1> QED BY Zenon, <1>1 DEF PubType, SubType, TypeOK, Unit

\* The invariant has both parts, and no queue has a garbled message.
LEMMA TypeParts == IInv => PubType /\ SubType
BY Zenon DEF IInv, MsgInv, TypeOK, PubType, SubType, Unit

\* A System V queue of at most QCap messages stays one.
LEMMA QueueGrows ==
  ASSUME NEW s \in Seq(Msg), NEW m \in Msg, Len(s) < QCap
  PROVE  Append(s, m) \in Seq(Msg) /\ Len(Append(s, m)) <= QCap
<1>1. QCap \in Nat /\ Len(s) \in Nat
  BY PipelineAssumption
<1>2. Append(s, m) \in Seq(Msg) /\ Len(Append(s, m)) = Len(s) + 1
  OBVIOUS
<1> QED BY <1>1, <1>2

\* What is taken from a System V queue is a message.
LEMMA QueueShrinks ==
  ASSUME NEW s \in Seq(Msg), Len(s) <= QCap, s # <<>>
  PROVE  Head(s) \in Msg /\ Tail(s) \in Seq(Msg) /\ Len(Tail(s)) <= QCap
<1>1. QCap \in Nat /\ Len(s) \in Nat
  BY PipelineAssumption
<1>2. Head(s) \in Msg /\ Tail(s) \in Seq(Msg) /\ Len(Tail(s)) = Len(s) - 1
  OBVIOUS
<1> QED BY <1>1, <1>2

\* What write() does to the connection.
LEMMA WriteEffect ==
  ASSUME IInv, NEW c \in Conn, NEW k \in 1..UnitLen, WriteSome(c, k)
  PROVE  /\ thMsg[c] \in Msg /\ done[c] \in Nat /\ k \in Nat /\ k >= 1 /\ done[c] + k <= UnitLen
         /\ LET x == SubSeq(Units(thMsg[c]), done[c] + 1, done[c] + k) IN
            /\ x \in Seq(Unit) /\ Len(x) = k /\ \A j \in 1..k : x[j] = <<thMsg[c], done[c] + j>>
            /\ wire'[c] = IF net[c] = "gone" THEN wire[c] ELSE wire[c] \o x
            /\ wire' \in [Conn -> Seq(Unit)] /\ \A e \in Conn : e # c => wire'[e] = wire[e]
<1> DEFINE x == SubSeq(Units(thMsg[c]), done[c] + 1, done[c] + k)
<1>0. PubType /\ SubType /\ ConnAt(c)
  BY Zenon, TypeParts DEF IInv, ConnInv
<1>1. thMsg[c] \in Msg /\ done[c] \in Nat /\ done[c] <= UnitLen /\ k \in Nat /\ k >= 1 /\ k <= Piece(done[c])
  BY <1>0, LengthsAreNumbers DEF WriteSome, ConnAt, PubType
<1>2. done[c] + k <= UnitLen
  BY Zenon, <1>1, PieceFits
<1>3. x \in Seq(Unit) /\ Len(x) = k /\ \A j \in 1..k : x[j] = <<thMsg[c], done[c] + j>>
  BY Zenon, <1>1, <1>2, SentUnits
<1>4. wire' = IF net[c] = "gone" THEN wire ELSE [wire EXCEPT ![c] = @ \o x]
  BY Zenon DEF WriteSome
<1> HIDE DEF x
<1>5. wire[c] \in Seq(Unit) /\ wire[c] \o x \in Seq(Unit)
  BY <1>0, <1>3 DEF SubType
<1>6. /\ wire'[c] = IF net[c] = "gone" THEN wire[c] ELSE wire[c] \o x
      /\ wire' \in [Conn -> Seq(Unit)] /\ \A e \in Conn : e # c => wire'[e] = wire[e]
  BY Zenon, <1>0, <1>4, <1>5 DEF SubType
<1> QED BY Zenon, <1>1, <1>2, <1>3, <1>6 DEF x

\* What read() does to the connection.
LEMMA ReadEffect ==
  ASSUME IInv, NEW c \in Conn, NEW k \in 1..UnitLen, ReadSome(c, k)
  PROVE  /\ acc' \in [Conn -> Seq(Unit)] /\ wire' \in [Conn -> Seq(Unit)]
         /\ Len(acc[c]) \in Nat /\ Len(acc'[c]) = Len(acc[c]) + k /\ Len(acc[c]) + k <= UnitLen
         /\ acc'[c] \o wire'[c] = acc[c] \o wire[c] /\ wire[c] # <<>>
         /\ \A e \in Conn : e # c => acc'[e] = acc[e] /\ wire'[e] = wire[e]
<1>0. PubType /\ SubType /\ ConnAt(c)
  BY Zenon, TypeParts DEF IInv, ConnInv
<1> DEFINE a == acc[c]
<1> DEFINE w == wire[c]
<1>1. /\ a \in Seq(Unit) /\ w \in Seq(Unit) /\ k \in Nat /\ k >= 1 /\ k <= Len(w)
      /\ k <= Piece(Len(a)) /\ Len(a) < UnitLen
  BY <1>0, LengthsAreNumbers DEF ReadSome, ConnAt, SubType
<1>2. /\ acc' = [acc EXCEPT ![c] = a \o SubSeq(w, 1, k)]
      /\ wire' = [wire EXCEPT ![c] = SubSeq(w, k + 1, Len(w))]
  BY Zenon DEF ReadSome
<1> HIDE DEF a, w
<1>3. Len(a) \in Nat /\ Len(a) + k <= UnitLen /\ w # <<>>
  <2>1. Len(a) \in Nat /\ w # <<>> /\ Len(a) <= UnitLen
    BY <1>1, LengthsAreNumbers
  <2> QED BY Zenon, <1>1, <2>1, PieceFits
<1>4. /\ a \o SubSeq(w, 1, k) \in Seq(Unit) /\ SubSeq(w, k + 1, Len(w)) \in Seq(Unit)
      /\ Len(a \o SubSeq(w, 1, k)) = Len(a) + k
      /\ (a \o SubSeq(w, 1, k)) \o SubSeq(w, k + 1, Len(w)) = a \o w
  BY Zenon, <1>1, ReadUnits
<1>5. /\ acc' \in [Conn -> Seq(Unit)] /\ wire' \in [Conn -> Seq(Unit)]
      /\ acc'[c] = a \o SubSeq(w, 1, k) /\ wire'[c] = SubSeq(w, k + 1, Len(w))
      /\ \A e \in Conn : e # c => acc'[e] = acc[e] /\ wire'[e] = wire[e]
  BY Zenon, <1>0, <1>2, <1>4 DEF SubType
<1>6. Len(acc'[c]) = Len(a) + k /\ acc'[c] \o wire'[c] = a \o w
  BY Zenon, <1>4, <1>5
<1> QED BY Zenon, <1>3, <1>5, <1>6 DEF a, w

\* A receiver that has read a whole message has read the units of one.
LEMMA WholeMessage ==
  ASSUME IInv, NEW c \in Conn, rc[c] = "put"
  PROVE  /\ acc[c][1][1] \in Msg /\ MessageOf(acc[c]) = acc[c][1][1] /\ Len(acc[c]) = UnitLen
         /\ \A i \in 1..UnitLen : acc[c][i] = <<acc[c][1][1], i>>
<1>0. TypeOK /\ ConnAt(c) /\ Framed(Flow(c))
  BY Zenon DEF IInv, ConnInv, FrameInv, FrameAt
<1>1. /\ acc[c] \in Seq(Unit) /\ Flow(c) \in Seq(Unit) /\ wire[c] \in Seq(Unit)
      /\ Len(Flow(c)) = Len(acc[c]) + Len(wire[c])
      /\ \A i \in 1..Len(acc[c]) : Flow(c)[i] = acc[c][i]
      /\ Len(acc[c]) = UnitLen /\ UnitLen \in Nat /\ UnitLen > 1
  BY Zenon, <1>0, FlowFacts, LengthsAreNumbers DEF ConnAt
<1> DEFINE a == acc[c]
<1>2. a \in Seq(Unit) /\ Len(a) = UnitLen /\ UnitLen \in Nat /\ UnitLen > 1
  BY Zenon, <1>1
<1>3. Framed(a)
  <2>1. Len(Flow(c)) \in Nat /\ Len(wire[c]) \in Nat /\ Len(a) <= Len(Flow(c))
    BY <1>1
  <2> QED BY Zenon, <1>0, <1>1, <2>1, FramedPrefix
<1> HIDE DEF a
<1>4. \A i \in 1..UnitLen : a[i] = <<a[1][1], i>>
  BY <1>2, <1>3, FirstMessage
<1>5. a[1][1] \in Msg
  <2>1. 1 \in 1..Len(a)
    BY <1>2
  <2> QED BY Zenon, <1>2, <2>1, UnitParts
<1>6. a = Units(a[1][1])
  <2>1. Units(a[1][1]) \in Seq(Unit) /\ Len(Units(a[1][1])) = UnitLen
    BY <1>2, <1>5 DEF Units, Unit
  <2>2. \A i \in 1..Len(a) : a[i] = Units(a[1][1])[i]
    BY Zenon, <1>2, <1>4 DEF Units
  <2> QED BY <1>2, <2>1, <2>2
<1>7. MessageOf(a) = a[1][1]
  BY Zenon, <1>5, <1>6 DEF MessageOf
<1> QED BY Zenon, <1>2, <1>4, <1>5, <1>7 DEF a

-----------------------------------------------------------------------------
(* Types and connections, step by step.                                    *)

\* Nothing about a connection changes: what holds of it still does.
LEMMA ConnFrame ==
  ASSUME NEW e \in Conn, ConnAt(e), faulty => faulty', peer'[e] = peer[e],
         net'[e] = net[e], th'[e] = th[e], thMsg'[e] = thMsg[e], done'[e] = done[e],
         rc'[e] = rc[e], acc'[e] = acc[e], wire'[e] = wire[e]
  PROVE  ConnAt(e)'
BY Zenon DEF ConnAt

\* Every step keeps the types and what is known of each connection.
LEMMA TypeConnStep ==
  ASSUME IInv, [Next]_vars
  PROVE  PubType' /\ SubType' /\ ConnInv'
<1> DEFINE Goal == PubType' /\ SubType' /\ ConnInv'
<1>0. PubType /\ SubType /\ \A e \in Conn : ConnAt(e)
  BY Zenon, TypeParts DEF IInv, ConnInv
<1>1. ASSUME NEW m \in Msg, Accept(m) PROVE Goal
  <2>1. PubType'
    <3>1. Append(mq, m) \in Seq(Msg) /\ Len(Append(mq, m)) <= QCap
      BY Zenon, <1>0, <1>1, QueueGrows DEF Accept, PubType
    <3> QED BY Zenon, <1>0, <1>1, <3>1 DEF Accept, PubType, netVars, subVars
  <2>2. SubType'
    BY Zenon, <1>0, <1>1 DEF Accept, SubType, netVars, subVars
  <2>3. ConnInv'
    BY Zenon, <1>0, <1>1 DEF Accept, ConnInv, ConnAt, netVars, subVars
  <2> QED BY Zenon, <2>1, <2>2, <2>3
<1>2. ASSUME NEW c \in Conn, NEW s \in Sub, Dial(c, s) PROVE Goal
  <2>1. PubType'
    BY Zenon, <1>0, <1>2 DEF Dial, PubType
  <2>2. SubType'
    BY Zenon, <1>0, <1>2 DEF Dial, SubType
  <2>3. ASSUME NEW e \in Conn PROVE ConnAt(e)'
    <3>1. CASE e = c
      BY <1>0, <1>2, <3>1, LengthsAreNumbers DEF Dial, ConnAt, PubType, SubType
    <3>2. CASE e # c
      BY Zenon, <1>0, <1>2, <3>2, ConnFrame DEF Dial, PubType, SubType
    <3> QED BY Zenon, <3>1, <3>2
  <2> QED BY Zenon, <2>1, <2>2, <2>3 DEF ConnInv
<1>3. ASSUME NEW c \in Conn, Get(c) PROVE Goal
  <2>1. PubType'
    <3>1. Head(mq) \in Msg /\ Tail(mq) \in Seq(Msg) /\ Len(Tail(mq)) <= QCap
      BY Zenon, <1>0, <1>3, QueueShrinks DEF Get, PubType
    <3> QED BY <1>0, <1>3, <3>1, LengthsAreNumbers DEF Get, netVars, subVars, PubType
  <2>2. SubType'
    BY Zenon, <1>0, <1>3 DEF Get, netVars, subVars, SubType
  <2>3. ASSUME NEW e \in Conn PROVE ConnAt(e)'
    <3>1. CASE e = c
      BY <1>0, <1>3, <3>1, LengthsAreNumbers DEF Get, netVars, subVars, ConnAt, PubType, SubType
    <3>2. CASE e # c
      BY Zenon, <1>0, <1>3, <3>2, ConnFrame DEF Get, netVars, subVars, PubType, SubType
    <3> QED BY Zenon, <3>1, <3>2
  <2> QED BY Zenon, <2>1, <2>2, <2>3 DEF ConnInv
<1>4. ASSUME NEW c \in Conn, WriteFails(c) PROVE Goal
  <2>1. PubType'
    BY Zenon, <1>0, <1>4 DEF WriteFails, ThreadGoes, subVars, PubType
  <2>2. SubType'
    BY Zenon, <1>0, <1>4 DEF WriteFails, ThreadGoes, subVars, SubType
  <2>3. ASSUME NEW e \in Conn PROVE ConnAt(e)'
    <3>1. CASE e = c
      BY Zenon, <1>0, <1>4, <3>1 DEF WriteFails, ThreadGoes, subVars, ConnAt, PubType, SubType
    <3>2. CASE e # c
      BY Zenon, <1>0, <1>4, <3>2, ConnFrame DEF WriteFails, ThreadGoes, subVars, PubType, SubType
    <3> QED BY Zenon, <3>1, <3>2
  <2> QED BY Zenon, <2>1, <2>2, <2>3 DEF ConnInv
<1>5. ASSUME NEW c \in Conn, Post(c) PROVE Goal
  <2>1. PubType'
    BY Zenon, <1>0, <1>5 DEF Post, ThreadGoes, subVars, PubType
  <2>2. SubType'
    BY Zenon, <1>0, <1>5 DEF Post, ThreadGoes, subVars, SubType
  <2>3. ASSUME NEW e \in Conn PROVE ConnAt(e)'
    <3>1. CASE e = c
      BY Zenon, <1>0, <1>5, <3>1 DEF Post, ThreadGoes, subVars, ConnAt, PubType, SubType
    <3>2. CASE e # c
      BY Zenon, <1>0, <1>5, <3>2, ConnFrame DEF Post, ThreadGoes, subVars, PubType, SubType
    <3> QED BY Zenon, <3>1, <3>2
  <2> QED BY Zenon, <2>1, <2>2, <2>3 DEF ConnInv
<1>6. ASSUME NEW c \in Conn, Requeue(c) PROVE Goal
  <2>1. PubType'
    <3>1. thMsg[c] \in Msg
      BY Zenon, <1>0, <1>6 DEF Requeue, ThreadGoes, ConnAt
    <3>2. mq' \in Seq(Msg) /\ Len(mq') <= QCap /\ faulty' \in BOOLEAN
      <4>1. CASE Len(mq) < QCap
        BY Zenon, <1>0, <1>6, <3>1, <4>1, QueueGrows DEF Requeue, PubType
      <4>2. CASE ~(Len(mq) < QCap)
        BY Zenon, <1>0, <1>6, <4>2 DEF Requeue, PubType
      <4> QED BY Zenon, <4>1, <4>2
    <3> QED BY Zenon, <1>0, <1>6, <3>2 DEF Requeue, ThreadGoes, subVars, PubType
  <2>2. SubType'
    BY Zenon, <1>0, <1>6 DEF Requeue, ThreadGoes, subVars, SubType
  <2>3. ASSUME NEW e \in Conn PROVE ConnAt(e)'
    <3>1. CASE e = c
      BY Zenon, <1>0, <1>6, <3>1 DEF Requeue, ThreadGoes, subVars, ConnAt, PubType, SubType
    <3>2. CASE e # c
      BY Zenon, <1>0, <1>6, <3>2, ConnFrame DEF Requeue, ThreadGoes, subVars, PubType, SubType
    <3> QED BY Zenon, <3>1, <3>2
  <2> QED BY Zenon, <2>1, <2>2, <2>3 DEF ConnInv
<1>7. ASSUME NEW c \in Conn, Interrupted(c) PROVE Goal
  <2>1. PubType'
    BY Zenon, <1>0, <1>7 DEF Interrupted, ThreadGoes, subVars, PubType
  <2>2. SubType'
    BY Zenon, <1>0, <1>7 DEF Interrupted, ThreadGoes, subVars, SubType
  <2>3. ASSUME NEW e \in Conn PROVE ConnAt(e)'
    <3>1. CASE e = c
      BY <1>0, <1>7, <3>1 DEF Interrupted, ThreadGoes, subVars, ConnAt, PubType, SubType
    <3>2. CASE e # c
      BY Zenon, <1>0, <1>7, <3>2, ConnFrame DEF Interrupted, ThreadGoes, subVars, PubType, SubType
    <3> QED BY Zenon, <3>1, <3>2
  <2> QED BY Zenon, <2>1, <2>2, <2>3 DEF ConnInv
<1>8. ASSUME NEW c \in Conn, Cut(c) PROVE Goal
  <2>1. PubType'
    BY Zenon, <1>0, <1>8 DEF Cut, pubVars, subVars, PubType
  <2>2. SubType'
    BY <1>0, <1>8 DEF Cut, pubVars, subVars, SubType
  <2>3. ASSUME NEW e \in Conn PROVE ConnAt(e)'
    <3>1. CASE e = c
      BY <1>0, <1>8, <3>1 DEF Cut, pubVars, subVars, ConnAt, PubType, SubType
    <3>2. CASE e # c
      BY Zenon, <1>0, <1>8, <3>2, ConnFrame DEF Cut, pubVars, subVars, PubType, SubType
    <3> QED BY Zenon, <3>1, <3>2
  <2> QED BY Zenon, <2>1, <2>2, <2>3 DEF ConnInv
<1>9. ASSUME NEW c \in Conn, Reset(c) PROVE Goal
  <2>1. PubType'
    BY Zenon, <1>0, <1>9 DEF Reset, pubVars, subVars, PubType
  <2>2. SubType'
    BY Zenon, <1>0, <1>9 DEF Reset, pubVars, subVars, SubType
  <2>3. ASSUME NEW e \in Conn PROVE ConnAt(e)'
    <3>1. CASE e = c
      BY Zenon, <1>0, <1>9, <3>1 DEF Reset, pubVars, subVars, ConnAt, PubType, SubType
    <3>2. CASE e # c
      BY Zenon, <1>0, <1>9, <3>2, ConnFrame DEF Reset, pubVars, subVars, PubType, SubType
    <3> QED BY Zenon, <3>1, <3>2
  <2> QED BY Zenon, <2>1, <2>2, <2>3 DEF ConnInv
<1>10. ASSUME NEW c \in Conn, ReadEnds(c) PROVE Goal
  <2>1. PubType'
    BY Zenon, <1>0, <1>10 DEF ReadEnds, pubVars, netVars, PubType
  <2>2. SubType'
    BY Zenon, <1>0, <1>10 DEF ReadEnds, pubVars, netVars, SubType
  <2>3. ASSUME NEW e \in Conn PROVE ConnAt(e)'
    <3>1. CASE e = c
      BY <1>0, <1>10, <3>1 DEF ReadEnds, pubVars, netVars, ConnAt, PubType, SubType
    <3>2. CASE e # c
      BY Zenon, <1>0, <1>10, <3>2, ConnFrame DEF ReadEnds, pubVars, netVars, PubType, SubType
    <3> QED BY Zenon, <3>1, <3>2
  <2> QED BY Zenon, <2>1, <2>2, <2>3 DEF ConnInv
<1>11. ASSUME NEW c \in Conn, PutFails(c) PROVE Goal
  <2>1. PubType'
    BY Zenon, <1>0, <1>11 DEF PutFails, pubVars, PubType
  <2>2. SubType'
    BY <1>0, <1>11 DEF PutFails, pubVars, SubType
  <2>3. ASSUME NEW e \in Conn PROVE ConnAt(e)'
    <3>1. CASE e = c
      BY <1>0, <1>11, <3>1 DEF PutFails, pubVars, ConnAt, PubType, SubType
    <3>2. CASE e # c
      BY Zenon, <1>0, <1>11, <3>2, ConnFrame DEF PutFails, pubVars, PubType, SubType
    <3> QED BY Zenon, <3>1, <3>2
  <2> QED BY Zenon, <2>1, <2>2, <2>3 DEF ConnInv
<1>12. ASSUME NEW c \in Conn, PutMsg(c) PROVE Goal
  <2>1. PubType'
    BY Zenon, <1>0, <1>12 DEF PutMsg, pubVars, netVars, PubType
  <2>2. SubType'
    <3>1. MessageOf(acc[c]) \in Msg
      BY Zenon, <1>12, WholeMessage DEF PutMsg
    <3>2. peer[c] \in Sub /\ Append(sq[peer[c]], MessageOf(acc[c])) \in Seq(Msg)
      <4>1. peer[c] \in Sub
        BY Zenon, <1>0, <1>12 DEF PutMsg, ConnAt
      <4>2. sq[peer[c]] \in Seq(Msg)
        BY Zenon, <1>0, <4>1 DEF SubType
      <4> QED BY <3>1, <4>1, <4>2
    <3> QED BY <1>0, <1>12, <3>2 DEF PutMsg, pubVars, netVars, SubType
  <2>3. ASSUME NEW e \in Conn PROVE ConnAt(e)'
    <3>1. CASE e = c
      BY <1>0, <1>12, <3>1, LengthsAreNumbers DEF PutMsg, pubVars, netVars, ConnAt, PubType, SubType
    <3>2. CASE e # c
      BY Zenon, <1>0, <1>12, <3>2, ConnFrame DEF PutMsg, pubVars, netVars, PubType, SubType
    <3> QED BY Zenon, <3>1, <3>2
  <2> QED BY Zenon, <2>1, <2>2, <2>3 DEF ConnInv
<1>13. ASSUME NEW c \in Conn, NEW k \in 1..UnitLen, WriteSome(c, k) PROVE Goal
  <2>1. PubType'
    <3>1. done[c] + k \in 0..UnitLen
      BY <1>13, WriteEffect, LengthsAreNumbers
    <3> QED BY Zenon, <1>0, <1>13, <3>1 DEF WriteSome, subVars, PubType
  <2>2. SubType'
    BY Zenon, <1>0, <1>13, WriteEffect DEF WriteSome, subVars, SubType
  <2>3. ASSUME NEW e \in Conn PROVE ConnAt(e)'
    <3>1. CASE e = c
      <4>1. done'[c] = done[c] + k /\ done[c] + k \in Nat /\ done[c] + k <= UnitLen
        <5>1. done[c] \in Nat /\ k \in Nat /\ done[c] + k <= UnitLen
          BY Zenon, <1>13, WriteEffect
        <5>2. done'[c] = done[c] + k
          BY Zenon, <1>0, <1>13 DEF WriteSome, PubType
        <5> QED BY <5>1, <5>2
      <4>2. th'[c] = IF done[c] + k = UnitLen THEN "post" ELSE "write"
        BY Zenon, <1>0, <1>13 DEF WriteSome, PubType
      <4>3. th'[c] = "write" => done'[c] < UnitLen
        BY <4>1, <4>2, LengthsAreNumbers
      <4>4. net[c] = "gone" => wire'[c] = wire[c]
        BY Zenon, <1>13, WriteEffect
      <4> QED BY Zenon, <1>0, <1>13, <3>1, <4>2, <4>3, <4>4 DEF WriteSome, subVars, ConnAt, PubType, SubType
    <3>2. CASE e # c
      BY Zenon, <1>0, <1>13, <3>2, ConnFrame DEF WriteSome, subVars, PubType, SubType
    <3> QED BY Zenon, <3>1, <3>2
  <2> QED BY Zenon, <2>1, <2>2, <2>3 DEF ConnInv
<1>14. ASSUME NEW c \in Conn, NEW k \in 1..UnitLen, ReadSome(c, k) PROVE Goal
  <2>1. PubType'
    BY Zenon, <1>0, <1>14 DEF ReadSome, pubVars, PubType
  <2>2. SubType'
    BY Zenon, <1>0, <1>14, ReadEffect DEF ReadSome, pubVars, SubType
  <2>3. ASSUME NEW e \in Conn PROVE ConnAt(e)'
    <3>1. CASE e = c
      <4>1. /\ Len(acc'[c]) = Len(acc[c]) + k /\ Len(acc[c]) + k <= UnitLen /\ wire[c] # <<>>
            /\ Len(acc[c]) + k \in Nat
        <5>1. /\ Len(acc'[c]) = Len(acc[c]) + k /\ Len(acc[c]) + k <= UnitLen /\ wire[c] # <<>>
              /\ Len(acc[c]) \in Nat
          BY Zenon, <1>14, ReadEffect
        <5> QED BY <5>1, LengthsAreNumbers
      <4>2. rc'[c] = IF Len(acc[c]) + k = UnitLen THEN "put" ELSE "read"
        BY Zenon, <1>0, <1>14 DEF ReadSome, SubType
      <4>3. (rc'[c] = "read" => Len(acc'[c]) < UnitLen) /\ (rc'[c] = "put" => Len(acc'[c]) = UnitLen)
        BY <4>1, <4>2, LengthsAreNumbers
      <4> QED BY <1>0, <1>14, <3>1, <4>1, <4>2, <4>3 DEF ReadSome, pubVars, ConnAt, PubType, SubType
    <3>2. CASE e # c
      BY Zenon, <1>0, <1>14, <3>2, ConnFrame DEF ReadSome, pubVars, PubType, SubType
    <3> QED BY Zenon, <3>1, <3>2
  <2> QED BY Zenon, <2>1, <2>2, <2>3 DEF ConnInv
<1>15. ASSUME NEW s \in Sub, Start(s) PROVE Goal
  <2>1. PubType' /\ SubType'
    BY Zenon, <1>0, <1>15 DEF Start, pubVars, netVars, PubType, SubType
  <2>2. ConnInv'
    BY Zenon, <1>0, <1>15, ConnFrame DEF Start, pubVars, netVars, ConnInv
  <2> QED BY Zenon, <2>1, <2>2
<1>16. ASSUME NEW s \in Sub, Die(s) PROVE Goal
  <2>1. PubType' /\ SubType'
    BY <1>0, <1>16 DEF Die, pubVars, PubType, SubType
  <2>2. ASSUME NEW e \in Conn PROVE ConnAt(e)'
    <3>1. CASE peer[e] = s
      BY Zenon, <1>0, <1>16, <3>1, LengthsAreNumbers, PipelineAssumption
         DEF Die, pubVars, ConnAt, PubType, SubType
    <3>2. CASE peer[e] # s
      BY Zenon, <1>0, <1>16, <3>2, ConnFrame DEF Die, pubVars, PubType, SubType
    <3> QED BY Zenon, <3>1, <3>2
  <2> QED BY Zenon, <2>1, <2>2 DEF ConnInv
<1>17. ASSUME NEW s \in Sub, PrintLine(s) PROVE Goal
  <2>1. Head(sq[s]) \in Msg /\ Tail(sq[s]) \in Seq(Msg)
    BY <1>0, <1>17 DEF PrintLine, SubType
  <2>2. PubType' /\ SubType'
    BY <1>0, <1>17, <2>1 DEF PrintLine, pubVars, netVars, PubType, SubType
  <2>3. ConnInv'
    BY Zenon, <1>0, <1>17, ConnFrame DEF PrintLine, pubVars, netVars, ConnInv
  <2> QED BY Zenon, <2>2, <2>3
<1>18. ASSUME UNCHANGED vars PROVE Goal
  <2>1. PubType' /\ SubType'
    BY Zenon, <1>0, <1>18 DEF vars, pubVars, netVars, subVars, PubType, SubType
  <2>2. ConnInv'
    BY Zenon, <1>0, <1>18, ConnFrame DEF vars, pubVars, netVars, subVars, ConnInv
  <2> QED BY Zenon, <2>1, <2>2
<1> QED BY Zenon, <1>1, <1>2, <1>3, <1>4, <1>5, <1>6, <1>7, <1>8, <1>9, <1>10, <1>11, <1>12, <1>13,
           <1>14, <1>15, <1>16, <1>17, <1>18 DEF Next

-----------------------------------------------------------------------------
(* Frames, step by step.                                                   *)

\* A step that leaves both ends of a connection alone leaves its units alone.
LEMMA FlowKept ==
  ASSUME NEW e \in Conn, acc'[e] = acc[e], wire'[e] = wire[e]
  PROVE  Flow(e)' = Flow(e)
BY Zenon DEF Flow

\* A connection with the same units on it, whose thread is where it was or is
\* not in the middle of a message before and after.
LEMMA FrameKept ==
  ASSUME NEW e \in Conn, FrameAt(e), Flow(e)' = Flow(e),
         net'[e] \in {"open", "finished"} => net[e] \in {"open", "finished"},
         \/ th'[e] = th[e] /\ done'[e] = done[e] /\ thMsg'[e] = thMsg[e]
         \/ ~(th[e] = "write" /\ done[e] > 0) /\ ~(th'[e] = "write" /\ done'[e] > 0)
         \/ net'[e] \notin {"open", "finished"}
  PROVE  FrameAt(e)'
<1>1. Framed(Flow(e)')
  BY Zenon DEF FrameAt
<1>2. ASSUME net'[e] \in {"open", "finished"} PROVE Ends(e)'
  BY Zenon, <1>2 DEF FrameAt, Ends
<1> QED BY ZenonT(30), <1>1, <1>2 DEF FrameAt

\* A connection with nothing on it.
LEMMA FrameEmpty ==
  ASSUME NEW e \in Conn, Flow(e)' = <<>>,
         ~(th'[e] = "write" /\ done'[e] > 0) \/ net'[e] \notin {"open", "finished"}
  PROVE  FrameAt(e)'
<1>1. Framed(Flow(e)')
  BY DEF Framed
<1>2. ASSUME net'[e] \in {"open", "finished"} PROVE Ends(e)'
  BY <1>2 DEF Ends
<1> QED BY Zenon, <1>1, <1>2 DEF FrameAt

\* The flow grows by the units that are written.
LEMMA WriteFlow ==
  ASSUME IInv, NEW c \in Conn, NEW k \in 1..UnitLen, WriteSome(c, k), net[c] = "open"
  PROVE  /\ Flow(c)' \in Seq(Unit) /\ Flow(c) \in Seq(Unit) /\ Len(Flow(c)') = Len(Flow(c)) + k
         /\ \A i \in 1..Len(Flow(c)) : Flow(c)'[i] = Flow(c)[i]
         /\ \A j \in 1..k : Flow(c)'[Len(Flow(c)) + j] = <<thMsg[c], done[c] + j>>
<1> DEFINE x == SubSeq(Units(thMsg[c]), done[c] + 1, done[c] + k)
<1>1. /\ x \in Seq(Unit) /\ Len(x) = k /\ \A j \in 1..k : x[j] = <<thMsg[c], done[c] + j>>
      /\ wire'[c] = wire[c] \o x
  BY Zenon, WriteEffect
<1> HIDE DEF x
<1>8. x \in Seq(Unit)
  BY Zenon, <1>1
<1>2. acc'[c] = acc[c]
  BY Zenon DEF WriteSome, subVars
<1>3. acc[c] \in Seq(Unit) /\ wire[c] \in Seq(Unit) /\ Flow(c) \in Seq(Unit)
  BY Zenon, FlowFacts DEF IInv
<1>4. Flow(c)' = Flow(c) \o x
  <2> DEFINE a == acc[c]
  <2> DEFINE w == wire[c]
  <2>1. Flow(c)' = a \o (w \o x) /\ Flow(c) = a \o w /\ a \in Seq(Unit) /\ w \in Seq(Unit)
    BY Zenon, <1>1, <1>2, <1>3 DEF Flow
  <2>3. a \in Seq(Unit) /\ w \in Seq(Unit)
    BY Zenon, <2>1
  <2> HIDE DEF a, w
  <2>2. a \o (w \o x) = (a \o w) \o x
    BY ONLY SMTT(30), <1>8, <2>3, Associative
  <2> QED BY Zenon, <2>1, <2>2
<1> DEFINE u == Flow(c)
<1>5. u \in Seq(Unit) /\ Flow(c)' = u \o x
  BY Zenon, <1>3, <1>4
<1> HIDE DEF u
<1>6. /\ u \o x \in Seq(Unit) /\ Len(u \o x) = Len(u) + Len(x)
      /\ \A i \in 1..Len(u) : (u \o x)[i] = u[i]
      /\ \A i \in 1..Len(x) : (u \o x)[Len(u) + i] = x[i]
  BY <1>5, <1>8, Joined
<1>7. /\ Flow(c)' \in Seq(Unit) /\ Len(Flow(c)') = Len(u) + k
      /\ \A i \in 1..Len(u) : Flow(c)'[i] = u[i]
      /\ \A j \in 1..k : Flow(c)'[Len(u) + j] = <<thMsg[c], done[c] + j>>
  BY Zenon, <1>1, <1>5, <1>6
<1> QED BY Zenon, <1>5, <1>7 DEF u

\* The flow loses the message that is put in the subscriber's queue.
LEMMA PutFlow ==
  ASSUME IInv, NEW c \in Conn, PutMsg(c)
  PROVE  /\ Flow(c)' \in Seq(Unit) /\ Flow(c) \in Seq(Unit)
         /\ Len(Flow(c)) >= UnitLen /\ Len(Flow(c)') = Len(Flow(c)) - UnitLen
         /\ \A i \in 1..Len(Flow(c)') : Flow(c)'[i] = Flow(c)[i + UnitLen]
         /\ \A i \in 1..UnitLen : Flow(c)[i] = <<acc[c][1][1], i>>
<1> DEFINE a == acc[c]
<1> DEFINE w == wire[c]
<1> DEFINE u == Flow(c)
<1>1. /\ a \in Seq(Unit) /\ w \in Seq(Unit) /\ u \in Seq(Unit) /\ Len(w) \in Nat
      /\ Len(u) = Len(a) + Len(w)
      /\ \A i \in 1..Len(a) : u[i] = a[i]
      /\ \A i \in 1..Len(w) : u[Len(a) + i] = w[i]
  BY Zenon, FlowFacts DEF IInv
<1>2. Len(a) = UnitLen /\ UnitLen \in Nat /\ \A i \in 1..UnitLen : a[i] = <<a[1][1], i>>
  BY Zenon, WholeMessage, LengthsAreNumbers DEF PutMsg
<1>3. Flow(c)' = w
  <2>1. acc'[c] = <<>> /\ wire'[c] = w
    BY Zenon DEF PutMsg, netVars, IInv, TypeOK
  <2>2. <<>> \o w = w
    BY <1>1, Joined
  <2> QED BY Zenon, <2>1, <2>2 DEF Flow
<1> SUFFICES /\ w \in Seq(Unit) /\ u \in Seq(Unit)
             /\ Len(u) >= UnitLen /\ Len(w) = Len(u) - UnitLen
             /\ \A i \in 1..Len(w) : w[i] = u[i + UnitLen]
             /\ \A i \in 1..UnitLen : u[i] = <<a[1][1], i>>
  BY Zenon, <1>3
<1> HIDE DEF a, w, u
<1>4. Len(u) >= UnitLen /\ Len(w) = Len(u) - UnitLen
  BY <1>1, <1>2
<1>5. \A i \in 1..Len(w) : UnitLen + i = i + UnitLen
  BY <1>1, <1>2
<1> QED BY Zenon, <1>1, <1>2, <1>4, <1>5

\* write() of a piece of a message continues the frames of the connection.
LEMMA WriteFrame ==
  ASSUME IInv, NEW c \in Conn, NEW k \in 1..UnitLen, WriteSome(c, k)
  PROVE  FrameAt(c)'
<1>0. PubType /\ SubType /\ ConnAt(c) /\ FrameAt(c)
  BY Zenon, TypeParts DEF IInv, ConnInv, FrameInv
<1>1. CASE net[c] = "gone"
  <2>1. wire'[c] = wire[c] /\ acc'[c] = acc[c] /\ net'[c] = "gone"
    BY Zenon, <1>1, WriteEffect DEF WriteSome, subVars
  <2>2. Flow(c)' = Flow(c)
    BY Zenon, <2>1, FlowKept
  <2> QED BY Zenon, <1>0, <2>1, <2>2, FrameKept
<1>2. CASE net[c] = "open"
  <2>1. /\ thMsg[c] \in Msg /\ done[c] \in Nat /\ k \in Nat /\ k >= 1 /\ done[c] + k <= UnitLen
        /\ UnitLen \in Nat
    BY Zenon, WriteEffect, LengthsAreNumbers
  <2> DEFINE u == Flow(c)
  <2> DEFINE v == Flow(c)'
  <2> DEFINE m == thMsg[c]
  <2> DEFINE d == done[c]
  <2>2. /\ u \in Seq(Unit) /\ v \in Seq(Unit) /\ Len(v) = Len(u) + k
        /\ \A i \in 1..Len(u) : v[i] = u[i]
        /\ \A j \in 1..k : v[Len(u) + j] = <<m, d + j>>
    BY Zenon, <1>2, WriteFlow
  <2>3. Framed(u) /\ Ends(c) /\ th[c] = "write"
    BY Zenon, <1>0, <1>2 DEF FrameAt, WriteSome
  <2>4. /\ d > 0 => Len(u) > 0 /\ u[Len(u)] = <<m, d>>
        /\ d = 0 /\ Len(u) > 0 => u[Len(u)][2] = UnitLen
    BY <2>1, <2>3 DEF Ends
  <2>5. /\ done'[c] = d + k /\ thMsg'[c] = m
        /\ th'[c] = IF d + k = UnitLen THEN "post" ELSE "write"
    BY Zenon, <1>0 DEF WriteSome, PubType
  <2>9. m \in Msg /\ d \in Nat
    BY Zenon, <2>1
  <2> HIDE DEF u, v, m, d
  <2>6. Framed(v)
    BY Zenon, <2>1, <2>2, <2>3, <2>4, <2>9, FramedExtend DEF d, u
  <2>7. Len(v) > 0 /\ v[Len(v)] = <<m, d + k>>
    <3>1. Len(u) \in Nat /\ k \in 1..k
      BY <2>1, <2>2
    <3> QED BY <2>1, <2>2, <3>1
  <2>8. Ends(c)'
    <3>1. v[Len(v)][2] = d + k
      BY <2>7
    <3>2. CASE d + k = UnitLen
      BY Zenon, <2>5, <3>1, <3>2 DEF Ends, v
    <3>3. CASE d + k # UnitLen
      BY <2>1, <2>5, <2>7, <2>9, <3>3 DEF Ends, v
    <3> QED BY Zenon, <3>2, <3>3
  <2> QED BY Zenon, <2>6, <2>8 DEF FrameAt, v
<1> QED BY Zenon, <1>1, <1>2 DEF WriteSome

\* Once a whole message is put in the queue, the rest begins with a message.
LEMMA PutFrame ==
  ASSUME IInv, NEW c \in Conn, PutMsg(c)
  PROVE  FrameAt(c)'
<1>0. PubType /\ SubType /\ ConnAt(c) /\ FrameAt(c)
  BY Zenon, TypeParts DEF IInv, ConnInv, FrameInv
<1> DEFINE u == Flow(c)
<1> DEFINE v == Flow(c)'
<1> DEFINE h == acc[c][1][1]
<1>1. /\ u \in Seq(Unit) /\ v \in Seq(Unit) /\ Len(u) >= UnitLen /\ Len(v) = Len(u) - UnitLen
      /\ \A i \in 1..Len(v) : v[i] = u[i + UnitLen]
      /\ \A i \in 1..UnitLen : u[i] = <<h, i>>
  BY Zenon, PutFlow
<1>2. Framed(u) /\ (net[c] \in {"open", "finished"} => Ends(c))
  BY Zenon, <1>0 DEF FrameAt
<1>3. /\ net'[c] = net[c] /\ th'[c] = th[c] /\ done'[c] = done[c] /\ thMsg'[c] = thMsg[c]
      /\ th[c] = "write" => done[c] < UnitLen
  BY Zenon, <1>0 DEF PutMsg, pubVars, netVars, ConnAt
<1>8. done[c] \in Nat
  BY <1>0, LengthsAreNumbers DEF PubType
<1>4. Framed(v)
  BY Zenon, <1>1, <1>2, FramedShift
<1>5. Len(v) > 0 => v[Len(v)] = u[Len(u)] /\ Len(u) > 0
  <2> HIDE DEF u, v
  <2>1. Len(u) \in Nat /\ Len(v) \in Nat /\ UnitLen \in Nat /\ Len(v) + UnitLen = Len(u)
    BY <1>1, LengthsAreNumbers
  <2> QED BY <1>1, <2>1
<1>6. Len(v) = 0 => u[Len(u)][2] = UnitLen /\ Len(u) > 0
  <2> HIDE DEF u, v, h
  <2>1. Len(u) \in Nat /\ UnitLen \in Nat /\ UnitLen > 1
    BY <1>1, LengthsAreNumbers
  <2>2. Len(v) = 0 => Len(u) = UnitLen /\ UnitLen \in 1..UnitLen
    BY <1>1, <2>1
  <2> QED BY <1>1, <2>1, <2>2
<1>7. ASSUME net[c] \in {"open", "finished"} PROVE Ends(c)'
  <2>0. Len(v) \in Nat
    BY <1>1
  <2>1. CASE th[c] = "write" /\ done[c] > 0
    <3>1. Len(u) > 0 /\ u[Len(u)] = <<thMsg[c], done[c]>>
      BY Zenon, <1>2, <1>7, <2>1 DEF Ends
    <3>2. Len(v) # 0
      <4> SUFFICES ASSUME Len(v) = 0 PROVE FALSE
        BY Zenon
      <4>1. u[Len(u)][2] = UnitLen /\ u[Len(u)][2] = done[c]
        BY <1>6, <3>1
      <4> HIDE DEF u, v
      <4> QED BY <1>3, <1>8, <2>1, <4>1, LengthsAreNumbers
    <3>3. Len(v) > 0 /\ v[Len(v)] = <<thMsg[c], done[c]>>
      <4>1. Len(v) > 0
        BY <2>0, <3>2
      <4> QED BY Zenon, <1>5, <3>1, <4>1
    <3> QED BY Zenon, <1>3, <2>1, <3>3 DEF Ends
  <2>2. CASE ~(th[c] = "write" /\ done[c] > 0)
    <3>1. Len(u) > 0 => u[Len(u)][2] = UnitLen
      BY Zenon, <1>2, <1>7, <2>2 DEF Ends
    <3>2. Len(v) > 0 => v[Len(v)][2] = UnitLen
      BY Zenon, <1>5, <3>1
    <3> QED BY Zenon, <1>3, <2>2, <3>2 DEF Ends
  <2> QED BY Zenon, <2>1, <2>2
<1> QED BY Zenon, <1>3, <1>4, <1>7 DEF FrameAt

\* Every step keeps the frames of all connections.
LEMMA FrameStep ==
  ASSUME IInv, [Next]_vars
  PROVE  FrameInv'
<1>0. PubType /\ SubType /\ TypeOK /\ \A e \in Conn : ConnAt(e) /\ FrameAt(e)
  BY Zenon, TypeParts DEF IInv, ConnInv, FrameInv
<1> SUFFICES ASSUME NEW e \in Conn PROVE FrameAt(e)'
  BY Zenon DEF FrameInv
<1>1. ASSUME NEW m \in Msg, Accept(m) PROVE FrameAt(e)'
  <2>1. Flow(e)' = Flow(e)
    BY Zenon, <1>1, FlowKept DEF Accept, netVars, subVars
  <2> QED BY Zenon, <1>0, <1>1, <2>1, FrameKept DEF Accept, netVars, subVars
<1>2. ASSUME NEW c \in Conn, NEW s \in Sub, Dial(c, s) PROVE FrameAt(e)'
  <2>1. CASE e = c
    <3>1. acc[e] = <<>> /\ wire[e] = <<>> /\ acc'[e] = <<>> /\ wire'[e] = <<>> /\ th'[e] = "get"
      BY Zenon, <1>0, <1>2, <2>1 DEF Dial, ConnAt, PubType
    <3>2. Flow(e)' = <<>>
      BY <3>1 DEF Flow
    <3> QED BY Zenon, <3>1, <3>2, FrameEmpty
  <2>2. CASE e # c
    <3>1. acc'[e] = acc[e] /\ wire'[e] = wire[e]
      BY Zenon, <1>0, <1>2, <2>2 DEF Dial, SubType
    <3>2. Flow(e)' = Flow(e)
      BY Zenon, <3>1, FlowKept
    <3> QED BY Zenon, <1>0, <1>2, <2>2, <3>2, FrameKept DEF Dial, PubType
  <2> QED BY Zenon, <2>1, <2>2
<1>3. ASSUME NEW c \in Conn, Get(c) PROVE FrameAt(e)'
  <2>1. Flow(e)' = Flow(e)
    BY Zenon, <1>3, FlowKept DEF Get, netVars, subVars
  <2>2. net'[e] = net[e]
    BY Zenon, <1>3 DEF Get, netVars
  <2>3. CASE e = c
    <3>1. th[e] = "get" /\ done'[e] = 0
      BY Zenon, <1>0, <1>3, <2>3 DEF Get, PubType
    <3>2. ~(done'[e] > 0)
      BY ONLY SMTT(30), <3>1
    <3> QED BY ONLY Zenon, <1>0, <2>1, <2>2, <3>1, <3>2, FrameKept
  <2>4. CASE e # c
    <3>1. th'[e] = th[e] /\ done'[e] = done[e] /\ thMsg'[e] = thMsg[e]
      BY Zenon, <1>0, <1>3, <2>4 DEF Get, PubType
    <3> QED BY ONLY Zenon, <1>0, <2>1, <2>2, <3>1, FrameKept
  <2> QED BY Zenon, <2>3, <2>4
<1>4. ASSUME NEW c \in Conn, WriteFails(c) PROVE FrameAt(e)'
  <2>1. Flow(e)' = Flow(e)
    BY Zenon, <1>4, FlowKept DEF WriteFails, ThreadGoes, subVars
  <2> QED BY ZenonT(30), <1>0, <1>4, <2>1, FrameKept DEF WriteFails, ThreadGoes, subVars, ConnAt, PubType
<1>5. ASSUME NEW c \in Conn, Post(c) PROVE FrameAt(e)'
  <2>1. Flow(e)' = Flow(e)
    BY Zenon, <1>5, FlowKept DEF Post, ThreadGoes, subVars
  <2> QED BY Zenon, <1>0, <1>5, <2>1, FrameKept DEF Post, ThreadGoes, subVars, ConnAt, PubType
<1>6. ASSUME NEW c \in Conn, Requeue(c) PROVE FrameAt(e)'
  <2>1. Flow(e)' = Flow(e)
    BY Zenon, <1>6, FlowKept DEF Requeue, ThreadGoes, subVars
  <2> QED BY Zenon, <1>0, <1>6, <2>1, FrameKept DEF Requeue, ThreadGoes, subVars, ConnAt, PubType
<1>7. ASSUME NEW c \in Conn, Interrupted(c) PROVE FrameAt(e)'
  <2>1. Flow(e)' = Flow(e)
    BY Zenon, <1>7, FlowKept DEF Interrupted, ThreadGoes, subVars
  <2> QED BY Zenon, <1>0, <1>7, <2>1, FrameKept DEF Interrupted, ThreadGoes, subVars, ConnAt, PubType
<1>8. ASSUME NEW c \in Conn, Cut(c) PROVE FrameAt(e)'
  <2>1. CASE e = c
    <3>1. /\ acc[e] \in Seq(Unit) /\ Flow(e) \in Seq(Unit) 
          /\ Len(acc[e]) <= Len(Flow(e))
          /\ \A i \in 1..Len(acc[e]) : Flow(e)[i] = acc[e][i]
      BY Zenon, <1>0, FlowFacts
    <3>2. Framed(acc[e])
      <4>1. Len(acc[e]) <= Len(Flow(e)) /\ Framed(Flow(e))
        BY Zenon, <1>0, <3>1 DEF FrameAt
      <4> QED BY Zenon, <3>1, <4>1, FramedPrefix
    <3>3. acc'[e] = acc[e] /\ wire'[e] = <<>> /\ net'[e] = "gone"
      BY Zenon, <1>0, <1>8, <2>1 DEF Cut, subVars, PubType, SubType
    <3>4. Flow(e)' = acc[e]
      BY <3>1, <3>3, Joined DEF Flow
    <3> QED BY Zenon, <3>2, <3>3, <3>4 DEF FrameAt
  <2>2. CASE e # c
    <3>1. acc'[e] = acc[e] /\ wire'[e] = wire[e]
      BY Zenon, <1>0, <1>8, <2>2 DEF Cut, pubVars, subVars, SubType
    <3>2. Flow(e)' = Flow(e)
      BY Zenon, <3>1, FlowKept
    <3> QED BY Zenon, <1>0, <1>8, <2>2, <3>2, FrameKept DEF Cut, pubVars, subVars, PubType
  <2> QED BY Zenon, <2>1, <2>2
<1>9. ASSUME NEW c \in Conn, Reset(c) PROVE FrameAt(e)'
  <2>1. Flow(e)' = Flow(e)
    BY Zenon, <1>9, FlowKept DEF Reset, pubVars, subVars
  <2> QED BY ZenonT(30), <1>0, <1>9, <2>1, FrameKept DEF Reset, pubVars, subVars, ConnAt, PubType
<1>10. ASSUME NEW c \in Conn, ReadEnds(c) PROVE FrameAt(e)'
  <2>1. CASE e = c
    <3>1. acc'[e] = <<>> /\ wire'[e] = <<>> /\ (net'[e] = "finished" => th'[e] = "ended") /\ net'[e] # "open"
      BY Zenon, <1>0, <1>10, <2>1 DEF ReadEnds, pubVars, netVars, ConnAt, SubType
    <3>2. Flow(e)' = <<>>
      BY <3>1 DEF Flow
    <3> QED BY Zenon, <3>1, <3>2, FrameEmpty
  <2>2. CASE e # c
    <3>1. acc'[e] = acc[e] /\ wire'[e] = wire[e]
      BY Zenon, <1>0, <1>10, <2>2 DEF ReadEnds, pubVars, netVars, SubType
    <3>2. Flow(e)' = Flow(e)
      BY Zenon, <3>1, FlowKept
    <3> QED BY Zenon, <1>0, <1>10, <2>2, <3>2, FrameKept DEF ReadEnds, pubVars, netVars, PubType
  <2> QED BY Zenon, <2>1, <2>2
<1>11. ASSUME NEW c \in Conn, PutFails(c) PROVE FrameAt(e)'
  <2>1. CASE e = c
    <3>1. acc'[e] = <<>> /\ wire'[e] = <<>> /\ net'[e] \notin {"open", "finished"}
      BY Zenon, <1>0, <1>11, <2>1 DEF PutFails, PubType, SubType
    <3>2. Flow(e)' = <<>>
      BY <3>1 DEF Flow
    <3> QED BY Zenon, <3>1, <3>2, FrameEmpty
  <2>2. CASE e # c
    <3>1. acc'[e] = acc[e] /\ wire'[e] = wire[e]
      BY Zenon, <1>0, <1>11, <2>2 DEF PutFails, pubVars, SubType
    <3>2. Flow(e)' = Flow(e)
      BY Zenon, <3>1, FlowKept
    <3> QED BY Zenon, <1>0, <1>11, <2>2, <3>2, FrameKept DEF PutFails, pubVars, PubType
  <2> QED BY Zenon, <2>1, <2>2
<1>12. ASSUME NEW c \in Conn, PutMsg(c) PROVE FrameAt(e)'
  <2>1. CASE e = c
    BY Zenon, <1>12, <2>1, PutFrame
  <2>2. CASE e # c
    <3>1. acc'[e] = acc[e] /\ wire'[e] = wire[e]
      BY Zenon, <1>0, <1>12, <2>2 DEF PutMsg, pubVars, netVars, SubType
    <3>2. Flow(e)' = Flow(e)
      BY Zenon, <3>1, FlowKept
    <3> QED BY Zenon, <1>0, <1>12, <2>2, <3>2, FrameKept DEF PutMsg, pubVars, netVars, PubType
  <2> QED BY Zenon, <2>1, <2>2
<1>13. ASSUME NEW c \in Conn, NEW k \in 1..UnitLen, WriteSome(c, k) PROVE FrameAt(e)'
  <2>1. CASE e = c
    BY Zenon, <1>13, <2>1, WriteFrame
  <2>2. CASE e # c
    <3>1. acc'[e] = acc[e] /\ wire'[e] = wire[e]
      BY Zenon, <1>0, <1>13, <2>2 DEF WriteSome, subVars, SubType
    <3>2. Flow(e)' = Flow(e)
      BY Zenon, <3>1, FlowKept
    <3> QED BY Zenon, <1>0, <1>13, <2>2, <3>2, FrameKept DEF WriteSome, subVars, PubType
  <2> QED BY Zenon, <2>1, <2>2
<1>14. ASSUME NEW c \in Conn, NEW k \in 1..UnitLen, ReadSome(c, k) PROVE FrameAt(e)'
  <2>1. CASE e = c
    <3>1. Flow(e)' = Flow(e)
      BY ZenonT(30), <1>14, <2>1, ReadEffect DEF Flow
    <3> QED BY Zenon, <1>0, <1>14, <3>1, FrameKept DEF ReadSome, pubVars
  <2>2. CASE e # c
    <3>1. acc'[e] = acc[e] /\ wire'[e] = wire[e]
      BY Zenon, <1>0, <1>14, <2>2 DEF ReadSome, pubVars, SubType
    <3>2. Flow(e)' = Flow(e)
      BY Zenon, <3>1, FlowKept
    <3> QED BY Zenon, <1>0, <1>14, <2>2, <3>2, FrameKept DEF ReadSome, pubVars, PubType
  <2> QED BY Zenon, <2>1, <2>2
<1>15. ASSUME NEW s \in Sub, Start(s) PROVE FrameAt(e)'
  <2>1. Flow(e)' = Flow(e)
    BY Zenon, <1>15, FlowKept DEF Start, pubVars, netVars
  <2> QED BY ZenonT(30), <1>0, <1>15, <2>1, FrameKept DEF Start, pubVars, netVars
<1>17. ASSUME NEW s \in Sub, PrintLine(s) PROVE FrameAt(e)'
  <2>1. Flow(e)' = Flow(e)
    BY ZenonT(30), <1>17, FlowKept DEF PrintLine, pubVars, netVars
  <2> QED BY Zenon, <1>0, <1>17, <2>1, FrameKept DEF PrintLine, pubVars, netVars
<1>18. ASSUME UNCHANGED vars PROVE FrameAt(e)'
  <2>1. Flow(e)' = Flow(e)
    BY Zenon, <1>18, FlowKept DEF vars, pubVars, netVars, subVars
  <2> QED BY Zenon, <1>0, <1>18, <2>1, FrameKept DEF vars, pubVars, netVars, subVars
<1>16. ASSUME NEW s \in Sub, Die(s) PROVE FrameAt(e)'
  <2>1. CASE peer[e] = s
    <3>1. acc'[e] = <<>> /\ wire'[e] = <<>> /\ net'[e] \notin {"open", "finished"}
      BY Zenon, <1>0, <1>16, <2>1 DEF Die
    <3>2. Flow(e)' = <<>>
      BY <3>1 DEF Flow
    <3> QED BY Zenon, <3>1, <3>2, FrameEmpty
  <2>2. CASE peer[e] # s
    <3>1. acc'[e] = acc[e] /\ wire'[e] = wire[e] /\ net'[e] = net[e]
      BY Zenon, <1>0, <1>16, <2>2 DEF Die
    <3>2. Flow(e)' = Flow(e)
      BY Zenon, <3>1, FlowKept
    <3> QED BY Zenon, <1>0, <1>16, <3>1, <3>2, FrameKept DEF Die, pubVars
  <2> QED BY Zenon, <2>1, <2>2
<1> QED BY Zenon, <1>1, <1>2, <1>3, <1>4, <1>5, <1>6, <1>7, <1>8, <1>9, <1>10, <1>11, <1>12, <1>13,
           <1>14, <1>15, <1>16, <1>17, <1>18 DEF Next

-----------------------------------------------------------------------------
(* Where a message is, step by step.                                       *)

\* A step that leaves the places of one kind as they are for message m.
QSame(m) == Single(mq', m) /\ (In(m, mq') <=> In(m, mq))
BSame(m) == \A c \in Conn : InBuf(c, m)' <=> InBuf(c, m)
FSame(m) == \A c \in Conn : Single(Flow(c)', <<m, UnitLen>>) /\ (InFlow(c, m)' <=> InFlow(c, m))
SSame(m) == \A s \in Sub : Single(sq'[s], m) /\ (InSub(s, m)' <=> InSub(s, m))

\* What every step does to a message: it is in one place at most, one that
\* was accepted and is nowhere does not come back, and one that is somewhere
\* is printed or remains if there is no fault.
Moved(m) ==
  /\ Kept(m)'
  /\ m \in accepted /\ Placed(m)' => Placed(m)
  /\ ~faulty' /\ Placed(m) /\ m \notin printed' => Placed(m)'

\* A queue that stays keeps its messages.
LEMMA QKeeps == ASSUME NEW m \in Msg, Kept(m), mq' = mq PROVE QSame(m)
BY Zenon DEF Kept, QSame

\* Threads that stay where they are keep the messages in their buffers.
LEMMA BKeeps == ASSUME NEW m \in Msg, th' = th, thMsg' = thMsg PROVE BSame(m)
BY Zenon DEF BSame, InBuf

\* Connections whose units stay keep the messages on them.
LEMMA FKeeps ==
  ASSUME NEW m \in Msg, Kept(m), \A c \in Conn : Flow(c)' = Flow(c) PROVE FSame(m)
BY Zenon DEF Kept, FSame, InFlow

\* Subscribers whose queues stay keep the messages in them.
LEMMA SKeeps == ASSUME NEW m \in Msg, Kept(m), sq' = sq PROVE SSame(m)
BY Zenon DEF Kept, SSame, InSub

\* Places are only given up.
LEMMA Dropped ==
  ASSUME NEW m \in Msg, Kept(m), Single(mq', m), In(m, mq') => In(m, mq),
         \A c \in Conn : InBuf(c, m)' => InBuf(c, m),
         \A c \in Conn : Single(Flow(c)', <<m, UnitLen>>) /\ (InFlow(c, m)' => InFlow(c, m)),
         \A s \in Sub : Single(sq'[s], m) /\ (InSub(s, m)' => InSub(s, m)),
         m \in accepted => m \in accepted', Placed(m)' /\ m \in printed' => m \in printed
  PROVE  Kept(m)' /\ (Placed(m)' => Placed(m))
<1>1. Placed(m)' => Placed(m)
  BY Zenon DEF Placed
<1> QED BY Zenon, <1>1 DEF Kept

\* Nothing changes.
LEMMA Stays ==
  ASSUME NEW m \in Msg, Kept(m), QSame(m), BSame(m), FSame(m), SSame(m),
         accepted' = accepted, printed' = printed
  PROVE  Moved(m)
<1>1. Kept(m)' /\ (Placed(m)' => Placed(m))
  BY Zenon, Dropped DEF QSame, BSame, FSame, SSame
<1>2. Placed(m) => Placed(m)'
  BY Zenon DEF Placed, QSame, BSame, FSame, SSame
<1> QED BY Zenon, <1>1, <1>2 DEF Moved

\* The message has one place, which may be new.
LEMMA InQueueOnly ==
  ASSUME NEW m \in Msg, Single(mq', m), m \in accepted', m \notin printed',
         \A c \in Conn : ~InBuf(c, m)',
         \A c \in Conn : Single(Flow(c)', <<m, UnitLen>>) /\ ~InFlow(c, m)',
         \A s \in Sub : Single(sq'[s], m) /\ ~InSub(s, m)'
  PROVE  Kept(m)'
BY Zenon DEF Kept

\* A message that is in the buffer of one producer thread, and nowhere else.
LEMMA InBufOnly ==
  ASSUME NEW m \in Msg, Single(mq', m), m \in accepted', m \notin printed', ~In(m, mq'),
         NEW x \in Conn, \A c \in Conn : InBuf(c, m)' => c = x,
         \A c \in Conn : Single(Flow(c)', <<m, UnitLen>>) /\ ~InFlow(c, m)',
         \A s \in Sub : Single(sq'[s], m) /\ ~InSub(s, m)'
  PROVE  Kept(m)'
BY Zenon DEF Kept

\* A message of which all is on one connection, and that is nowhere else.
LEMMA InFlowOnly ==
  ASSUME NEW m \in Msg, Single(mq', m), m \in accepted', m \notin printed', ~In(m, mq'),
         NEW x \in Conn, \A c \in Conn : ~InBuf(c, m)',
         \A c \in Conn : Single(Flow(c)', <<m, UnitLen>>) /\ (InFlow(c, m)' => c = x),
         \A s \in Sub : Single(sq'[s], m) /\ ~InSub(s, m)'
  PROVE  Kept(m)'
BY Zenon DEF Kept

\* A message that is in the queue of one subscriber, and nowhere else.
LEMMA InSubOnly ==
  ASSUME NEW m \in Msg, Single(mq', m), m \in accepted', m \notin printed', ~In(m, mq'),
         NEW x \in Sub, \A c \in Conn : ~InBuf(c, m)',
         \A c \in Conn : Single(Flow(c)', <<m, UnitLen>>) /\ ~InFlow(c, m)',
         \A s \in Sub : Single(sq'[s], m) /\ (InSub(s, m)' => s = x)
  PROVE  Kept(m)'
BY Zenon DEF Kept

\* A message that has a place was accepted and has no other; one that has none
\* has none of any kind.
LEMMA KeptFacts ==
  ASSUME IInv, NEW m \in Msg
  PROVE  /\ Kept(m) /\ (Placed(m) => m \in accepted /\ m \notin printed)
         /\ PubType /\ SubType /\ TypeOK /\ \A c \in Conn : ConnAt(c) /\ Framed(Flow(c))
         /\ \A c \in Conn : Flow(c) \in Seq(Unit)
BY Zenon, TypeParts, FlowFacts DEF IInv, KeptInv, Kept, ConnInv, FrameInv, FrameAt

\* Tee::Put of message n + 1.
LEMMA AcceptNext ==
  ASSUME IInv, NEW n \in Msg, Accept(n)
  PROVE  /\ n \notin accepted /\ accepted' = accepted \cup {n}
         /\ \E i \in 0..MaxMsg : accepted' = 1..i
<1>1. PICK i \in 0..MaxMsg : accepted = 1..i
  BY Zenon DEF IInv, MsgInv
<1>2. i \in Nat /\ n \in Nat \ {0}
  BY PipelineAssumption DEF Msg
<1>3. n = i + 1 /\ accepted' = accepted \cup {n}
  <2>1. 1..i = 1..(n - 1) /\ accepted' = accepted \cup {n}
    BY Zenon, <1>1 DEF Accept
  <2>2. (i \in 1..i <=> i \in 1..(n - 1)) /\ (n - 1 \in 1..i <=> n - 1 \in 1..(n - 1))
    BY Zenon, <2>1
  <2>3. n = i + 1
    BY ONLY SMTT(30), <1>2, <2>2
  <2> QED BY Zenon, <2>1, <2>3
<1>4. i + 1 \in 0..MaxMsg /\ i + 1 \notin 1..i /\ (1..i) \cup {i + 1} = 1..(i + 1)
  BY <1>2, <1>3, PipelineAssumption DEF Msg
<1> QED BY Zenon, <1>1, <1>3, <1>4

\* msgsnd puts a new message in the queue, and moves no other.
LEMMA AcceptMoves ==
  ASSUME IInv, NEW n \in Msg, Accept(n), NEW m \in Msg
  PROVE  Moved(m) /\ (Placed(m)' <=> Placed(m) \/ m = n)
<1>0. /\ Kept(m) /\ (Placed(m) => m \in accepted) /\ mq \in Seq(Msg) /\ printed \subseteq accepted
  BY Zenon, KeptFacts DEF IInv, MsgInv, PubType
<1>1. /\ n \notin accepted /\ accepted' = accepted \cup {n} /\ mq' = Append(mq, n)
      /\ printed' = printed
  BY Zenon, AcceptNext DEF Accept, subVars
<1>2. BSame(m) /\ FSame(m) /\ SSame(m)
  BY Zenon, <1>0, BKeeps, FKeeps, SKeeps, FlowKept DEF Accept, netVars, subVars
<1>3. Single(mq, m) /\ (m = n => ~In(m, mq))
  BY Zenon, <1>0, <1>1 DEF Kept, Placed
<1>4. Single(mq', m) /\ (In(m, mq') <=> In(m, mq) \/ m = n)
  BY Zenon, <1>0, <1>1, <1>3, AppendIn, AppendSingle
<1>5. CASE m = n
  <2>1. ~Placed(m)
    BY Zenon, <1>0, <1>1, <1>5
  <2>2. /\ \A c \in Conn : ~InBuf(c, m)'
        /\ \A c \in Conn : Single(Flow(c)', <<m, UnitLen>>) /\ ~InFlow(c, m)'
        /\ \A s \in Sub : Single(sq'[s], m) /\ ~InSub(s, m)'
    BY Zenon, <1>2, <2>1 DEF Placed, BSame, FSame, SSame
  <2>3. Kept(m)'
    BY Zenon, <1>0, <1>1, <1>4, <1>5, <2>2, InQueueOnly
  <2>4. Placed(m)'
    BY Zenon, <1>4, <1>5 DEF Placed
  <2> QED BY Zenon, <1>1, <1>5, <2>1, <2>3, <2>4 DEF Moved
<1>6. CASE m # n
  <2>1. /\ In(m, mq') => In(m, mq)
        /\ \A c \in Conn : InBuf(c, m)' => InBuf(c, m)
        /\ \A c \in Conn : Single(Flow(c)', <<m, UnitLen>>) /\ (InFlow(c, m)' => InFlow(c, m))
        /\ \A s \in Sub : Single(sq'[s], m) /\ (InSub(s, m)' => InSub(s, m))
    BY Zenon, <1>2, <1>4, <1>6 DEF BSame, FSame, SSame
  <2>2. Kept(m)' /\ (Placed(m)' => Placed(m))
    BY Zenon, <1>0, <1>1, <1>4, <2>1, Dropped
  <2>3. Placed(m) => Placed(m)'
    BY Zenon, <1>2, <1>4, <1>6 DEF Placed, BSame, FSame, SSame
  <2> QED BY Zenon, <1>6, <2>2, <2>3 DEF Moved
<1> QED BY Zenon, <1>5, <1>6

\* msgrcv moves the first message of the queue to the buffer of the thread.
LEMMA GetMoves ==
  ASSUME IInv, NEW c \in Conn, Get(c), NEW m \in Msg
  PROVE  Moved(m)
<1>0. Kept(m) /\ (Placed(m) => m \in accepted /\ m \notin printed) /\ mq \in Seq(Msg) /\ PubType
  BY Zenon, KeptFacts DEF PubType
<1>1. accepted' = accepted /\ printed' = printed /\ mq' = Tail(mq) /\ mq # <<>>
  BY Zenon DEF Get, subVars
<1>2. FSame(m) /\ SSame(m)
  BY Zenon, <1>0, FKeeps, SKeeps, FlowKept DEF Get, netVars, subVars
<1>3. Single(mq, m)
  BY Zenon, <1>0 DEF Kept
<1>4. /\ In(Head(mq), mq) /\ Head(mq) \in Msg
      /\ Single(mq', m) /\ (In(m, mq') <=> In(m, mq) /\ m # Head(mq))
  BY Zenon, <1>0, <1>1, <1>3, TailIn
<1>5. /\ ~InBuf(c, m) /\ (InBuf(c, m)' <=> m = Head(mq))
      /\ \A e \in Conn : e # c => (InBuf(e, m)' <=> InBuf(e, m))
  BY Zenon, <1>0 DEF Get, InBuf, PubType
<1>6. CASE m = Head(mq)
  <2>0. Placed(m) /\ In(m, mq)
    BY Zenon, <1>4, <1>6 DEF Placed
  <2>1. /\ \A e \in Conn : ~InBuf(e, m) /\ ~InFlow(e, m)
        /\ \A s \in Sub : ~InSub(s, m)
    BY Zenon, <1>0, <2>0 DEF Kept
  <2>2. /\ \A e \in Conn : InBuf(e, m)' => e = c
        /\ \A e \in Conn : Single(Flow(e)', <<m, UnitLen>>) /\ ~InFlow(e, m)'
        /\ \A s \in Sub : Single(sq'[s], m) /\ ~InSub(s, m)'
    BY Zenon, <1>2, <1>5, <2>1 DEF FSame, SSame
  <2>3. Kept(m)'
    BY Zenon, <1>0, <1>1, <1>4, <1>6, <2>0, <2>2, InBufOnly
  <2>4. Placed(m)'
    BY Zenon, <1>5, <1>6 DEF Placed
  <2> QED BY Zenon, <2>0, <2>3, <2>4 DEF Moved
<1>7. CASE m # Head(mq)
  <2>1. QSame(m) /\ BSame(m)
    BY Zenon, <1>4, <1>5, <1>7 DEF QSame, BSame
  <2> QED BY Zenon, <1>0, <1>1, <1>2, <2>1, Stays
<1> QED BY Zenon, <1>6, <1>7

\* The thread of a connection goes from one wait to another.
LEMMA ThreadMoves ==
  ASSUME IInv, NEW c \in Conn, WriteFails(c) \/ Post(c) \/ Interrupted(c), NEW m \in Msg
  PROVE  Moved(m)
<1>0. Kept(m) /\ PubType
  BY Zenon, KeptFacts
<1>1. /\ accepted' = accepted /\ printed' = printed /\ mq' = mq /\ sq' = sq
      /\ acc' = acc /\ wire' = wire
  BY Zenon DEF WriteFails, Post, Interrupted, ThreadGoes, subVars
<1>2. QSame(m) /\ FSame(m) /\ SSame(m)
  BY ZenonT(30), <1>0, <1>1, QKeeps, FKeeps, SKeeps, FlowKept
<1>3. BSame(m)
  BY Zenon, <1>0 DEF BSame, InBuf, WriteFails, Post, Interrupted, ThreadGoes, PubType
<1> QED BY Zenon, <1>0, <1>1, <1>2, <1>3, Stays

\* msgsnd after a failed write moves a message from the buffer to the queue.
LEMMA RequeueMoves ==
  ASSUME IInv, NEW c \in Conn, Requeue(c), NEW m \in Msg
  PROVE  Moved(m)
<1>0. Kept(m) /\ (Placed(m) => m \in accepted /\ m \notin printed) /\ mq \in Seq(Msg) /\ PubType /\ ConnAt(c)
  BY Zenon, KeptFacts DEF PubType
<1>1. /\ accepted' = accepted /\ printed' = printed /\ thMsg[c] \in Msg
      /\ th[c] = "requeue"
  BY Zenon, <1>0 DEF Requeue, ThreadGoes, subVars, ConnAt
<1>2. FSame(m) /\ SSame(m)
  BY Zenon, <1>0, FKeeps, SKeeps, FlowKept DEF Requeue, ThreadGoes, subVars
<1>3. /\ InBuf(c, m) <=> m = thMsg[c]
      /\ ~InBuf(c, m)' /\ \A e \in Conn : e # c => (InBuf(e, m)' <=> InBuf(e, m))
  BY Zenon, <1>0 DEF Requeue, ThreadGoes, InBuf, PubType
<1>4. CASE m = thMsg[c]
  <2>0. Placed(m) /\ InBuf(c, m)
    BY Zenon, <1>3, <1>4 DEF Placed
  <2>1. /\ ~In(m, mq) /\ Single(mq, m)
        /\ \A e \in Conn : (InBuf(e, m) => e = c) /\ ~InFlow(e, m)
        /\ \A s \in Sub : ~InSub(s, m)
    BY Zenon, <1>0, <2>0 DEF Kept
  <2>2. /\ \A e \in Conn : ~InBuf(e, m)'
        /\ \A e \in Conn : Single(Flow(e)', <<m, UnitLen>>) /\ ~InFlow(e, m)'
        /\ \A s \in Sub : Single(sq'[s], m) /\ ~InSub(s, m)'
    BY Zenon, <1>2, <1>3, <2>1 DEF FSame, SSame
  <2>3. CASE Len(mq) < QCap
    <3>1. mq' = Append(mq, m)
      BY Zenon, <1>4, <2>3 DEF Requeue
    <3>2. In(m, mq') /\ Single(mq', m)
      BY Zenon, <1>0, <2>1, <3>1, AppendIn, AppendSingle
    <3>3. Kept(m)'
      BY Zenon, <1>0, <1>1, <2>0, <2>2, <3>2, InQueueOnly
    <3>4. Placed(m)'
      BY Zenon, <3>2 DEF Placed
    <3> QED BY Zenon, <2>0, <3>3, <3>4 DEF Moved
  <2>4. CASE ~(Len(mq) < QCap)
    <3>1. mq' = mq /\ faulty'
      BY Zenon, <2>4 DEF Requeue
    <3>2. Kept(m)'
      BY Zenon, <1>0, <1>1, <2>0, <2>1, <2>2, <3>1, InQueueOnly
    <3> QED BY Zenon, <2>0, <3>1, <3>2 DEF Moved
  <2> QED BY Zenon, <2>3, <2>4
<1>5. CASE m # thMsg[c]
  <2>1. BSame(m)
    BY Zenon, <1>3, <1>5 DEF BSame
  <2>2. QSame(m)
    <3>1. CASE mq' = mq
      BY Zenon, <1>0, <3>1, QKeeps
    <3>2. CASE mq' = Append(mq, thMsg[c])
      <4>1. Single(mq, m)
        BY Zenon, <1>0 DEF Kept
      <4> QED BY Zenon, <1>0, <1>1, <1>5, <3>2, <4>1, AppendIn, AppendSingle DEF QSame
    <3> QED BY Zenon, <3>1, <3>2 DEF Requeue
  <2> QED BY Zenon, <1>0, <1>1, <1>2, <2>1, <2>2, Stays
<1> QED BY Zenon, <1>4, <1>5

\* v is u followed by the units of h from the (d + 1)-th to the (d + k)-th.
Extends(u, v, h, d, k) ==
  /\ u \in Seq(Unit) /\ v \in Seq(Unit) /\ h \in Msg /\ d \in Nat /\ k \in Nat /\ k >= 1
  /\ d + k <= UnitLen /\ Len(v) = Len(u) + k /\ \A i \in 1..Len(u) : v[i] = u[i]
  /\ \A j \in 1..k : v[Len(u) + j] = <<h, d + j>>

\* The units that are written have an end of a message only if they finish it.
LEMMA ExtendIn ==
  ASSUME NEW u, NEW v, NEW h, NEW d, NEW k, Extends(u, v, h, d, k), NEW m \in Msg,
         Single(u, <<m, UnitLen>>), m = h /\ d + k = UnitLen => ~In(<<m, UnitLen>>, u)
  PROVE  /\ In(<<m, UnitLen>>, v) <=> In(<<m, UnitLen>>, u) \/ (m = h /\ d + k = UnitLen)
         /\ Single(v, <<m, UnitLen>>)
<1> /\ u \in Seq(Unit) /\ v \in Seq(Unit) /\ h \in Msg /\ d \in Nat /\ k \in Nat /\ k >= 1
    /\ d + k <= UnitLen /\ Len(v) = Len(u) + k /\ \A i \in 1..Len(u) : v[i] = u[i]
    /\ \A j \in 1..k : v[Len(u) + j] = <<h, d + j>>
  BY ZenonT(30) DEF Extends
<1> DEFINE T == Len(u)
<1> DEFINE x == <<m, UnitLen>>
<1>0. T \in Nat /\ UnitLen \in Nat /\ Len(v) = T + k
  BY LengthsAreNumbers
<1>1. \A i \in 1..Len(v) : i \in 1..T \/ (i - T \in 1..k /\ i = T + (i - T))
  BY <1>0
<1>2. \A i \in 1..T : i \in 1..Len(v) /\ v[i] = u[i]
  BY <1>0
<1>3. ASSUME NEW i \in 1..Len(v), i \notin 1..T, v[i] = x
      PROVE  i = T + k /\ m = h /\ d + k = UnitLen
  <2>1. PICK j \in 1..k : i = T + j
    BY ZenonT(30), <1>1, <1>3
  <2>2. <<h, d + j>> = <<m, UnitLen>>
    BY Zenon, <1>3, <2>1
  <2>3. h = m /\ d + j = UnitLen
    BY Zenon, <2>2
  <2>4. j = k
    BY <1>0, <2>3
  <2> QED BY Zenon, <2>1, <2>3, <2>4
<1>4. T + k \in 1..Len(v) /\ v[T + k] = <<h, d + k>>
  <2>1. k \in 1..k /\ T + k \in 1..Len(v)
    BY <1>0
  <2> QED BY Zenon, <2>1
<1> HIDE DEF T
<1>5. In(x, v) => In(x, u) \/ (m = h /\ d + k = UnitLen)
  BY Zenon, <1>2, <1>3 DEF In, T
<1>6. In(x, u) \/ (m = h /\ d + k = UnitLen) => In(x, v)
  BY Zenon, <1>2, <1>4 DEF In, T
<1>7. Single(v, x)
  <2> SUFFICES ASSUME NEW i \in 1..Len(v), NEW j \in 1..Len(v), v[i] = x, v[j] = x PROVE i = j
    BY ZenonT(30) DEF Single
  <2>1. CASE i \in 1..T /\ j \in 1..T
    BY Zenon, <1>2, <2>1 DEF Single, T
  <2>2. CASE i \notin 1..T /\ j \notin 1..T
    BY Zenon, <1>3, <2>2
  <2>3. CASE i \in 1..T /\ j \notin 1..T
    BY Zenon, <1>2, <1>3, <2>3 DEF In, T
  <2>4. CASE i \notin 1..T /\ j \in 1..T
    BY Zenon, <1>2, <1>3, <2>4 DEF In, T
  <2> QED BY Zenon, <2>1, <2>2, <2>3, <2>4
<1> QED BY Zenon, <1>5, <1>6, <1>7

\* The flow without its first message has the ends of the others.
LEMMA ShiftIn ==
  ASSUME NEW u \in Seq(Unit), NEW v \in Seq(Unit), NEW m \in Msg, NEW h \in Msg,
         Len(u) >= UnitLen, Len(v) = Len(u) - UnitLen,
         \A i \in 1..Len(v) : v[i] = u[i + UnitLen],
         \A i \in 1..UnitLen : u[i] = <<h, i>>, Single(u, <<m, UnitLen>>)
  PROVE  /\ In(<<h, UnitLen>>, u) /\ Single(v, <<m, UnitLen>>)
         /\ In(<<m, UnitLen>>, v) <=> In(<<m, UnitLen>>, u) /\ m # h
<1> DEFINE x == <<m, UnitLen>>
<1>0. Len(u) \in Nat /\ Len(v) \in Nat /\ UnitLen \in Nat /\ UnitLen > 1
  BY LengthsAreNumbers
<1>1. UnitLen \in 1..UnitLen /\ UnitLen \in 1..Len(u) /\ u[UnitLen] = <<h, UnitLen>>
  BY <1>0
<1>2. \A i \in 1..Len(v) : i + UnitLen \in 1..Len(u) /\ i + UnitLen # UnitLen
  BY <1>0
<1>3. In(<<h, UnitLen>>, u)
  BY Zenon, <1>1 DEF In
<1>4. Single(v, x)
  <2> SUFFICES ASSUME NEW i \in 1..Len(v), NEW j \in 1..Len(v), v[i] = x, v[j] = x PROVE i = j
    BY Zenon DEF Single
  <2>1. i + UnitLen = j + UnitLen
    BY Zenon, <1>2 DEF Single
  <2> QED BY <1>0, <2>1
<1>5. In(x, v) => In(x, u) /\ m # h
  <2> SUFFICES ASSUME NEW i \in 1..Len(v), v[i] = x PROVE In(x, u) /\ m # h
    BY Zenon DEF In
  <2>1. i + UnitLen \in 1..Len(u) /\ u[i + UnitLen] = x /\ i + UnitLen # UnitLen
    BY Zenon, <1>2
  <2>2. In(x, u)
    BY Zenon, <2>1 DEF In
  <2>3. m # h
    BY Zenon, <1>1, <2>1 DEF Single
  <2> QED BY Zenon, <2>2, <2>3
<1>6. In(x, u) /\ m # h => In(x, v)
  <2> SUFFICES ASSUME NEW i \in 1..Len(u), u[i] = x, m # h PROVE In(x, v)
    BY Zenon DEF In
  <2>1. i \notin 1..UnitLen
    <3> SUFFICES ASSUME i \in 1..UnitLen PROVE FALSE
      BY Zenon
    <3>1. <<h, i>> = <<m, UnitLen>>
      BY Zenon
    <3> QED BY Zenon, <3>1
  <2>2. i - UnitLen \in 1..Len(v) /\ (i - UnitLen) + UnitLen = i
    BY <1>0, <2>1
  <2>3. v[i - UnitLen] = x
    BY Zenon, <2>2
  <2> QED BY Zenon, <2>2, <2>3 DEF In
<1> QED BY Zenon, <1>3, <1>4, <1>5, <1>6

\* What has not the length of a message has no end of one.
LEMMA ShortIn ==
  ASSUME NEW u \in Seq(Unit), Framed(u), Len(u) < UnitLen, NEW m \in Msg
  PROVE  ~In(<<m, UnitLen>>, u)
<1> SUFFICES ASSUME NEW i \in 1..Len(u), u[i] = <<m, UnitLen>> PROVE FALSE
  BY Zenon DEF In
<1>1. i <= UnitLen /\ i # UnitLen /\ Len(u) \in Nat
  BY LengthsAreNumbers
<1>2. <<u[1][1], i>> = <<m, UnitLen>>
  BY Zenon, <1>1, FirstMessage
<1> QED BY Zenon, <1>1, <1>2

\* Flows that are cut off or emptied.
LEMMA FDrops ==
  ASSUME IInv, NEW m \in Msg,
         \A c \in Conn : Flow(c)' = Flow(c) \/ Flow(c)' = acc[c] \/ Flow(c)' = <<>>
  PROVE  \A c \in Conn : Single(Flow(c)', <<m, UnitLen>>) /\ (InFlow(c, m)' => InFlow(c, m))
<1> TAKE c \in Conn
<1> DEFINE x == <<m, UnitLen>>
<1>1. Single(Flow(c), x)
  BY Zenon, KeptFacts DEF Kept
<1>2. CASE Flow(c)' = Flow(c)
  BY Zenon, <1>1, <1>2 DEF InFlow
<1>3. CASE Flow(c)' = <<>>
  BY Zenon, <1>3, EmptyIn DEF InFlow
<1>4. CASE Flow(c)' = acc[c]
  <2>1. /\ acc[c] \in Seq(Unit) /\ Flow(c) \in Seq(Unit) /\ Len(acc[c]) <= Len(Flow(c))
        /\ \A i \in 1..Len(acc[c]) : Flow(c)[i] = acc[c][i]
    BY ZenonT(30), FlowFacts DEF IInv
  <2>2. (In(x, acc[c]) => In(x, Flow(c))) /\ (Single(Flow(c), x) => Single(acc[c], x))
    BY Zenon, <2>1, PrefixIn
  <2> QED BY Zenon, <1>1, <1>4, <2>2 DEF InFlow
<1> QED BY Zenon, <1>2, <1>3, <1>4

\* A write moves a message to the connection when it completes it.
LEMMA WriteMoves ==
  ASSUME IInv, NEW c \in Conn, NEW k \in 1..UnitLen, WriteSome(c, k), NEW m \in Msg
  PROVE  Moved(m)
<1>0. Kept(m) /\ (Placed(m) => m \in accepted /\ m \notin printed) /\ PubType /\ SubType /\ ConnAt(c)
  BY Zenon, KeptFacts
<1>1. /\ thMsg[c] \in Msg /\ done[c] \in Nat /\ k \in Nat /\ k >= 1 /\ done[c] + k <= UnitLen
      /\ wire' \in [Conn -> Seq(Unit)] /\ \A e \in Conn : e # c => wire'[e] = wire[e]
  BY Zenon, WriteEffect
<1>2. /\ accepted' = accepted /\ printed' = printed /\ acc' = acc
      /\ mq' = mq /\ sq' = sq /\ faulty' = faulty
  BY Zenon DEF WriteSome, subVars
<1>3. QSame(m) /\ SSame(m)
  BY Zenon, <1>0, <1>2, QKeeps, SKeeps
<1> DEFINE fin == done[c] + k = UnitLen
<1>4. /\ InBuf(c, m) <=> m = thMsg[c]
      /\ InBuf(c, m)' <=> m = thMsg[c] /\ ~fin
      /\ \A e \in Conn : e # c => (InBuf(e, m)' <=> InBuf(e, m))
  BY Zenon, <1>0 DEF WriteSome, InBuf, PubType
<1>5. \A e \in Conn : e # c => Flow(e)' = Flow(e)
  BY Zenon, <1>1, <1>2, FlowKept
<1>6. Single(Flow(c), <<m, UnitLen>>) /\ \A e \in Conn : Single(Flow(e), <<m, UnitLen>>)
  BY Zenon, <1>0 DEF Kept
<1>7. m = thMsg[c] => /\ Placed(m) /\ ~In(m, mq) /\ \A s \in Sub : ~InSub(s, m)
                      /\ \A e \in Conn : (InBuf(e, m) => e = c) /\ ~InFlow(e, m)
  <2> HAVE m = thMsg[c]
  <2>1. InBuf(c, m)
    BY Zenon, <1>4
  <2>2. Placed(m)
    BY Zenon, <2>1 DEF Placed
  <2> QED BY Zenon, <1>0, <2>1, <2>2 DEF Kept
<1>8. CASE net[c] = "gone"
  <2>1. \A e \in Conn : Flow(e)' = Flow(e)
    BY Zenon, <1>2, <1>5, <1>8, FlowKept, WriteEffect
  <2>2. FSame(m)
    BY Zenon, <1>0, <2>1, FKeeps
  <2>3. \A e \in Conn : InBuf(e, m)' => InBuf(e, m)
    BY Zenon, <1>4
  <2>4. Kept(m)' /\ (Placed(m)' => Placed(m))
    BY Zenon, <1>0, <1>2, <1>3, <2>2, <2>3, Dropped DEF QSame, FSame, SSame
  <2>5. faulty'
    BY Zenon, <1>0, <1>2, <1>8 DEF ConnAt
  <2> QED BY Zenon, <2>4, <2>5 DEF Moved
<1>9. CASE net[c] = "open"
  <2>1. /\ Flow(c)' \in Seq(Unit) /\ Flow(c) \in Seq(Unit) /\ Len(Flow(c)') = Len(Flow(c)) + k
        /\ \A i \in 1..Len(Flow(c)) : Flow(c)'[i] = Flow(c)[i]
        /\ \A j \in 1..k : Flow(c)'[Len(Flow(c)) + j] = <<thMsg[c], done[c] + j>>
    BY ZenonT(30), <1>9, WriteFlow
  <2>2. m = thMsg[c] => ~In(<<m, UnitLen>>, Flow(c))
    BY Zenon, <1>7 DEF InFlow
  <2>3. /\ In(<<m, UnitLen>>, Flow(c)') <=> In(<<m, UnitLen>>, Flow(c)) \/ (m = thMsg[c] /\ fin)
        /\ Single(Flow(c)', <<m, UnitLen>>)
    <3>1. Extends(Flow(c), Flow(c)', thMsg[c], done[c], k)
      BY Zenon, <1>1, <2>1 DEF Extends
    <3> QED BY ZenonT(30), <1>6, <2>2, <3>1, ExtendIn
  <2>4. /\ \A e \in Conn : Single(Flow(e)', <<m, UnitLen>>)
        /\ \A e \in Conn : e # c => (InFlow(e, m)' <=> InFlow(e, m))
        /\ InFlow(c, m)' <=> InFlow(c, m) \/ (m = thMsg[c] /\ fin)
    BY Zenon, <1>5, <1>6, <2>3 DEF InFlow
  <2> HIDE DEF fin
  <2>5. CASE m = thMsg[c] /\ fin
    <3>1. /\ \A e \in Conn : ~InBuf(e, m)'
          /\ \A e \in Conn : Single(Flow(e)', <<m, UnitLen>>) /\ (InFlow(e, m)' => e = c)
          /\ \A s \in Sub : Single(sq'[s], m) /\ ~InSub(s, m)'
          /\ Single(mq', m) /\ ~In(m, mq')
      BY Zenon, <1>3, <1>4, <1>7, <2>4, <2>5 DEF QSame, SSame
    <3>2. Kept(m)'
      BY Zenon, <1>0, <1>2, <1>7, <2>5, <3>1, InFlowOnly
    <3>3. Placed(m)'
      BY Zenon, <2>4, <2>5 DEF Placed
    <3> QED BY Zenon, <1>7, <2>5, <3>2, <3>3 DEF Moved
  <2>6. CASE ~(m = thMsg[c] /\ fin)
    <3>1. BSame(m) /\ FSame(m)
      BY Zenon, <1>4, <2>4, <2>6 DEF BSame, FSame
    <3> QED BY Zenon, <1>0, <1>2, <1>3, <3>1, Stays
  <2> QED BY Zenon, <2>5, <2>6
<1> QED BY Zenon, <1>8, <1>9 DEF WriteSome

\* The receiver thread moves a whole message to the queue of its subscriber.
LEMMA PutMoves ==
  ASSUME IInv, NEW c \in Conn, PutMsg(c), NEW m \in Msg
  PROVE  Moved(m)
<1> DEFINE h == acc[c][1][1]
<1>0. Kept(m) /\ (Placed(m) => m \in accepted /\ m \notin printed) /\ PubType /\ SubType /\ ConnAt(c)
  BY Zenon, KeptFacts
<1>15. PICK s \in Sub : s = peer[c]
  BY Zenon, <1>0 DEF PutMsg, ConnAt
<1>1. /\ accepted' = accepted /\ printed' = printed /\ mq' = mq /\ th' = th /\ thMsg' = thMsg
      /\ wire' = wire /\ acc' = [acc EXCEPT ![c] = <<>>] /\ rc[c] = "put"
      /\ sq' = [sq EXCEPT ![s] = Append(@, MessageOf(acc[c]))]
  BY Zenon, <1>15 DEF PutMsg, pubVars, netVars
<1>2. h \in Msg /\ MessageOf(acc[c]) = h
  BY Zenon, <1>1, WholeMessage
<1>3. s \in Sub /\ sq \in [Sub -> Seq(Msg)] /\ sq[s] \in Seq(Msg)
  BY Zenon, <1>0, <1>1 DEF ConnAt, SubType
<1>4. QSame(m) /\ BSame(m)
  BY Zenon, <1>0, <1>1, QKeeps, BKeeps
<1>5. \A e \in Conn : e # c => Flow(e)' = Flow(e)
  BY Zenon, <1>0, <1>1, FlowKept DEF SubType
<1>6. \A e \in Conn : Single(Flow(e), <<m, UnitLen>>)
  BY Zenon, <1>0 DEF Kept
<1>7. /\ In(<<h, UnitLen>>, Flow(c)) /\ Single(Flow(c)', <<m, UnitLen>>)
      /\ In(<<m, UnitLen>>, Flow(c)') <=> In(<<m, UnitLen>>, Flow(c)) /\ m # h
  <2> DEFINE u == Flow(c)
  <2> DEFINE v == Flow(c)'
  <2>1. /\ u \in Seq(Unit) /\ v \in Seq(Unit) /\ h \in Msg
        /\ Len(u) >= UnitLen /\ Len(v) = Len(u) - UnitLen
        /\ \A i \in 1..Len(v) : v[i] = u[i + UnitLen]
        /\ \A i \in 1..UnitLen : u[i] = <<h, i>> /\ Single(u, <<m, UnitLen>>)
    BY Zenon, <1>2, <1>6, PutFlow
  <2>2. Single(u, <<m, UnitLen>>)
    BY Zenon, <1>6
  <2> SUFFICES /\ In(<<h, UnitLen>>, u) /\ Single(v, <<m, UnitLen>>)
               /\ In(<<m, UnitLen>>, v) <=> In(<<m, UnitLen>>, u) /\ m # h
    BY Zenon
  <2> HIDE DEF u, v, h
  <2> QED BY Zenon, <2>1, <2>2, ShiftIn
<1>8. /\ \A e \in Conn : Single(Flow(e)', <<m, UnitLen>>)
      /\ \A e \in Conn : e # c => (InFlow(e, m)' <=> InFlow(e, m))
      /\ InFlow(c, h) /\ (InFlow(c, m)' <=> InFlow(c, m) /\ m # h)
  BY Zenon, <1>5, <1>6, <1>7 DEF InFlow
<1>9. /\ sq'[s] = Append(sq[s], h) /\ \A t \in Sub : t # s => sq'[t] = sq[t]
      /\ \A t \in Sub : Single(sq[t], m)
  BY Zenon, <1>0, <1>1, <1>2, <1>3 DEF Kept
<1> HIDE DEF h
<1>10. m = h => /\ Placed(m) /\ InFlow(c, m) /\ ~In(m, mq) /\ \A t \in Sub : ~InSub(t, m)
                /\ \A e \in Conn : ~InBuf(e, m) /\ (InFlow(e, m) => e = c)
  <2> HAVE m = h
  <2>1. InFlow(c, m)
    BY Zenon, <1>8
  <2>2. Placed(m)
    BY Zenon, <2>1 DEF Placed
  <2> QED BY Zenon, <1>0, <2>1, <2>2 DEF Kept
<1>11. /\ Single(sq'[s], m) /\ (In(m, sq'[s]) <=> In(m, sq[s]) \/ m = h)
  <2>1. m = h => ~In(m, sq[s])
    BY Zenon, <1>3, <1>10 DEF InSub
  <2>2. Single(sq[s], m)
    BY Zenon, <1>3, <1>9
  <2> QED BY <1>2, <1>3, <1>9, <2>1, <2>2, AppendIn, AppendSingle
<1>12. /\ \A t \in Sub : Single(sq'[t], m) /\ (t # s => (InSub(t, m)' <=> InSub(t, m)))
       /\ InSub(s, m)' <=> InSub(s, m) \/ m = h
  BY Zenon, <1>9, <1>11 DEF InSub
<1>13. CASE m = h
  <2>1. /\ \A e \in Conn : ~InBuf(e, m)'
        /\ \A e \in Conn : Single(Flow(e)', <<m, UnitLen>>) /\ ~InFlow(e, m)'
        /\ \A t \in Sub : Single(sq'[t], m) /\ (InSub(t, m)' => t = s)
        /\ Single(mq', m) /\ ~In(m, mq')
    BY ZenonT(30), <1>4, <1>8, <1>10, <1>12, <1>13 DEF QSame, BSame
  <2>2. Kept(m)'
    BY Zenon, <1>0, <1>1, <1>3, <1>10, <1>13, <2>1, InSubOnly
  <2>3. Placed(m)'
    BY Zenon, <1>3, <1>12, <1>13 DEF Placed
  <2> QED BY Zenon, <1>10, <1>13, <2>2, <2>3 DEF Moved
<1>14. CASE m # h
  <2>1. FSame(m) /\ SSame(m)
    BY Zenon, <1>8, <1>12, <1>14 DEF FSame, SSame
  <2> QED BY Zenon, <1>0, <1>1, <1>4, <2>1, Stays
<1> QED BY Zenon, <1>13, <1>14

\* Steps that move no message.
LEMMA QuietMoves ==
  ASSUME IInv, NEW m \in Msg, accepted' = accepted, printed' = printed, mq' = mq, sq' = sq,
         BSame(m), \A c \in Conn : Flow(c)' = Flow(c)
  PROVE  Moved(m)
<1>1. Kept(m)
  BY Zenon, KeptFacts
<1>2. QSame(m) /\ FSame(m) /\ SSame(m)
  BY Zenon, <1>1, QKeeps, FKeeps, SKeeps
<1> QED BY Zenon, <1>1, <1>2, Stays

\* Faults: what is on a connection or in a subscriber may be gone.
LEMMA FaultMoves ==
  ASSUME IInv, NEW m \in Msg, accepted' = accepted, printed' = printed, mq' = mq,
         th' = th, thMsg' = thMsg, faulty',
         \A s \in Sub : sq'[s] = sq[s] \/ sq'[s] = <<>>,
         \A c \in Conn : Flow(c)' = Flow(c) \/ Flow(c)' = acc[c] \/ Flow(c)' = <<>>
  PROVE  Moved(m)
<1>1. Kept(m)
  BY ZenonT(30), KeptFacts
<1>2. QSame(m) /\ BSame(m)
  BY Zenon, <1>1, QKeeps, BKeeps
<1>3. \A c \in Conn : Single(Flow(c)', <<m, UnitLen>>) /\ (InFlow(c, m)' => InFlow(c, m))
  BY Zenon, FDrops
<1>4. \A s \in Sub : Single(sq'[s], m) /\ (InSub(s, m)' => InSub(s, m))
  BY ZenonT(30), <1>1, EmptyIn DEF Kept, InSub
<1>5. Kept(m)' /\ (Placed(m)' => Placed(m))
  BY Zenon, <1>1, <1>2, <1>3, <1>4, Dropped DEF QSame, BSame
<1> QED BY Zenon, <1>5 DEF Moved

\* At the end of the stream only a part of a message is dropped.
LEMMA ReadEndsMoves ==
  ASSUME IInv, NEW c \in Conn, ReadEnds(c), NEW m \in Msg
  PROVE  Moved(m)
<1>0. Kept(m) /\ SubType /\ ConnAt(c) /\ TypeOK /\ Framed(Flow(c)) /\ Flow(c) \in Seq(Unit)
  BY Zenon, KeptFacts
<1>1. /\ accepted' = accepted /\ printed' = printed /\ mq' = mq /\ th' = th /\ thMsg' = thMsg
      /\ wire' = wire /\ acc' = [acc EXCEPT ![c] = <<>>] /\ wire[c] = <<>> /\ rc[c] = "read" /\ sq' = sq
  BY Zenon DEF ReadEnds, pubVars, netVars
<1>2. QSame(m) /\ BSame(m) /\ SSame(m)
  BY Zenon, <1>0, <1>1, QKeeps, BKeeps, SKeeps
<1>3. \A e \in Conn : e # c => Flow(e)' = Flow(e)
  BY Zenon, <1>0, <1>1, FlowKept DEF SubType
<1>4. ~InFlow(c, m)
  <2>1. Flow(c) = acc[c] /\ Len(acc[c]) < UnitLen
    BY ZenonT(30), <1>0, <1>1, FlowFacts DEF ConnAt
  <2> QED BY Zenon, <1>0, <2>1, ShortIn DEF InFlow
<1>5. Flow(c)' = <<>>
  <2>1. acc'[c] = <<>> /\ wire'[c] = <<>>
    BY Zenon, <1>0, <1>1 DEF SubType
  <2> QED BY <2>1 DEF Flow
<1>6. FSame(m)
  BY Zenon, <1>0, <1>3, <1>4, <1>5, EmptyIn DEF FSame, InFlow, Kept
<1> QED BY Zenon, <1>0, <1>1, <1>2, <1>6, Stays

\* Printing takes the first message from its queue, and no other.
LEMMA PrintMoves ==
  ASSUME IInv, NEW s \in Sub, PrintLine(s), NEW m \in Msg
  PROVE  /\ Moved(m) /\ Head(sq[s]) \in Msg /\ InSub(s, Head(sq[s]))
         /\ Placed(m)' <=> Placed(m) /\ m # Head(sq[s])
<1> DEFINE h == Head(sq[s])
<1>0. Kept(m) /\ sq \in [Sub -> Seq(Msg)]
  BY Zenon, KeptFacts DEF SubType
<1>1. /\ accepted' = accepted /\ printed' = printed \cup {h} /\ mq' = mq /\ th' = th /\ thMsg' = thMsg
      /\ acc' = acc /\ wire' = wire /\ sq[s] # <<>> /\ sq' = [sq EXCEPT ![s] = Tail(@)]
  BY Zenon DEF PrintLine, pubVars, netVars
<1>2. QSame(m) /\ BSame(m) /\ FSame(m)
  BY Zenon, <1>0, <1>1, QKeeps, BKeeps, FKeeps, FlowKept
<1>3. /\ sq'[s] = Tail(sq[s]) /\ \A t \in Sub : t # s => sq'[t] = sq[t]
      /\ \A t \in Sub : Single(sq[t], m)
  BY Zenon, <1>0, <1>1 DEF Kept
<1>4. /\ h \in Msg /\ In(h, sq[s]) /\ Single(sq'[s], m)
      /\ In(m, sq'[s]) <=> In(m, sq[s]) /\ m # h
  BY <1>0, <1>1, <1>3, TailIn
<1> HIDE DEF h
<1>5. /\ \A t \in Sub : Single(sq'[t], m) /\ (t # s => (InSub(t, m)' <=> InSub(t, m)))
      /\ InSub(s, m)' <=> InSub(s, m) /\ m # h
  BY Zenon, <1>3, <1>4 DEF InSub
<1>6. m = h => ~Placed(m)'
  <2> HAVE m = h
  <2>1. InSub(s, m)
    BY Zenon, <1>4 DEF InSub
  <2>2. /\ ~In(m, mq) /\ \A c \in Conn : ~InBuf(c, m) /\ ~InFlow(c, m)
        /\ \A t \in Sub : InSub(t, m) => t = s
    BY Zenon, <1>0, <2>1 DEF Kept
  <2> QED BY Zenon, <1>2, <1>5, <2>2 DEF Placed, QSame, BSame, FSame
<1>7. \A t \in Sub : InSub(t, m)' => InSub(t, m)
  BY Zenon, <1>5
<1>8. Placed(m)' /\ m \in printed' => m \in printed
  BY Zenon, <1>1, <1>6
<1>9. Kept(m)' /\ (Placed(m)' => Placed(m))
  BY Zenon, <1>0, <1>1, <1>2, <1>5, <1>7, <1>8, Dropped DEF QSame, BSame, FSame
<1>10. m # h /\ Placed(m) => Placed(m)'
  BY Zenon, <1>2, <1>5 DEF Placed, QSame, BSame, FSame
<1>11. Moved(m)
  BY Zenon, <1>1, <1>9, <1>10 DEF Moved
<1> QED BY Zenon, <1>4, <1>6, <1>9, <1>10, <1>11 DEF h, InSub

\* Every step of the specification moves messages as they may be moved.
LEMMA MovedStep ==
  ASSUME IInv, [Next]_vars, NEW m \in Msg
  PROVE  Moved(m)
<1>0. PubType /\ SubType /\ \A e \in Conn : ConnAt(e)
  BY Zenon, KeptFacts
<1>1. ASSUME NEW c \in Conn, NEW s \in Sub, Dial(c, s) PROVE Moved(m)
  <2>1. BSame(m)
    BY ZenonT(30), <1>0, <1>1 DEF BSame, InBuf, Dial, PubType, ConnAt
  <2>2. \A e \in Conn : Flow(e)' = Flow(e)
    BY Zenon, <1>1, FlowKept DEF Dial
  <2> QED BY Zenon, <1>1, <2>1, <2>2, QuietMoves DEF Dial
<1>2. ASSUME NEW c \in Conn, Cut(c) PROVE Moved(m)
  <2>1. \A e \in Conn : Flow(e)' = Flow(e) \/ Flow(e)' = acc[e]
    <3> TAKE e \in Conn
    <3>1. acc'[e] = acc[e] /\ wire'[e] = IF e = c THEN <<>> ELSE wire[e]
      BY Zenon, <1>0, <1>2 DEF Cut, subVars, SubType
    <3>2. CASE e = c
      <4>1. acc[e] \in Seq(Unit) /\ acc[e] \o <<>> = acc[e]
        BY <1>0 DEF SubType
      <4> QED BY Zenon, <3>1, <3>2, <4>1 DEF Flow
    <3> QED BY Zenon, <3>1, <3>2, FlowKept
  <2> QED BY Zenon, <1>2, <2>1, FaultMoves DEF Cut, pubVars, subVars
<1>3. ASSUME NEW c \in Conn, Reset(c) PROVE Moved(m)
  <2>1. BSame(m) /\ \A e \in Conn : Flow(e)' = Flow(e)
    BY Zenon, <1>3, BKeeps, FlowKept DEF Reset, pubVars, subVars
  <2> QED BY Zenon, <1>3, <2>1, QuietMoves DEF Reset, pubVars, subVars
<1>4. ASSUME NEW c \in Conn, PutFails(c) PROVE Moved(m)
  <2>1. \A e \in Conn : Flow(e)' = Flow(e) \/ Flow(e)' = <<>>
    <3> TAKE e \in Conn
    <3>1. /\ acc'[e] = IF e = c THEN <<>> ELSE acc[e]
          /\ wire'[e] = IF e = c THEN <<>> ELSE wire[e]
      BY Zenon, <1>0, <1>4 DEF PutFails, SubType
    <3>2. CASE e = c
      BY <3>1, <3>2 DEF Flow
    <3> QED BY Zenon, <3>1, <3>2, FlowKept
  <2> QED BY Zenon, <1>4, <2>1, FaultMoves DEF PutFails, pubVars
<1>5. ASSUME NEW c \in Conn, NEW k \in 1..UnitLen, ReadSome(c, k) PROVE Moved(m)
  <2>1. \A e \in Conn : Flow(e)' = Flow(e)
    BY Zenon, <1>5, ReadEffect DEF Flow
  <2>2. BSame(m)
    BY Zenon, <1>5, BKeeps DEF ReadSome, pubVars
  <2> QED BY Zenon, <1>5, <2>1, <2>2, QuietMoves DEF ReadSome, pubVars
<1>6. ASSUME NEW s \in Sub, Start(s) PROVE Moved(m)
  <2>1. BSame(m) /\ \A e \in Conn : Flow(e)' = Flow(e)
    BY Zenon, <1>6, BKeeps, FlowKept DEF Start, pubVars, netVars
  <2> QED BY Zenon, <1>6, <2>1, QuietMoves DEF Start, pubVars, netVars
<1>7. ASSUME NEW s \in Sub, Die(s) PROVE Moved(m)
  <2>1. \A e \in Conn : Flow(e)' = Flow(e) \/ Flow(e)' = <<>>
    <3> TAKE e \in Conn
    <3>1. /\ acc'[e] = IF peer[e] = s THEN <<>> ELSE acc[e]
          /\ wire'[e] = IF peer[e] = s THEN <<>> ELSE wire[e]
      BY Zenon, <1>7 DEF Die
    <3>2. CASE peer[e] = s
      BY <3>1, <3>2 DEF Flow
    <3> QED BY Zenon, <3>1, <3>2, FlowKept
  <2>2. \A t \in Sub : sq'[t] = sq[t] \/ sq'[t] = <<>>
    BY ZenonT(30), <1>0, <1>7 DEF Die, SubType
  <2> QED BY Zenon, <1>7, <2>1, <2>2, FaultMoves DEF Die, pubVars
<1>8. ASSUME UNCHANGED vars PROVE Moved(m)
  <2>1. BSame(m) /\ \A e \in Conn : Flow(e)' = Flow(e)
    BY Zenon, <1>8, BKeeps, FlowKept DEF vars, pubVars, netVars, subVars
  <2> QED BY Zenon, <1>8, <2>1, QuietMoves DEF vars, pubVars, netVars, subVars
<1>9. ASSUME NEW n \in Msg, Accept(n) PROVE Moved(m)
  BY Zenon, <1>9, AcceptMoves
<1>10. ASSUME NEW c \in Conn, NEW k \in 1..UnitLen, WriteSome(c, k) PROVE Moved(m)
  BY Zenon, <1>10, WriteMoves
<1>11. ASSUME NEW c \in Conn, Get(c) \/ Requeue(c) \/ WriteFails(c) \/ Post(c) \/ Interrupted(c)
       PROVE  Moved(m)
  BY Zenon, <1>11, GetMoves, RequeueMoves, ThreadMoves
<1>12. ASSUME NEW c \in Conn, PutMsg(c) \/ ReadEnds(c) PROVE Moved(m)
  BY Zenon, <1>12, PutMoves, ReadEndsMoves
<1>13. ASSUME NEW s \in Sub, PrintLine(s) PROVE Moved(m)
  BY Zenon, <1>13, PrintMoves
<1>14. CASE Next
  BY ONLY SMTT(30), <1>1, <1>2, <1>3, <1>4, <1>5, <1>6, <1>7, <1>9, <1>10, <1>11, <1>12, <1>13, <1>14 DEF Next
<1> QED BY Zenon, <1>8, <1>14

\* What the steps do to what was accepted and printed.
LEMMA CountsStep ==
  ASSUME IInv, [Next]_vars
  PROVE  /\ faulty => faulty'
         /\ \/ \E n \in Msg : Accept(n)
            \/ \E s \in Sub : PrintLine(s)
            \/ accepted' = accepted /\ printed' = printed /\ prints' = prints
<1>1. faulty => faulty'
  BY ZenonT(30) DEF Next, Accept, Dial, Get, WriteSome, WriteFails, Post, Requeue, Interrupted, ThreadGoes,
         Cut, Reset, ReadEnds, PutMsg, PutFails, ReadSome, Start, Die, PrintLine, vars
<1> DEFINE Same == accepted' = accepted /\ printed' = printed /\ prints' = prints
<1>2. ASSUME NEW c \in Conn, Get(c) \/ WriteFails(c) \/ Post(c) \/ Requeue(c) \/ Interrupted(c)
      PROVE  Same
  BY ONLY SMTT(30), <1>2 DEF Get, WriteFails, Post, Requeue, Interrupted, ThreadGoes, subVars
<1>3. ASSUME NEW c \in Conn, Cut(c) \/ Reset(c) \/ ReadEnds(c) \/ PutMsg(c) \/ PutFails(c)
      PROVE  Same
  BY ONLY SMTT(30), <1>3 DEF Cut, Reset, ReadEnds, PutMsg, PutFails, pubVars, subVars
<1>4. ASSUME NEW c \in Conn, NEW k \in 1..UnitLen, WriteSome(c, k) \/ ReadSome(c, k) PROVE Same
  BY ONLY Zenon, <1>4 DEF WriteSome, ReadSome, pubVars, subVars
<1>5. ASSUME NEW c \in Conn, NEW s \in Sub, Dial(c, s) PROVE Same
  BY ONLY SMTT(30), <1>5 DEF Dial, subVars
<1>6. ASSUME NEW s \in Sub, Start(s) \/ Die(s) PROVE Same
  BY ONLY Zenon, <1>6 DEF Start, Die, pubVars, netVars
<1>7. ASSUME UNCHANGED vars PROVE Same
  BY ONLY SMTT(30), <1>7 DEF vars, pubVars, subVars
<1>8. \/ \E n \in Msg : Accept(n)
      \/ \E s \in Sub : PrintLine(s)
      \/ Same
  <2> HIDE DEF Same
  <2> QED BY Zenon, <1>2, <1>3, <1>4, <1>5, <1>6, <1>7 DEF Next
<1> QED BY Zenon, <1>1, <1>8

\* Every step keeps accepted and printed as the invariant has them.
LEMMA MsgStep ==
  ASSUME IInv, [Next]_vars
  PROVE  MsgInv'
<1>0. SubType'
  BY Zenon, TypeConnStep
<1>1. printed \subseteq accepted /\ \E n \in 0..MaxMsg : accepted = 1..n
  BY Zenon DEF IInv, MsgInv
<1>2. CASE \E n \in Msg : Accept(n)
  <2>1. PICK n \in Msg : Accept(n)
    BY Zenon, <1>2
  <2>2. accepted' = accepted \cup {n} /\ printed' = printed /\ \E i \in 0..MaxMsg : accepted' = 1..i
    BY Zenon, <2>1, AcceptNext DEF Accept, subVars
  <2> QED BY Zenon, <1>0, <1>1, <2>2 DEF MsgInv, SubType
<1>3. CASE \E s \in Sub : PrintLine(s)
  <2>1. PICK s \in Sub : PrintLine(s)
    BY Zenon, <1>3
  <2> DEFINE h == Head(sq[s])
  <2>2. accepted' = accepted /\ printed' = printed \cup {h}
    BY Zenon, <2>1 DEF PrintLine, pubVars
  <2>3. h \in accepted
    <3>1. sq \in [Sub -> Seq(Msg)] /\ sq[s] # <<>>
      BY Zenon, <2>1 DEF IInv, MsgInv, PrintLine
    <3>2. h \in Msg
      BY <3>1
    <3>3. InSub(s, h)
      BY Zenon, <2>1, <3>2, PrintMoves
    <3>4. Placed(h)
      BY Zenon, <3>3 DEF Placed
    <3> QED BY Zenon, <3>2, <3>4, KeptFacts
  <2> QED BY Zenon, <1>0, <1>1, <2>2, <2>3 DEF MsgInv, SubType
<1>4. CASE accepted' = accepted /\ printed' = printed
  BY Zenon, <1>0, <1>1, <1>4 DEF MsgInv, SubType
<1> QED BY Zenon, <1>2, <1>3, <1>4, CountsStep

\* Without a fault no step loses a message that was accepted.
LEMMA LossStep ==
  ASSUME IInv, [Next]_vars
  PROVE  LossInv'
<1> SUFFICES ASSUME ~faulty', NEW m \in accepted' PROVE m \in printed' \/ Placed(m)'
  BY Zenon DEF LossInv
<1>0. ~faulty
  BY Zenon, CountsStep
<1>1. accepted' \subseteq Msg
  BY Zenon, TypeConnStep DEF PubType
<1>2. Moved(m)
  BY Zenon, <1>1, MovedStep
<1>3. CASE m \in accepted
  <2>1. m \in printed \/ Placed(m)
    BY Zenon, <1>0, <1>3 DEF IInv, LossInv
  <2>2. printed \subseteq printed'
    BY Zenon, CountsStep DEF Accept, PrintLine, subVars
  <2> QED BY Zenon, <1>2, <2>1, <2>2 DEF Moved
<1>4. CASE m \notin accepted
  <2>1. PICK n \in Msg : Accept(n)
    BY Zenon, <1>4, CountsStep DEF PrintLine, pubVars
  <2>2. m = n
    BY Zenon, <1>4, <2>1 DEF Accept
  <2> QED BY Zenon, <1>1, <2>1, <2>2, AcceptMoves
<1> QED BY Zenon, <1>3, <1>4

\* At the start there are no messages and no connections.
LEMMA InitInv == Init => IInv
<1> SUFFICES ASSUME Init PROVE IInv
  BY Zenon
<1>1. PubType /\ SubType
  <2>1. 0 \in 0..UnitLen /\ 0 <= QCap
    BY PipelineAssumption, LengthsAreNumbers
  <2>2. PubType
    <3>0. mq = <<>> /\ accepted = {} /\ faulty = FALSE
      BY Zenon DEF Init
    <3>4. accepted \subseteq Msg /\ faulty \in BOOLEAN
      BY Zenon, <3>0
    <3>5. mq \in Seq(Msg) /\ Len(mq) = 0
      BY <3>0
    <3>1. mq \in Seq(Msg) /\ Len(mq) <= QCap /\ accepted \subseteq Msg /\ faulty \in BOOLEAN
      BY Zenon, <2>1, <3>4, <3>5
    <3>2. thMsg \in [Conn -> Msg \cup {0}] /\ done \in [Conn -> 0..UnitLen]
      BY Zenon, <2>1 DEF Init
    <3>3. /\ th \in [Conn -> {"none", "get", "write", "post", "requeue", "ended"}]
          /\ net \in [Conn -> {"none", "open", "finished", "gone", "reset"}]
          /\ peer \in [Conn -> Sub \cup {NoSub}]
      BY Zenon DEF Init
    <3> QED BY Zenon, <3>1, <3>2, <3>3 DEF PubType
  <2>3. SubType
    BY DEF Init, SubType
  <2> QED BY Zenon, <2>2, <2>3
<1>2. TypeOK
  BY Zenon, <1>1, TypeSplit
<1>3. \A c \in Conn : Flow(c) = <<>>
  BY DEF Init, Flow
<1>4. ConnInv
  BY Zenon, LengthsAreNumbers DEF Init, ConnInv, ConnAt
<1>5. FrameInv
  BY <1>3 DEF Init, FrameInv, FrameAt, Framed, Ends
<1>6. \A m \in Msg : Kept(m) /\ ~Placed(m)
  BY ZenonT(30), <1>3, EmptyIn DEF Init, Kept, Placed, InBuf, InFlow, InSub
<1>7. KeptInv /\ LossInv
  BY Zenon, <1>6 DEF KeptInv, LossInv, Init
<1>8. MsgInv
  <2>1. 0 \in 0..MaxMsg /\ 1..0 = {}
    BY PipelineAssumption
  <2> QED BY Zenon, <1>1, <2>1 DEF MsgInv, Init, SubType
<1> QED BY Zenon, <1>2, <1>4, <1>5, <1>7, <1>8 DEF IInv

\* The invariant holds in every state.
LEMMA Invariance == Spec => []IInv
<1>1. IInv /\ [Next]_vars => IInv'
  <2> SUFFICES ASSUME IInv, [Next]_vars PROVE IInv'
    BY Zenon
  <2>1. PubType' /\ SubType' /\ ConnInv'
    BY Zenon, TypeConnStep
  <2>2. TypeOK'
    <3>1. Seq(Msg) \subseteq Seq(Msg \cup {Garbled})
      OBVIOUS
    <3> QED BY Zenon, <2>1, <3>1 DEF PubType, SubType, TypeOK, Unit
  <2>3. KeptInv'
    BY Zenon, MovedStep DEF KeptInv, Moved
  <2> QED BY Zenon, <2>1, <2>2, <2>3, FrameStep, LossStep, MsgStep DEF IInv
<1> QED BY <1>1, InitInv, PTL DEF Spec

-----------------------------------------------------------------------------
(* Theorems.                                                               *)

\* A message that can still be printed is one that has a place: the end of it
\* is on the wire, or it was read and the receiver has all of it.
LEMMA UnderwayPlaced ==
  ASSUME IInv, NEW m \in Msg
  PROVE  Underway(m) <=> Placed(m)
<1> DEFINE x == <<m, UnitLen>>
<1>0. TypeOK /\ SubType /\ \A c \in Conn : ConnAt(c) /\ Framed(Flow(c))
  BY Zenon, KeptFacts
<1>1. ASSUME NEW c \in Conn
      PROVE  InFlow(c, m) <=> In(x, wire[c]) \/ (rc[c] = "put" /\ MessageOf(acc[c]) = m)
  <2> DEFINE a == acc[c]
  <2> DEFINE w == wire[c]
  <2> DEFINE u == Flow(c)
  <2>1. /\ a \in Seq(Unit) /\ w \in Seq(Unit) /\ u \in Seq(Unit)
        /\ Len(a) \in Nat /\ Len(w) \in Nat /\ Len(u) = Len(a) + Len(w) /\ Len(a) <= Len(u)
        /\ \A i \in 1..Len(a) : u[i] = a[i]
        /\ \A i \in 1..Len(w) : u[Len(a) + i] = w[i]
    BY Zenon, <1>0, FlowFacts
  <2>2. Framed(a)
    BY ZenonT(30), <1>0, <2>1, FramedPrefix
  <2>3. In(x, a) <=> rc[c] = "put" /\ MessageOf(a) = m
    <3>1. CASE rc[c] = "put"
      <4>1. /\ MessageOf(a) = a[1][1] /\ Len(a) = UnitLen
            /\ \A i \in 1..UnitLen : a[i] = <<a[1][1], i>>
        BY Zenon, <3>1, WholeMessage
      <4>2. UnitLen \in 1..Len(a)
        BY <4>1, LengthsAreNumbers
      <4>3. \A i \in 1..Len(a) : a[i] = x => a[1][1] = m
        BY <4>1
      <4>4. a[1][1] = m => a[UnitLen] = x
        BY Zenon, <4>1, <4>2
      <4> HIDE DEF a
      <4> QED BY Zenon, <3>1, <4>1, <4>2, <4>3, <4>4 DEF In
    <3>2. CASE rc[c] # "put"
      <4>1. Len(a) < UnitLen
        BY <1>0, <3>2, LengthsAreNumbers DEF ConnAt, SubType
      <4>2. ~In(x, a)
        BY Zenon, <2>1, <2>2, <4>1, ShortIn
      <4> QED BY Zenon, <3>2, <4>2
    <3> QED BY Zenon, <3>1, <3>2
  <2> SUFFICES In(x, u) <=> In(x, w) \/ In(x, a)
    BY Zenon, <2>3 DEF InFlow
  <2> HIDE DEF a, w, u
  <2>4. \A i \in 1..Len(u) : i \in 1..Len(a) \/ (i - Len(a) \in 1..Len(w) /\ Len(a) + (i - Len(a)) = i)
    BY <2>1
  <2>5. \A i \in 1..Len(a) : i \in 1..Len(u)
    BY <2>1
  <2>6. \A i \in 1..Len(w) : Len(a) + i \in 1..Len(u)
    BY <2>1
  <2>7. In(x, w) \/ In(x, a) => In(x, u)
    BY Zenon, <2>1, <2>5, <2>6 DEF In
  <2>8. ASSUME NEW i \in 1..Len(u), u[i] = x PROVE In(x, w) \/ In(x, a)
    <3>1. CASE i \in 1..Len(a)
      BY Zenon, <2>1, <2>8, <3>1 DEF In
    <3>2. CASE i \notin 1..Len(a)
      <4>1. PICK j \in 1..Len(w) : Len(a) + j = i
        BY Zenon, <2>4, <3>2
      <4> QED BY Zenon, <2>1, <2>8, <4>1 DEF In
    <3> QED BY Zenon, <3>1, <3>2
  <2> QED BY Zenon, <2>7, <2>8 DEF In
<1> QED BY Zenon, <1>1 DEF Underway, Placed, InBuf, InSub

\* The same for all messages.
LEMMA AllUnderwayPlaced == IInv => \A m \in Msg : Underway(m) <=> Placed(m)
BY Zenon, UnderwayPlaced

\* What is lost is what was accepted, is not printed and has no place.
LEMMA LostIs ==
  ASSUME IInv
  PROVE  Lost = {m \in accepted \ printed : ~Placed(m)}
<1>1. accepted \subseteq Msg
  BY Zenon DEF IInv, TypeOK
<1> QED BY Zenon, <1>1, UnderwayPlaced DEF Lost

\* However writes and reads are split and whoever fails, a message goes
\* through whole: none is lost without a fault and no subscriber puts one
\* together from units of several (tcp.hpp, connector.hpp, sub.cpp).
THEOREM MessagesGoWhole == Spec => []MessagesKept
<1>1. IInv => MessagesKept
  <2> SUFFICES ASSUME IInv PROVE MessagesKept
    BY Zenon
  <2>1. LossNeedsFault
    BY Zenon, LostIs DEF LossNeedsFault, IInv, LossInv
  <2>2. NeverGarbled
    <3> SUFFICES ASSUME NEW s \in Sub, In(Garbled, sq[s]) PROVE FALSE
      BY Zenon DEF NeverGarbled
    <3>1. PICK i \in 1..Len(sq[s]) : sq[s][i] = Garbled
      BY Zenon DEF In
    <3>2. sq[s] \in Seq(Msg) /\ Garbled \notin Msg
      BY Zenon, PipelineAssumption DEF IInv, MsgInv, Msg
    <3> QED BY <3>1, <3>2
  <2> QED BY Zenon, <2>1, <2>2 DEF MessagesKept, IInv
<1> QED BY <1>1, Invariance, PTL

\* Every step is one of Delivery, or changes nothing that it sees.
LEMMA DeliveryStep == IInv /\ IInv' /\ [Next]_vars => [D!Next]_(D!deliveryVars)
<1> SUFFICES ASSUME IInv, IInv', [Next]_vars PROVE [D!Next]_(D!deliveryVars)
  BY Zenon
<1>0. /\ accepted \subseteq Msg /\ printed \subseteq accepted
      /\ accepted' \subseteq Msg /\ printed' \subseteq accepted'
  BY Zenon DEF IInv, MsgInv, TypeOK
<1>1. Lost = {m \in accepted \ printed : ~Placed(m)}
  BY Zenon, LostIs
<1>2. Lost' = {m \in accepted' \ printed' : ~Placed(m)'}
  <2>1. \A m \in Msg : Underway(m)' <=> Placed(m)'
    <3>1. IInv' => (\A m \in Msg : Underway(m) <=> Placed(m))'
      BY AllUnderwayPlaced, PTL
    <3> QED BY Zenon, <3>1
  <2> QED BY Zenon, <1>0, <2>1 DEF Lost
<1>3. CASE \E n \in Msg : Accept(n)
  <2>1. PICK n \in Msg : Accept(n)
    BY Zenon, <1>3
  <2>2. /\ n \notin accepted /\ accepted' = accepted \cup {n}
        /\ printed' = printed /\ prints' = prints
    BY Zenon, <2>1, AcceptNext DEF Accept, subVars
  <2>3. \A m \in Msg : Placed(m)' <=> Placed(m) \/ m = n
    BY Zenon, <2>1, AcceptMoves
  <2>4. Lost' = Lost
    BY Zenon, <1>0, <1>1, <1>2, <2>2, <2>3
  <2>5. D!Accept("q", n)
    BY Zenon, <2>2, <2>4 DEF D!Accept
  <2> QED BY Zenon, <2>5 DEF D!Next
<1>4. CASE \E s \in Sub : PrintLine(s)
  <2>1. PICK s \in Sub : PrintLine(s)
    BY Zenon, <1>4
  <2>2. PICK h \in Msg : h = Head(sq[s]) /\ InSub(s, h)
    <3>1. Head(sq[s]) \in Msg
      <4>1. sq[s] \in Seq(Msg) /\ sq[s] # <<>>
        BY Zenon, <2>1 DEF IInv, MsgInv, PrintLine
      <4> QED BY <4>1
    <3> QED BY Zenon, <2>1, <3>1, PrintMoves
  <2>3. accepted' = accepted /\ printed' = printed \cup {h} /\ prints' = prints + 1
    BY Zenon, <2>1, <2>2 DEF PrintLine, pubVars
  <2>4. \A m \in Msg : Placed(m)' <=> Placed(m) /\ m # h
    BY Zenon, <2>1, <2>2, PrintMoves
  <2>5. Placed(h)
    BY Zenon, <2>2 DEF Placed
  <2>6. h \in accepted /\ h \notin printed /\ h \notin Lost
    BY Zenon, <1>1, <2>5, KeptFacts
  <2>7. Lost' = Lost
    BY Zenon, <1>0, <1>1, <1>2, <2>3, <2>4, <2>5
  <2>8. D!Send("q", h)
    BY Zenon, <2>3, <2>6, <2>7 DEF D!Send, D!Outstanding
  <2> QED BY Zenon, <2>8 DEF D!Next
<1>5. CASE accepted' = accepted /\ printed' = printed /\ prints' = prints
  <2> DEFINE L == [d \in {"q"} |-> Lost' \ Lost]
  <2>1. Lost \subseteq Lost'
    <3>1. \A m \in Msg : m \in accepted /\ Placed(m)' => Placed(m)
      BY Zenon, MovedStep DEF Moved
    <3> QED BY Zenon, <1>0, <1>1, <1>2, <1>5, <3>1
  <2>2. Lost' \subseteq accepted \ printed
    BY Zenon, <1>2, <1>5
  <2>3. L \in [{"q"} -> SUBSET (Msg \cup {Garbled})]
    BY Zenon, <1>0, <2>2
  <2>4. D!Lose(L)
    BY Zenon, <1>5, <2>1, <2>2 DEF D!Lose, D!Outstanding
  <2> HIDE DEF L
  <2> QED BY Zenon, <2>3, <2>4 DEF D!Next
<1> QED BY Zenon, <1>3, <1>4, <1>5, CountsStep

\* Publisher, network and subscribers together implement at-most-once
\* delivery: a message is printed at most once by all the subscribers of the
\* destination, and one that was lost is not printed later.
THEOREM PrintsAtMostOnce == Spec => PrintedAtMostOnce
<1>1. Init => D!Init
  <2> SUFFICES ASSUME Init PROVE D!Init
    BY Zenon
  <2>1. Lost = {}
    BY Zenon DEF Init, Lost
  <2> QED BY Zenon, <2>1 DEF Init, D!Init
<1> QED BY <1>1, DeliveryStep, Invariance, PTL DEF Spec, PrintedAtMostOnce, D!Spec
=============================================================================
