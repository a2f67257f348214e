------------------------------- MODULE Stream -------------------------------
(***************************************************************************)
(* What a subscriber promises about the connections it serves: what it has *)
(* printed of a connection is always a prefix of what was sent on it.  It  *)
(* may stop at any point, and says nothing about the order in which the    *)
(* messages of different connections are printed.                          *)
(***************************************************************************)
EXTENDS Naturals, Sequences

CONSTANTS Conn,   \* connections
          Item    \* what is sent on them

VARIABLES stream,     \* stream[c]: everything sent on c
          delivered   \* delivered[c]: what was printed of it

streamVars == <<stream, delivered>>

Begins(s, t) == Len(s) <= Len(t) /\ s = SubSeq(t, 1, Len(s))

Init ==
  /\ stream = [c \in Conn |-> <<>>]
  /\ delivered = [c \in Conn |-> <<>>]

Send(c, x) ==
  /\ stream' = [stream EXCEPT ![c] = Append(@, x)]
  /\ UNCHANGED delivered

\* Any number of messages of any connections are printed at once.
Deliver ==
  /\ \A c \in Conn : /\ Begins(delivered[c], delivered'[c])
                     /\ Begins(delivered'[c], stream[c])
  /\ UNCHANGED stream

Next == Deliver \/ \E c \in Conn, x \in Item : Send(c, x)

Spec == Init /\ [][Next]_streamVars
=============================================================================
