------------------------------ MODULE Delivery ------------------------------
(***************************************************************************)
(* What a publisher promises about one message and one destination: the    *)
(* message is accepted at most once, and an accepted message is sent at    *)
(* most once.  It may instead be lost (the promise is at most once, not    *)
(* exactly once), but a message that was lost is not sent later and one    *)
(* that was sent is not lost later.                                        *)
(***************************************************************************)
EXTENDS Naturals

CONSTANTS Dest,   \* destinations: one message queue each
          Msg     \* message identities

VARIABLES accepted,  \* accepted[d]: messages the queue of d has taken
          sent,      \* sent[d]: messages written to a subscriber of d
          writes,    \* how often any message was written to any subscriber
          lost       \* lost[d]: accepted messages that will never be sent

deliveryVars == <<accepted, sent, writes, lost>>

Init ==
  /\ accepted = [d \in Dest |-> {}]
  /\ sent     = [d \in Dest |-> {}]
  /\ writes   = 0
  /\ lost     = [d \in Dest |-> {}]

Outstanding(d) == accepted[d] \ (sent[d] \cup lost[d])

Accept(d, m) ==
  /\ m \notin accepted[d]
  /\ accepted' = [accepted EXCEPT ![d] = @ \cup {m}]
  /\ UNCHANGED <<sent, writes, lost>>

Send(d, m) ==
  /\ m \in Outstanding(d)
  /\ sent' = [sent EXCEPT ![d] = @ \cup {m}]
  /\ writes' = writes + 1
  /\ UNCHANGED <<accepted, lost>>

\* One or more outstanding messages, of any destinations, are given up.
Lose(L) ==
  /\ \A d \in Dest : L[d] \subseteq Outstanding(d)
  /\ lost' = [d \in Dest |-> lost[d] \cup L[d]]
  /\ UNCHANGED <<accepted, sent, writes>>

Next ==
  \/ \E d \in Dest, m \in Msg : Accept(d, m) \/ Send(d, m)
  \/ \E L \in [Dest -> SUBSET Msg] : Lose(L)

Spec == Init /\ [][Next]_deliveryVars
=============================================================================
