---------------------------- MODULE MCPublisher -----------------------------
(* Instances of Publisher for TLC. *)
EXTENDS Publisher, TLC

CONSTANTS a1, a2, q1, q2, t1, t2

\* Two subscribers of one queue share its messages.
QueueDestOf == (a1 :> q1) @@ (a2 :> q1)

\* One subscriber.
OneDestOf == a1 :> q1

\* Two topic subscribers: each has a destination of its own.
TopicDestOf == (a1 :> q1) @@ (a2 :> q2)

ThreadSymmetry == Permutations(Thread)
=============================================================================
