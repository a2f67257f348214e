---------------------------- MODULE MCSubscriber ----------------------------
(* Instances of Subscriber for TLC. *)
EXTENDS Subscriber, TLC

CONSTANTS c1, c2

ConnSymmetry == Permutations(Conn)
=============================================================================
