----------------------------- MODULE MCMetrics ------------------------------
(* Instance of Metrics for TLC. *)
EXTENDS Metrics

CONSTANT enq

OneEnqueue == <<enq>>

\* Bound: one report is given to another branch.
OneElsewhere == other + elsewhere <= 1

MCNext == Next /\ OneElsewhere'
MCSpec == Init /\ [][MCNext]_vars
=============================================================================
