------------------------------ MODULE MCTools -------------------------------
(***************************************************************************)
(* A filter daemon and the recorder for TLC.  A behaviour is one of the    *)
(* program named by which; the other one stays as it begins.               *)
(***************************************************************************)
EXTENDS FilterDaemon, Recorder

VARIABLE which

toolVars == <<which, daemonVars, recVars>>

\* Bounds: lines pass through one instance, and not through a filter with an
\* extra source, which they have nothing to do with.
OneInstance == \A j, h \in Inst, g, k \in Gen : wrote[j][g] > 0 /\ wrote[h][k] > 0 => j = h
QuietExtra  == extra => wrote = ForAll(0)

Init ==
  /\ DaemonInit /\ RecInit
  /\ \/ which = "daemon" /\ ~useTtl
     \/ which = "recorder" /\ ~extra

Next ==
  /\ UNCHANGED which
  /\ \/ which = "daemon" /\ DaemonNext /\ OneInstance' /\ QuietExtra' /\ UNCHANGED recVars
     \/ which = "recorder" /\ RecNext /\ UNCHANGED daemonVars

Spec == Init /\ [][Next]_toolVars /\ DaemonFairness /\ RecFairness
=============================================================================
