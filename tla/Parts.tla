-------------------------------- MODULE Parts -------------------------------
(***************************************************************************)
(* What Locks and References have in common: the threads of a process, and *)
(* the part of the library that they use in a behaviour.                   *)
(***************************************************************************)
CONSTANT Threads
VARIABLES which, pc
=============================================================================
