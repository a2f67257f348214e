----------------------------- MODULE MCPipeline -----------------------------
(* Instance of Pipeline for TLC. *)
EXTENDS Pipeline, TLC

CONSTANTS s1, s2, c1, c2

PipelineSymmetry == Permutations(Sub) \cup Permutations(Conn)
=============================================================================
