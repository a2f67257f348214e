----------------------------- MODULE MCMetaDir ------------------------------
(* Instances of MetaDir for TLC. *)
EXTENDS MetaDir, TLC

CONSTANTS s1, s2

SubSymmetry == Permutations(Sub)
=============================================================================
