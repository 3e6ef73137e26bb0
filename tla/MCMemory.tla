------------------------------ MODULE MCMemory ------------------------------
(***************************************************************************)
(* Instances of Memory for TLC.                                            *)
(***************************************************************************)
EXTENDS Memory, TLC

Symmetry == Permutations(Requests) \cup Permutations(Items) \cup Permutations(Texts)
=============================================================================
