-------------------------- MODULE MCConfiguration --------------------------
(***************************************************************************)
(* Instances of Configuration for TLC.                                     *)
(***************************************************************************)
EXTENDS Configuration, TLC

Symmetry == Permutations(Requests) \cup Permutations(Models)
=============================================================================
