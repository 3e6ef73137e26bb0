----------------------------- MODULE MCIdentity -----------------------------
(***************************************************************************)
(* Instances of Identity for TLC.                                          *)
(***************************************************************************)
EXTENDS Identity, TLC

Symmetry == Permutations(Requests) \cup Permutations(Passwords) \cup Permutations(Addresses)
=============================================================================
