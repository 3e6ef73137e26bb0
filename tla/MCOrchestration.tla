-------------------------- MODULE MCOrchestration --------------------------
(***************************************************************************)
(* Instances for TLC: a call that creates (no target), one that changes an *)
(* object under a version check, and history_continue, which reads the     *)
(* version of its target but does not check it.                            *)
(***************************************************************************)
EXTENDS Orchestration, TLC

CONSTANTS create, update, continue, item

MCTargets == [c \in Calls |-> IF c = create THEN {} ELSE {item}]

Symmetry == Permutations(Requests) \cup Permutations(Answers)
=============================================================================
