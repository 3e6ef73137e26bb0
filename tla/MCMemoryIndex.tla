--------------------------- MODULE MCMemoryIndex ---------------------------
(***************************************************************************)
(* Instances of MemoryIndex for TLC: the documents of two items have       *)
(* nothing in common but the worker.                                       *)
(***************************************************************************)
EXTENDS MemoryIndex
=============================================================================
