--------------------------- MODULE MCConversation ---------------------------
(***************************************************************************)
(* Instances of Conversation for TLC.                                      *)
(***************************************************************************)
EXTENDS Conversation, TLC

Symmetry == Permutations(Requests) \cup Permutations(Keys)
=============================================================================
