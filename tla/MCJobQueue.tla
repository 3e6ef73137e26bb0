----------------------------- MODULE MCJobQueue -----------------------------
(***************************************************************************)
(* Instance for TLC: the event of a corrected turn, whose job enqueues     *)
(* another when it succeeds, a job enqueued by a request and the hourly    *)
(* purge.                                                                  *)
(***************************************************************************)
EXTENDS JobQueue

CONSTANTS corrected, reprocess, reindex

MCJobsOf  == [e \in Events |-> IF e = corrected THEN {reprocess} ELSE {}]
MCFollows == [j \in Jobs |-> IF j = reprocess THEN {reindex} ELSE {}]
=============================================================================
