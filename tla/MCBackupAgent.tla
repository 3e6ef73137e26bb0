--------------------------- MODULE MCBackupAgent ---------------------------
(***************************************************************************)
(* Instances for TLC: two backups, one check of the first and one of the   *)
(* second.                                                                 *)
(***************************************************************************)
EXTENDS BackupAgent, TLC

CONSTANTS r1, r2, c1, c2

CheckTargets == (c1 :> r1) @@ (c2 :> r2)
MCRecordOf   == [c \in Checks |-> CheckTargets[c]]
=============================================================================
