------------------------------ MODULE Exports ------------------------------
(***************************************************************************)
(* Exports: backend/src/kajovodagmar/files/service.py, the two jobs of     *)
(* worker.py that call it and the download of api/exports.py.              *)
(*                                                                         *)
(* A record lives in the database, its file does not: the file is written  *)
(* and removed at once, the record changes when the iteration of the       *)
(* worker commits (see JobQueue).  pend holds the changes of an open       *)
(* iteration; a row it has written is locked until the iteration ends.     *)
(***************************************************************************)
EXTENDS Integers, FiniteSets

CONSTANTS
  Ids,                \* exports
  Workers,            \* worker processes
  Null,               \* no file, digest or pending row
  MaxData,            \* bound: versions of the data that is exported
  MaxExportAttempts,  \* BackgroundJob.max_attempts
  MaxRollbacks        \* bound: iterations that are rolled back

\* The columns of a record: state, whether file_path is set, file_digest.
ExportRows ==
  [state : {"absent", "queued", "completed", "expired"}, path : BOOLEAN, digest : Nat \cup {Null}]

ASSUME ExportAssumption ==
  /\ MaxData \in Nat \ {0} /\ MaxExportAttempts \in Nat \ {0} /\ MaxRollbacks \in Nat
  /\ Null \notin Ids \cup Int \cup ExportRows

VARIABLES
  row,             \* committed records
  expired,         \* exports whose expires_at has passed
  exportJob,       \* state of the job export_generate
  exportAttempts,  \* its attempts
  file,            \* content of the export's file
  data,            \* version of the exported data
  pend,            \* pend[w][e]: the row as the open iteration of w has written it
  result,          \* result[w][e]: how the job ended in it
  purging,         \* purging[w]: records the running purge_expired has read
  known,           \* known[w]: those of them that had a file_path
  download,        \* the export whose file is being sent
  rollbacks,       \* history: iterations rolled back
  orphaned,        \* history: files whose iteration was rolled back
  raced            \* history: records completed while a purge was expiring them

records    == <<row, expired, exportJob, exportAttempts>>
open       == <<pend, result, purging, known>>
history    == <<rollbacks, orphaned, raced>>
exportVars == <<records, file, data, open, download, history>>

Row(state, path, digest) == [state |-> state, path |-> path, digest |-> digest]

ExportInit ==
  /\ row = [e \in Ids |-> Row("absent", FALSE, Null)]
  /\ expired = {}
  /\ exportJob = [e \in Ids |-> "absent"] /\ exportAttempts = [e \in Ids |-> 0]
  /\ file = [e \in Ids |-> Null]
  /\ data = 1
  /\ pend = [w \in Workers |-> [e \in Ids |-> Null]]
  /\ result = [w \in Workers |-> [e \in Ids |-> "none"]]
  /\ purging = [w \in Workers |-> {}] /\ known = [w \in Workers |-> {}]
  /\ download = Null
  /\ rollbacks = 0 /\ orphaned = {} /\ raced = {}

\* A row as the transaction of w sees it.
View(w, e) == IF pend[w][e] # Null THEN pend[w][e] ELSE row[e]

Unlocked(w, e) == \A v \in Workers \ {w} : pend[v][e] = Null

\* The worker runs one handler after the other.
BetweenJobs(w) == purging[w] = {}

-----------------------------------------------------------------------------
(***************************************************************************)
(* The web process and the world                                           *)
(***************************************************************************)

\* request: the record and its job are one transaction.
Request(e) ==
  /\ row[e].state = "absent"
  /\ row' = [row EXCEPT ![e].state = "queued"]
  /\ exportJob' = [exportJob EXCEPT ![e] = "queued"]
  /\ UNCHANGED <<expired, exportAttempts, file, data, open, download, history>>

\* download_export checks the record, the file is sent afterwards.
DownloadBegin(e) ==
  /\ download = Null
  /\ row[e].state = "completed" /\ row[e].path /\ e \notin expired
  /\ file[e] # Null
  /\ download' = e
  /\ UNCHANGED <<records, file, data, open, history>>

DownloadEnd ==
  /\ download # Null
  /\ download' = Null
  /\ UNCHANGED <<records, file, data, open, history>>

DataChange ==
  /\ data < MaxData
  /\ data' = data + 1
  /\ UNCHANGED <<records, file, open, download, history>>

Expire(e) ==
  /\ row[e].state # "absent" /\ e \notin expired
  /\ expired' = expired \cup {e}
  /\ UNCHANGED <<row, exportJob, exportAttempts, file, data, open, download, history>>

-----------------------------------------------------------------------------
(***************************************************************************)
(* export_generate                                                         *)
(***************************************************************************)

\* The job is claimed by one iteration at a time.
Claimable(w, e) ==
  /\ BetweenJobs(w)
  /\ exportJob[e] = "queued"
  /\ \A v \in Workers : result[v][e] = "none"

\* Mutant: a record whose time is over is generated all the same.
TooLateNever(e) == FALSE

TooLate(e) == e \in expired

\* Mutant: an existing file is not written again.
WrittenOnce(e) == IF file[e] = Null THEN data ELSE file[e]

\* The file is written beside its target and moved over it.
Written(e) == data

\* generate: a completed record is left alone, one whose time is over is
\* expired, otherwise the file is written and the record completed.
Generate(w, e) ==
  /\ Claimable(w, e) /\ Unlocked(w, e)
  /\ result' = [result EXCEPT ![w][e] = "completed"]
  /\ LET r == View(w, e) IN
     IF r.state = "completed" \/ TooLate(e)
       THEN /\ pend' = [pend EXCEPT ![w][e] =
                          IF r.state = "completed" THEN r ELSE [r EXCEPT !.state = "expired"]]
            /\ UNCHANGED <<file, orphaned>>
       ELSE /\ pend' = [pend EXCEPT ![w][e] = Row("completed", TRUE, data)]
            /\ file' = [file EXCEPT ![e] = Written(e)]
            /\ orphaned' = orphaned \ {e}
  /\ UNCHANGED <<records, data, purging, known, download, rollbacks, raced>>

\* The handler raises before the file is in place; its savepoint is undone.
GenerateFails(w, e) ==
  /\ Claimable(w, e) /\ Unlocked(w, e)
  /\ result' = [result EXCEPT ![w][e] = "failed"]
  /\ UNCHANGED <<records, file, data, pend, purging, known, download, history>>

-----------------------------------------------------------------------------
(***************************************************************************)
(* purge_expired                                                           *)
(***************************************************************************)

\* Mutant: only finished exports are purged.
PurgedCompleted == {"completed", "failed"}

Purged == {"queued", "running", "completed", "failed"}

\* Mutant: the files stay.
RemainingAll(S) == file

\* The files of the records S are removed.
Remaining(S) == [e \in Ids |-> IF e \in S THEN Null ELSE file[e]]

\* The records are read without a lock, their files removed at once.
PurgeRead(w) ==
  LET S == {e \in expired : View(w, e).state \in Purged} IN
  /\ BetweenJobs(w) /\ S # {}
  /\ purging' = [purging EXCEPT ![w] = S]
  /\ known' = [known EXCEPT ![w] = {e \in S : View(w, e).path}]
  /\ file' = Remaining(known'[w])
  /\ UNCHANGED <<records, data, pend, result, download, history>>

\* The update waits for the locks and changes the columns the purge has
\* changed: a file_path it had read as null stays as it is.
PurgeWrite(w) ==
  /\ purging[w] # {}
  /\ \A e \in purging[w] : Unlocked(w, e)
  /\ pend' = [pend EXCEPT ![w] = [e \in Ids |->
       IF e \notin purging[w] THEN pend[w][e]
       ELSE [View(w, e) EXCEPT !.state = "expired", !.path = @ /\ e \notin known[w]]]]
  /\ raced' = raced \cup {e \in purging[w] \ known[w] : View(w, e).path}
  /\ purging' = [purging EXCEPT ![w] = {}]
  /\ known' = [known EXCEPT ![w] = {}]
  /\ UNCHANGED <<records, file, data, result, download, rollbacks, orphaned>>

\* The purges of two iterations that each wait for a row the other has
\* written: PostgreSQL aborts one, its savepoint is undone, the files it has
\* removed stay removed and the next purge finds the records again.
PurgeAborted(w) ==
  /\ \E v \in Workers \ {w} :
       /\ \E e \in purging[w] : pend[v][e] # Null
       /\ \E e \in purging[v] : pend[w][e] # Null
  /\ purging' = [purging EXCEPT ![w] = {}]
  /\ known' = [known EXCEPT ![w] = {}]
  /\ UNCHANGED <<records, file, data, pend, result, download, history>>

-----------------------------------------------------------------------------
(***************************************************************************)
(* The end of an iteration                                                 *)
(***************************************************************************)

Closed(w) ==
  /\ pend' = [pend EXCEPT ![w] = [e \in Ids |-> Null]]
  /\ result' = [result EXCEPT ![w] = [e \in Ids |-> "none"]]

CommitIteration(w) ==
  /\ BetweenJobs(w)
  /\ \E e \in Ids : pend[w][e] # Null \/ result[w][e] # "none"
  /\ row' = [e \in Ids |-> View(w, e)]
  /\ exportAttempts' = [e \in Ids |-> exportAttempts[e] + IF result[w][e] = "none" THEN 0 ELSE 1]
  /\ exportJob' = [e \in Ids |->
       CASE result[w][e] = "none" -> exportJob[e]
         [] result[w][e] = "completed" -> "completed"
         [] OTHER -> IF exportAttempts'[e] >= MaxExportAttempts THEN "failed" ELSE "queued"]
  /\ Closed(w)
  /\ UNCHANGED <<expired, file, data, purging, known, download, history>>

\* The process dies or the transaction cannot be committed: files that were
\* written or removed stay so.
RollbackIteration(w) ==
  /\ rollbacks < MaxRollbacks
  /\ purging[w] # {} \/ \E e \in Ids : result[w][e] # "none" \/ pend[w][e] # Null
  /\ rollbacks' = rollbacks + 1
  /\ orphaned' = orphaned \cup {e \in Ids : /\ pend[w][e] # Null
                                            /\ pend[w][e].path /\ ~row[e].path}
  /\ purging' = [purging EXCEPT ![w] = {}]
  /\ known' = [known EXCEPT ![w] = {}]
  /\ Closed(w)
  /\ UNCHANGED <<records, file, data, download, raced>>

ExportNext ==
  \/ \E e \in Ids : Request(e)
  \/ \E e \in Ids : DownloadBegin(e)
  \/ DownloadEnd
  \/ DataChange
  \/ \E e \in Ids : Expire(e)
  \/ \E w \in Workers, e \in Ids : Generate(w, e)
  \/ \E w \in Workers, e \in Ids : GenerateFails(w, e)
  \/ \E w \in Workers : PurgeRead(w)
  \/ \E w \in Workers : PurgeWrite(w)
  \/ \E w \in Workers : PurgeAborted(w)
  \/ \E w \in Workers : CommitIteration(w)
  \/ \E w \in Workers : RollbackIteration(w)

ExportSpec == ExportInit /\ [][ExportNext]_exportVars

\* Time passes, every hour the maintenance runs, and an iteration, which has
\* at most ten jobs, ends.
ExportFairness ==
  /\ \A e \in Ids : WF_exportVars(Expire(e))
  /\ \A w \in Workers :
       /\ WF_exportVars(PurgeRead(w)) /\ WF_exportVars(PurgeWrite(w))
       /\ WF_exportVars(PurgeAborted(w)) /\ SF_exportVars(CommitIteration(w))

ExportFairSpec == ExportSpec /\ ExportFairness

-----------------------------------------------------------------------------
(***************************************************************************)
(* Properties                                                              *)
(***************************************************************************)

\* What can be downloaded is what the digest of the record was computed
\* from: generate writes the file of a retried job anew.  A download that has
\* begun sends that content or, once the export has expired, nothing.
DownloadMatchesDigest ==
  \A e \in Ids :
    /\ row[e].state = "completed" /\ e \notin expired => file[e] = row[e].digest
    /\ download = e => file[e] \in {row[e].digest, Null}

\* An expired export never comes back, although its job may be tried after
\* purge_expired, or be open while it runs.
ExpiredIsFinal ==
  [][\A e \in Ids : row[e].state = "expired" => row'[e].state = "expired"]_exportVars

\* The request of an export ends: it is completed or, when its job was given
\* up, expired by the next purge after its day is over.
RequestSettles ==
  \A e \in Ids : (row[e].state = "queued") ~> (row[e].state \in {"completed", "expired"})

\* No file outlives its export, with two exceptions: one whose iteration was
\* rolled back after it was written, and one whose iteration commits while
\* another worker's purge, which read the record before, waits for it.
FilesAreRemoved ==
  \A e \in Ids : (file[e] # Null) ~> (file[e] = Null \/ e \in orphaned \cup raced)
=============================================================================
