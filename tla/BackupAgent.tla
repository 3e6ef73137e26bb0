---------------------------- MODULE BackupAgent ----------------------------
(***************************************************************************)
(* Backups: the requests of api/operations.py and the agent of             *)
(* deployment/backup_agent.py, which shares the background_job table with  *)
(* the worker but claims only its own kinds.                               *)
(*                                                                         *)
(* Unlike the worker the agent commits its claim before it works: a        *)
(* backup takes longer than a transaction should.  A record of a backup    *)
(* names its backup_create job as well; Checks are the backup_verify and   *)
(* backup_restore_test jobs, which differ only in the commands they run.   *)
(***************************************************************************)
EXTENDS Integers, FiniteSets

CONSTANTS
  Records,           \* BackupRecord rows
  Checks,            \* jobs that verify a backup or test its restore
  RecordOf,          \* RecordOf[c]: the record a check is requested for
  NoJob,             \* no job
  MaxAttempts,       \* BackgroundJob.max_attempts
  MaxRecordVersion,  \* bound: highest version of a record
  MaxCrashes         \* bound: agent deaths and lost database connections

Jobs == Records \cup Checks

ASSUME AgentAssumption ==
  /\ Records \cap Checks = {}
  /\ RecordOf \in [Checks -> Records]
  /\ NoJob \notin Jobs
  /\ MaxAttempts \in Nat \ {0}
  /\ MaxRecordVersion \in Nat
  /\ MaxCrashes \in Nat

VARIABLES
  record,    \* BackupRecord.state, "absent" before the row exists
  version,   \* BackupRecord.version
  job,       \* BackgroundJob.state, "absent" before the row exists
  attempts,  \* BackgroundJob.attempts
  backoff,   \* jobs whose available_at lies in the future
  agent,     \* the job the agent works on
  step,      \* "idle", "claimed", "started" or "backed_up"
  fresh,     \* records with a backup in the repository newer than themselves
  backups,   \* history: full backups taken
  crashes    \* history: losses of the agent

tables    == <<record, version, job, attempts, backoff>>
agentVars == <<tables, agent, step, fresh, backups, crashes>>

AgentInit ==
  /\ record = [r \in Records |-> "absent"]
  /\ version = [r \in Records |-> 1]
  /\ job = [j \in Jobs |-> "absent"]
  /\ attempts = [j \in Jobs |-> 0]
  /\ backoff = {}
  /\ agent = NoJob
  /\ step = "idle"
  /\ fresh = {}
  /\ backups = 0
  /\ crashes = 0

Target(j) == IF j \in Records THEN j ELSE RecordOf[j]

-----------------------------------------------------------------------------
\* POST /operations/backups: the record and its job in one transaction; the
\* job id is derived from the idempotency key, so a repeat finds the job.
RequestBackup(r) ==
  /\ job[r] = "absent"
  /\ record' = [record EXCEPT ![r] = "queued"]
  /\ job' = [job EXCEPT ![r] = "queued"]
  /\ UNCHANGED <<version, attempts, backoff, agent, step, fresh, backups, crashes>>

\* POST /operations/backups/{id}/verify and /restore-test on version v; a
\* record locked by a check in progress makes the request wait.
RequestCheck(c, v) ==
  /\ job[c] = "absent"
  /\ record[RecordOf[c]] = "completed"
  /\ version[RecordOf[c]] = v
  /\ ~(agent \in Checks /\ Target(agent) = RecordOf[c])
  /\ job' = [job EXCEPT ![c] = "queued"]
  /\ UNCHANGED <<record, version, attempts, backoff, agent, step, fresh, backups, crashes>>

BackoffEnds(j) ==
  /\ j \in backoff
  /\ backoff' = backoff \ {j}
  /\ UNCHANGED <<record, version, job, attempts, agent, step, fresh, backups, crashes>>

-----------------------------------------------------------------------------
\* claim(): its own transaction.
Claim(j) ==
  /\ step = "idle"
  /\ job[j] = "queued" /\ j \notin backoff
  /\ job' = [job EXCEPT ![j] = "running"]
  /\ attempts' = [attempts EXCEPT ![j] = @ + 1]
  /\ agent' = j
  /\ step' = "claimed"
  /\ UNCHANGED <<record, version, backoff, fresh, backups, crashes>>

\* create_backup commits the record as running before it calls pgbackrest.
MarkRunning ==
  /\ step = "claimed" /\ agent \in Records
  /\ record' = [record EXCEPT ![agent] = "running"]
  /\ step' = "started"
  /\ UNCHANGED <<version, job, attempts, backoff, agent, fresh, backups, crashes>>

\* Mutant: every attempt takes a new full backup.
TakeBackupAlways ==
  /\ step = "started"
  /\ backups' = backups + 1
  /\ fresh' = fresh \cup {r \in Records : record[r] # "absent"}
  /\ step' = "backed_up"
  /\ UNCHANGED <<tables, agent, crashes>>

\* A backup started since the record was requested, by an earlier attempt or
\* for another record, is reused; otherwise a full backup is taken, which is
\* then newer than every record there is.
TakeBackup ==
  /\ step = "started"
  /\ IF agent \in fresh
     THEN UNCHANGED <<backups, fresh>>
     ELSE /\ backups' = backups + 1
          /\ fresh' = fresh \cup {r \in Records : record[r] # "absent"}
  /\ step' = "backed_up"
  /\ UNCHANGED <<tables, agent, crashes>>

\* The work is done: record and job are completed in one transaction.  A
\* check finds the backup of its record in the repository.
Complete ==
  /\ \/ step = "backed_up"
     \/ step = "claimed" /\ agent \in Checks /\ Target(agent) \in fresh
  /\ version[Target(agent)] < MaxRecordVersion
  /\ record' = [record EXCEPT ![Target(agent)] = "completed"]
  /\ version' = [version EXCEPT ![Target(agent)] = @ + 1]
  /\ job' = [job EXCEPT ![agent] = "completed"]
  /\ agent' = NoJob
  /\ step' = "idle"
  /\ UNCHANGED <<attempts, backoff, fresh, backups, crashes>>

\* Mutant: a failed check also overwrites the state of the record.
FailedRecordOfAnyJob(j, s) == s

\* Only the job that creates a backup carries its failure to the record.
FailedRecord(j, s) == IF j \in Records THEN s ELSE record[Target(j)]

\* Mutant: a job is never given up.
AfterFailureForever(j) == IF j \in Jobs THEN "queued" ELSE "failed"

AfterFailure(j) == IF attempts[j] >= MaxAttempts THEN "failed" ELSE "queued"

\* Any exception of the work: its transaction is rolled back and fail()
\* requeues or gives up the job, in one more transaction.
Fail ==
  /\ step # "idle"
  /\ version[Target(agent)] < MaxRecordVersion
  /\ job' = [job EXCEPT ![agent] = AfterFailure(agent)]
  /\ backoff' = IF AfterFailure(agent) = "queued" THEN backoff \cup {agent} ELSE backoff
  /\ record' = [record EXCEPT ![Target(agent)] = FailedRecord(agent, AfterFailure(agent))]
  /\ version' = [version EXCEPT ![Target(agent)] = @ + 1]
  /\ agent' = NoJob
  /\ step' = "idle"
  /\ UNCHANGED <<attempts, fresh, backups, crashes>>

\* The agent dies, or loses the database so that fail() fails too.  Its loop
\* starts again with claim(), which looks for queued jobs only.
Crash ==
  /\ step # "idle"
  /\ crashes < MaxCrashes
  /\ crashes' = crashes + 1
  /\ agent' = NoJob
  /\ step' = "idle"
  /\ UNCHANGED <<tables, fresh, backups>>

Work == (\E j \in Jobs : Claim(j)) \/ MarkRunning \/ TakeBackup \/ Complete \/ Fail

AgentNext ==
  \/ \E r \in Records : RequestBackup(r)
  \/ \E c \in Checks, v \in 1..MaxRecordVersion : RequestCheck(c, v)
  \/ \E j \in Jobs : BackoffEnds(j)
  \/ Work
  \/ Crash

AgentSpec == AgentInit /\ [][AgentNext]_agentVars

\* The agent polls without end, its commands have timeouts and docker
\* restarts it; a due date arrives.
AgentFairSpec ==
  AgentSpec /\ WF_agentVars(Work) /\ \A j \in Jobs : WF_agentVars(BackoffEnds(j))

-----------------------------------------------------------------------------
(***************************************************************************)
(* Properties                                                              *)
(***************************************************************************)

\* A record ends as the job that creates its backup ends, and no later check
\* of the backup, failed or not, takes that back.
RecordEndsWithItsJob ==
  \A r \in Records : \A s \in {"completed", "failed"} : record[r] = s <=> job[r] = s

\* Retries after failures never add a backup: there is at most one full
\* backup for each requested record, and a completed record has one.
BackupsNotRepeated ==
  /\ backups <= Cardinality({r \in Records : record[r] # "absent"})
  /\ \A r \in Records : record[r] = "completed" => r \in fresh

\* Every requested job ends completed or given up, unless it is lost with the
\* agent that has claimed it: claim() takes up no running job.
JobsSettle ==
  \A j \in Jobs : job[j] = "queued" ~>
    \/ job[j] \in {"completed", "failed"}
    \/ job[j] = "running" /\ agent # j
=============================================================================
