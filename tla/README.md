# KájovoDagmar: TLA+ specifications

KájovoDagmar is a voice assistant for a single administrator. A FastAPI web
process, one worker process and a backup agent share a PostgreSQL database,
which holds all authoritative state. This directory models the parts of the
backend in which several transactions, processes and failures meet, checks
them with TLC on small instances, and proves their safety properties with TLAPS
for every instance.

## The system

| Part | State | Operations | Interacts with |
|---|---|---|---|
| Orchestration (`orchestration/service.py`) | one run per user message, its attempts and decision, the actions it proposes | `answer`, `confirm_action`, `cancel_run` | conversations (stores the answer), memory and history (executes confirmed actions), providers |
| Jobs and outbox (`jobs/service.py`, `worker.py`) | `background_job`, `outbox_event`, the in-memory hour of a worker | enqueue, dispatch, claim, complete, fail, hourly maintenance | every use case that emits an event |
| Long-term memory (`memory/service.py`) | items, their versions, merge links, retention | create, confirm, update, delete, restore, merge, purge | orchestration, index |
| Conversations and history (`conversations/service.py`, `history/service.py`) | the conversation row, messages, corrections, title and summary, retention | start, user and assistant turn, correct, end, metadata, delete, restore, continue, purge | orchestration, realtime, outbox |
| Search index (`worker.py`, `search/service.py`) | one document and embedding per item or conversation | the index jobs, reindex, hybrid search | memory, conversations |
| Backups (`deployment/backup_agent.py`, `api/operations.py`) | backup records and their jobs | request, claim, back up, verify, restore test, complete, fail | pgbackrest, the job table |
| Realtime session (`realtime/`) | a `ConnectionState` per session in the memory of the web process: connection, generation, audio buffer, detector, running tasks; the suspended sessions | start, resume, pause, frames, turns, interrupt, end, expiry | conversations, orchestration, speech providers |
| Identity (`identity/service.py`, `security/`, `realtime/tickets.py`) | account, credential, sessions, security tokens, login counter | initialise, log in, log out, revoke, change, reset and synchronise the password, change the e-mail, issue and use tickets | notifications, audit, jobs |
| Audit log (`audit/service.py`) | events linked by their hashes | `append`, `verify_chain` | every use case |
| Providers and settings (`providers/`, `settings/service.py`) | the configuration row, its encrypted keys, the model catalog, settings with revisions | save, verify, revoke, recommended models, update, restore | the index jobs, every use of a model |
| Exports (`files/service.py`) | records, and files outside of the database | request, generate, download, purge | jobs |
| Notifications (`notifications/service.py`) | the SMTP configuration, deliveries | save, test, delete, send | identity, jobs |
| Web client (`web/src`) | UI state, the voice client's protocol state | | realtime session |

Each request and each worker iteration is one database transaction
(`db/session.py`). It is committed at the end, rolled back on an exception, and
committed in spite of it when the exception is marked `durable`. What is hard:

* long transactions with calls of a model inside, held together by row locks
  (`SELECT ... FOR UPDATE`), and checks that are made without a lock;
* errors that commit what was done before them;
* retries: of a user turn under its idempotency key, of a run, of a job after
  its failure, and of a job whose process has died;
* a confirmation given for a preview that is minutes old;
* derived data (title, summary, index) that follows by events and jobs;
* state that no transaction protects: files of exports, and the voice sessions,
  whose handlers, tasks and timers share objects on one event loop and lose
  them with the process;
* locks taken in an order that only the ORM knows: rows changed through objects
  are written at the flush, after the advisory lock of the audit chain;
* legal sequences of use cases, such as delete and restore, that lead to
  states no use case alone would produce.

`PROJECT.json` lists each hazard with its line in the code and the properties
that cover it, and the source lines of every definition.

## Modules

| Module | Models | Variables and actions |
|---|---|---|
| `ConfirmedEffects` | what confirmations promise | an action is offered, done or withdrawn; done at most once and on the versions shown |
| `Orchestration` | `orchestration/service.py` | committed tables `run`, `attempts`, `decision`, `response`, the assistant's `messages`, `action`, `version`; open transactions `op`, `onRun`, `proposed`, `confirming`; `AnswerBegin/Propose/Commit/Fail`, `ConfirmBegin/Expired/Succeed/Fail`, `CancelRun`, `Rollback`, and the environment `EditObject`, `DeadlinePasses` |
| `JobQueue` | `jobs/service.py`, `Worker.run`, `dispatch_outbox` | tables `events`, `job`, `attempts`, `backoff`; how often each job was `inserted` and `started`; the open iteration of a worker; `Begin`, `Start`, `Succeed`, `Fail`, `Commit`, `Crash` |
| `Memory` | `memory/service.py`, purge | `state`, `text`, `version`, `log`, `into`, `overdue`; open checks in `work` |
| `MemoryIndex` | extends `Memory` by its outbox requests, `memory_index` and the purge of documents | `requests`, `lost`, `doc`, `reading` |
| `Conversation` | `conversations/service.py`, `history/service.py`, `conversation_finalize`, `conversation_index`, purge | one conversation: its row, `messages`, `outbox`, `open` transactions, `jobs`, `doc` |
| `BackupAgent` | `backup_agent.py`, the backup requests | `record`, `job`, the agent's `step` |
| `Identity` | `identity/service.py`, sessions, links, tickets, `audit/service.py` | the columns of account, credential and profile, `sess`, `token`; `tx[q]`: what a request has open, with its row locks and the place of its audit event; `LoginBegin/Refused/Commit`, `DenyBegin`, `RequestBegin`, `Revoke`, `Change`, `Email`, `Ticket`, `UseBegin`, their commits, `Synchronize`, `Abort` |
| `Realtime` | `websocket.py` without audio | per socket `loop`, `link`, `obj`, `resumable`; per object `conv`, `connected`, `task`, `timer`; `suspended`; the rows `db`; `ConnectFresh/Dropping/Resumed`, `Accept`, `StartSession`, `StartFails`, the other messages, `Disconnect`, `TimerFires`, `ExpireEnds/Fails`, `Crash` |
| `VoiceInput` | the audio of one session and `vad.py` | buffer, detector, partial and assistant task, `finalizing`; `Frame`, `FrameOverflows`, `FrameGap`, `AudioEnd`, tasks, pause, end, disconnect, resume |
| `Configuration` | `providers/`, `settings/service.py`, the model part of the index jobs, `search_reindex_all` | `provider`, `live`, `catalog`, `setting`, `revisions`, `docs`, `tx[r]`, `index`; `SaveBegin`, `VerifyBegin`, `CatalogAnswers/Fails`, `ApplyRecommended`, `RevokeBegin`, `UpdateBegin`, `RestoreBegin`, `MarkStale`, `Commit`, the jobs |
| `Exports` | `files/service.py`, its jobs and the download | `row`, `exportJob`, `file`, the open iterations `pend`, `result`, `purging`; `Request`, `Generate`, `PurgeRead/Write/Aborted`, `CommitIteration`, `RollbackIteration` |
| `OrchestrationProofs`, `JobQueueProofs`, `MemoryIndexProofs` (also `Memory`), `ConversationProofs`, `IdentityProofs`, `RealtimeProofs`, `VoiceInputProofs`, `AdministrationProofs` (`Configuration`, `BackupAgent`, `Exports`) | inductive invariants and theorems, see Proofs | |
| `MC*` | instances for TLC | symmetry sets and functions over model values |

Abstractions. Texts, decisions and payloads are members of small sets or only
version numbers. The model call, the context and the read-only tools of an
answer are one choice: which calls are proposed, which answer, or a failure. A
use case that touches only the row it has locked is one step; one that checks
other rows before it commits, or calls a provider, is two. A request with an
outdated `expected_version` changes nothing and is not a step. Unique keys are
guards of the commit: a transaction that meets one can only roll back. In
`Orchestration` an action row is named by what its idempotency key is computed
from (run, position, call and the versions in its arguments).

`Identity` and `Configuration` keep a request's transaction as a record with the
rows it has locked; others wait for them (`Free`). In `Identity` a circle of
waiting requests is left by `Abort`, as PostgreSQL's deadlock detector leaves it.
In `Configuration` there is none: provider, setting and documents are locked in
this order. `Realtime` and
`VoiceInput` model the same handler from two sides, who serves a session and what
it hears, because their product is too large for TLC and they share only the
assistant task and the moments of disconnecting and resuming. In `Exports` an
iteration of the worker is reduced to the rows and files it touches; claims and
retries are those of `JobQueue`.

Definitions that begin with the comment `Mutant:` are not part of the model:
each is a plausible bug of the definition below it, and shows which property
would notice it.

## Runs

| Run (`PROJECT.json`) | Configuration | Instance | Shows |
|---|---|---|---|
| `orchestration` | `MCOrchestration` | 2 requests, 1 run, 2 actions per decision on one object, 2 attempts | locks, exactly-once effects, previewed versions, cancelled runs, one assistant message per run, refinement of `ConfirmedEffects` |
| `job_queue` | `MCJobQueue` | 2 workers, a corrected turn with its follow-up job, a requested job, the purge, 2 attempts, 1 crash | the jobs of an event are inserted once, with its publication; retry budget, number of handler starts; every event and job settles |
| `memory` | `MCMemory` | 3 items, 1 request beside the single-step use cases, 3 versions of an item, 6 of all | versions, merges |
| `memory_index` | `MCMemoryIndex` | 1 item, 3 versions | documents; the index catches up |
| `conversation` | `MCConversation` | 2 requests, 2 turns, 1 correction per message | closing, events, documents; the title arrives |
| `backup_agent` | `MCBackupAgent` | 2 records, 2 checks, 2 attempts, 2 losses | records, backups; jobs settle |
| `identity` | `MCIdentity` | 2 requests, 2 passwords, 1 address, 2 sessions, 2 tokens, restriction after 2 failures | revoked sessions, counted failures, links, audit chain |
| `realtime` | `MCRealtime` | 3 sockets, 2 conversations, 1 restart | one socket per session; who is left to end a conversation; abandoned ones end |
| `voice_input` | `MCVoiceInput` | 6 frames, turns of at most 5, start and end after 2 frames, a partial transcript every 2 | speech, finalizing flag, partial transcripts, pauses |
| `configuration` | `MCConfiguration` | 2 requests, 2 models, 1 document, 3 versions of provider and setting | verification, keys, vectors of the chosen model, also after none was chosen |
| `exports` | `MCExports` | 2 exports, 2 workers, 2 versions of the data, 1 attempt, 1 rollback | digests, expiry; requests settle, files are removed |

`partial_update` (`MCPartialUpdate`) checks a property that a document of the
repository states and that the code does not keep; it is expected to be violated,
and `PROJECT.json` quotes the document under `findings`: an update with an invalid
interval, confirmed through the orchestrator, commits a text without a version.
The passing runs of `Memory` and `MemoryIndex` except exactly the items this has
happened to (`torn`).

Known deviations without a run of their own. The models contain each of these
behaviours, and the properties above are stated so that they allow them:

* a cancelled run that is answered again keeps its old message under the new
  decision (`Orchestration`, `AssistantKey`, `AssistantTurn`; `requirements.json:11184`);
* `history_continue` is executed although its conversation has changed since the
  preview (`Unchecked`; `requirements.json:11583`);
* a run stays `awaiting_confirmation` after its last action has failed or
  expired (`ConfirmFail`, `ConfirmExpired`; `oprava.md:371`);
* an action left by a failed attempt can be confirmed and completes a run that
  has no answer (`ConfirmSucceed`; `requirements.json:11184`);
* a job whose agent was lost stays running (`JobsSettle` excepts it;
  `requirements.json:8940`);
* two concurrent creations of one text both succeed (`CreateCheck`,
  `CreateCommit`; `oprava.md:459`);
* delete and restore make a suggestion or a merged item active (`Memory`,
  `Restore`; `requirements.json:11457` and `:3499`);
* the finalize job overwrites a title the administrator has written
  (`Finalize`; `requirements.json:3887`);
* an interrupted conversation comes back from its deletion as completed
  (`Conversation`, `Restore`; `requirements.json:2575`);
* restoring or correcting a conversation requests no index
  (`requirements.json:4412` and `:7188`);
* the purge reads the clock twice: an item that expires in between loses its row
  and keeps its search document (`MemoryIndex`, `PurgeAll`; `oprava.md:1069`);
* a correction that asks for a new answer collides with the outbox event of its
  own turn (`CorrectCommit`; `oprava.md:411`), so `corrected_turn_reprocess` is
  never created from a real correction; `JobQueue` has it, `Conversation` not.

In the voice session:

* after a resume the assistant task of before still writes to the closed socket,
  and its failure marks the object as not connected, so that the new socket
  hears nothing (`Realtime`, `Heard`, `ReplaceTask`; `websocket.py:72`);
* a conversation stays active for ever (`stranded`) after a restart, after an
  `accept` that fails when the session was taken, and after a failed transaction
  of the timer;
* so does the first conversation of a socket that sends `session.start` twice:
  the handler checks only `resume_available`, and `start_session` overwrites
  `conversation_id` (`StartSession`; `websocket.py:198-211`, `:589`);
* and so does a conversation whose kept session is asked for with a `generation`
  that is no number: the session is popped, the error of `int` suppressed, and
  the timer finds nothing to end (`ConnectDropping`; `websocket.py:118-122`,
  `:548`);
* a `session.start` whose commit fails keeps a session for a conversation that
  does not exist, and neither `session.end` nor the timer can end it
  (`StartFails`; `websocket.py:589`);
* a spoken turn cancelled before its first step leaves `turn_finalizing` set, and
  no later turn of the session is finalized (`skipped`; `requirements.json:10533`);
  resuming during a spoken turn clears the flag (`resumed`);
* after frames were lost during a disconnect every later frame is a gap
  (`FrameGap`; `requirements.json:9441`);
* a pause survives `session.end`, and a partial task survives pause and end.

In identity:

* a login that has read the password before it is changed opens its session
  afterwards (`LoginCommit`; `requirements.json:5901`), and if it renews the hash
  it writes the former password back;
* two tickets issued for two sessions at once are both valid
  (`OneUsableLink` is stated for the links only);
* a requested change of the address ends recovery by the verified one
  (`EmailCommit`; `requirements.json:5945`);
* a mail is handed over before its token commits, so a rollback leaves a dead
  link (`Abort`).

In providers, settings and notifications:

* `apply_recommended` changes the embedding model without marking the index
  (`missed`; `requirements.json:7146`), and a document created by a job that is
  open during a change keeps the vector of the former model;
* an empty embedding model is accepted by an update and refused when it is
  restored; meanwhile the index jobs mark documents fresh without a new vector
  (`UpdateBegin`, `RestoreBegin`, `Indexed`; `settings/service.py:66`,
  `worker.py:197`);
* the states a failed verification sets are rolled back with it (`CatalogFails`);
* `test_smtp` takes no lock and may mark a configuration verified that was saved
  during the test; `save_smtp` does not revoke the key it replaces (not modelled;
  `requirements.json:5197`).

In exports:

* a file whose iteration was rolled back and whose job is not tried again stays
  (`orphaned`), and so does the file of a record completed while another
  worker's purge waits for its row, since the purge writes only the columns it
  has changed (`raced`; `requirements.json:21448`);
* a given-up job leaves its record queued until the purge; `failed` is never set.

Each property was also checked against a mutant of the code, listed in
`PROJECT.json`, which it must refuse.

Bounds. Two requests are enough for every race here, because the row locks and
unique keys involve two transactions at a time; a third one only waits. In the
`memory` run one request with its two steps meets every other use case, which
are single steps of no particular request. Two attempts distinguish the first,
the last and a retry. Versions are bounded high enough for a change before and
after the step in question: create, delete and restore are three versions of an
item; two creations, a deletion during a merge and the merge are six of all. The
index run has one item, since the documents of two items share nothing but the
worker. Two sessions and two tokens are the old and the new one of every
revocation and replacement; three sockets are the lost one, the one that resumes
and one that competes with it, and two conversations let one object serve a
second conversation. Six frames hold a turn, a pause in it, an overflow and the
start of the next turn. Three versions of provider and setting are a change
before and one during a verification or index job; a model, none and the other
model are three of the setting. One document is enough because the vectors of two
share nothing but the job that writes them; the theorems are for any number. Two exports let the purges of two workers
wait for each other; with one attempt a failed job is given up at once, and a
second attempt after a rollback is the repeated one. Deadlock checking is off: every module stops at its bounds and nothing
needs to happen when nobody asks for anything.

Fairness. The worker and the agent poll without end, their calls have timeouts,
and docker restarts a dead process: weak fairness of an iteration, of the agent
and of due dates (in `JobQueue` of the passing of time as such: while a job backs
off, some backoff ends). In `Conversation` the finalize job needs a lock that requests
take again and again; PostgreSQL serves the waiters of a row in turn, which is
strong fairness of that job. Requests end because their calls have timeouts.
In `Realtime` only the timers are fair: asyncio runs a sleep that has ended. In
`Exports` days pass, the hourly purge and its UPDATE run, and iterations commit;
the commit is strongly fair because the iteration may start another job first,
of which it has at most ten.
Nothing is assumed about the administrator, failures or crashes.

## Proofs

Every theorem is proved for all finite or infinite sets of requests, workers,
items, sockets and so on and for every value of the bounds, from the assumptions
of its module (`ConstantsAssumption`, `IndexAssumption`, `AgentAssumption`,
`ExportAssumption`): the bounds are natural numbers, `None` (`NoJob`, `Null`) is not
one of the values it is distinguished from, a check has a record, and in `JobQueue`
a job is created in one way only. No theorem is about a bounded instance, so the results also hold
for what the bounds of the runs cut off.

Hardly any of the properties is inductive as it stands. Each proof module states the
strengthening `Inv` as a conjunction of named parts, shows that every action keeps
it (one lemma per action or group of actions), and derives the properties from
it. Before it was proved each `Inv` was checked by TLC as an invariant of the
module's run. Most parts say one thing again and again: what a transaction has
read and locked is still so when it commits.

`OrchestrationProofs`:

* `TypeCorrect`, `LocksHold`: `TypeOK /\ RowLocks` is inductive. `RowLocks` is
  the strengthening everything else rests on: an open confirmation's action is
  still pending in the committed table, and no other transaction is on its run.
  `TypeOK` alone does not exclude two confirmations of one action.
* `ActionStep` classifies what a step may do to one action, under that
  invariant: insert it pending, settle it, execute it, or nothing. From it follow
  `ExactlyOnce`, `SettledStay`, `PreviewedVersions`, `CancelledOffersNothing` and
  `Refinement` (every step is a step of `ConfirmedEffects` or a stutter).
* `AwaitingAnswered` follows from the actions that write runs, decisions and
  answers. `OneAnswer` needs `KeyedByRun`: every assistant message has the key of
  its run, so that a later attempt finds the message of the first one and inserts
  no second row.

`JobQueueProofs` (`OutboxIsAtomic`, `BudgetIsUsed`, `StartsAreAccounted`):

* `Exclusive` and `Locked`: two iterations have no event, job or maintenance in
  common, and what an iteration has locked is as it was; a job it holds is queued
  or one it will insert itself. Without them two commits could insert the jobs of
  one event, or count one attempt twice.
* `JobsOfPublished` and `FollowsAtomic`: the jobs of an event exist exactly when it
  is published, those a handler enqueues exactly when its job is completed. Both
  are needed to know that what a commit inserts does not exist yet
  (`CreatedAreNew`), and so that nothing is inserted twice (`InsertedOnce`).
* `Starts` bounds the number of handler starts from both sides by the counted
  attempts, the crashes and whether the handler was started in an open iteration
  (`InFlight`); `StartsAccounted` alone loses the last part.

`MemoryIndexProofs` (`CompleteHistory`, `MergedWereLive`, `IndexImplementsMemory`,
`DocumentIsVersion`, `NoTextForgotten`):

* `Exclusive`, `Locked`: a locked item is still editable, and the source of an
  open merge still active or outdated. `MergedWereLive` follows at once.
* `Versioned` and `Overdue`: items without a row have no versions, only deleted
  ones are purged.
* `IndexImplementsMemory`: a step with requests, jobs and documents is a step of
  `Memory` or leaves it alone, so `Inv` is an invariant of `IndexSpec` too.
* `HistoryGrows`: short of a purge histories only get longer, so a version once
  read stays that version (`VersionStays`). With `ReadIsVersion`, which follows
  the text from the read to the commit of the job, and the worker's one-job-at-a-time
  rule for purges, this gives `DocumentIsVersion`.
* `NoTextForgotten` is the safety half of `IndexCatchesUp`: a text in use that is not
  in the search document has a request, or the running job has read just this text
  (`Accounted`). A change during the job's call of the provider is safe because its
  request has another number than the job's, which is a version the item has had
  (`Sequenced`, `ReadOnRequest`), so the end of the job does not take it away.

`ConversationProofs` (`EventsFit`, `DocumentIsComplete`, `ClosedGetsNoTurn`,
`EndIsOwedATitle`):

* `RowLock`: one transaction at most holds the row, a turn has read the message
  count and the state that are there when it commits.
* `Numbered(messages, count)`: the messages have the numbers 1 to `count`, through
  turns that fail halfway and are tried again under their key.
* `EventsOfMessages`: until the end no event has a number beyond the count.
  `IndexedWhenClosed` and `ReadHasEveryTurn`: nothing is indexed earlier, and after
  the end the count stays.
* `EndIsOwedATitle` is the safety half of `EndedIsFinalized` and needs no
  strengthening: deletion, restore, purge and edited metadata leave the finalize
  job of an ended conversation waiting, or a title in its place.

`IdentityProofs` (`RevokedIsIdle`, `WrongCounted`, `OneLink`, `UsedOnce`,
`LinearChain`):

* `RowLocks` and `RowsHold`: the rows of two open requests are disjoint, and the
  columns a request has read under its locks still have the values it will write
  from. `OneAppends`: the advisory lock of the audit chain is held by one.
* `Unused` and `UsableIsOne` say the same of tokens: what a request is about to use
  has not been used, and the usable links of a purpose are one at most.
* The proof found an error of the model: `Synchronize`, the command line's
  transaction, did not wait for the locks of a single open request. It does now.

`RealtimeProofs` (`SingleSubscriber`, `OwnerExists`, `ServedNotLost`):

* `OwnObject`, `OwnConversation`: no two handlers have one object and no two
  objects one conversation. `Kept`: a suspended object has the conversation under
  whose name it is kept and an armed timer, and one whose timer is armed is kept,
  or was dropped and its conversation stranded.
  `Unserved`: an object that is kept or being expired has no handler.

`VoiceInputProofs` (`WholeSpeech`, `FinalizingIsSpoken`, `PartialIsNotStale`,
`PauseKeepsTurn`):

* `InOrder`: the buffer ends with the last frame, unless it is full: a frame that
  overflows while a turn is being finalized is counted and dropped, and only the
  full buffer keeps the next one from being stored after the gap.
* `PartialIsNew`: the partial task has no frame that was handed over.
  `SilenceIsQuiet`: the detector's count is no larger than the silence heard.

`AdministrationProofs` has the three components the administrator manages. They
share no state; their definitions have names of their own, so that one module
extends all three.

`Configuration` (`VerifiedUsable`, `SingleLiveKey`, `FreshVectors`):

* `RowLocks`, `ProviderHeld`, `KeyHeld`: what a request that has locked the provider
  row has read of it still holds, and its new key is its own.
* `SettingHeld`, `AllMarked`, `DocsHeld`, `ReadsHold`: a change of the model holds
  its setting; once it has marked the index, every document is marked by it or
  missed; no document is locked by a change and by the index job at once, and the
  job has read the chosen model of each document that is not missed.

`BackupAgent` (`AgentInvariant`, `RecordsEndWithTheirJobs`, `RetriesAddNoBackup`,
`StrandedOnlyByLosses`, `AgentBudgetIsUsed`):

* `AtWork`: the agent's job is marked running in the table it has committed to, so
  that no other step changes it; past the claim it is the job of a record, and past
  pgbackrest its record has a backup. `InsertedTogether`, `CheckedIsCompleted`: only a
  completed record is checked, and it stays completed, so a failed check finds
  nothing to take back. With them `RecordEndsWithItsJob` is inductive.
* `BackupsCounted`: there are no more backups than records with one, since an attempt
  that finds a backup newer than its record takes none. The requested records are
  finite in number at any time, even if `Records` is not.
* `StrandedByLosses`: `JobsSettle` excepts running jobs without an agent. There are no
  more of them than losses of the agent, so nothing else strands a job.
  `GivenUpAtLimit`: a job is given up after its last attempt and never earlier.

`Exports` (`ExportInvariant`, `DownloadsMatchTheirDigest`, `ExpiredExportsStay`,
`ExpiredFilesAreGone`, `QueuedExportsHaveJobs`):

* `OneWriter`: a row is written by one open iteration. `HonestIterations`: what it is
  about to commit follows the committed row (a finished record is at most expired and
  keeps its digest) and describes the file that is already in place, although the
  file is outside of the transaction; `PurgesExpired` and `HonestDownload` say that a
  purge removes only files nobody may begin to download.
* `FileInv`: a file has a record with its path, committed or pending, or was orphaned
  by a rollback; it is removed before its path is; and an expired record with a path
  was written by a purge that did not know of it. From it follows
  `ExpiredFilesAreGone`, the safety half of `FilesAreRemoved`, with the same two
  exceptions.
* `ExportJobInv`: a job is completed by the iteration that finishes its record. So a
  queued record has a job to be tried or given up, the safety half of
  `RequestSettles`.

The theorems with a `property` in `PROJECT.json` state what a run checks; the others
are steps on the way that say something of their own.

Only model-checked: liveness, since fairness and `ENABLED` are beyond the prover:
`WorkSettles`, `JobsSettle`, `IndexCatchesUp`, `EndedIsFinalized`, `AbandonedIsEnded`,
`RequestSettles`, `FilesAreRemoved`. Every invariant and every action property of the
passing runs is proved, and for most of these liveness properties what keeps them
safe: nothing that is still to be done is forgotten.

## Not modelled

Cryptography, the SQL of the hybrid search, the provider adapters and the user
interface, which call the modelled services or external programs and keep no
state of their own that an interleaving could disturb. Of the command line only
the commands that change the database are modelled, in `Identity`. The SMTP
configuration (save, test, delete) repeats that of a provider for one row; its
deviations are named above. The settings other than the embedding model are rows
with the same version check and no consequences in other tables. Inside the
modelled parts the lock order within one SQL statement, the metadata of the voice
service's key file and the acknowledgement of its notices are left out.

## Plan

1. Done: `Orchestration` with its abstract specification and proofs, `JobQueue`,
   `Memory`, `MemoryIndex`, `Conversation`, `BackupAgent`.
2. Done: `Realtime` and `VoiceInput`, `Identity` with the audit chain,
   `Configuration`, `Exports`.
3. Done: proofs of every invariant and action property of the passing runs, and
   of the safety the liveness properties rest on.
4. A composition of `Conversation` and `Orchestration`: one transaction with the
   turn and the run, so that a missing model loses the turn.
