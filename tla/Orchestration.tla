--------------------------- MODULE Orchestration ---------------------------
(***************************************************************************)
(* The orchestrator of backend/src/kajovodagmar/orchestration/service.py:  *)
(* one run per user message, the state-changing actions the model proposes *)
(* for it, and their confirmation by the administrator.                    *)
(*                                                                         *)
(* Every request is one database transaction (db/session.py).  A request   *)
(* takes the row lock of its run (SELECT ... FOR UPDATE), works, and then  *)
(* either commits - also when it ends in a DomainError marked durable - or *)
(* rolls back.  The variables of tables are the COMMITTED rows; the work   *)
(* of an open transaction is kept in op, onRun, proposed and confirming    *)
(* until it commits.                                                       *)
(***************************************************************************)
EXTENDS Integers, Sequences

CONSTANTS
  Requests,    \* concurrent requests, each one transaction
  Runs,        \* orchestration runs, one per source user message (unique)
  Calls,       \* state-changing tool calls (name and arguments) of the model
  Objects,     \* memory items and conversations with a version column
  Targets,     \* Targets[c]: the objects whose version the preview of c reads
  Unchecked,   \* calls executed without a version check (history_continue)
  Answers,     \* texts of an answer
  None,        \* no answer, no run, no action
  MaxCalls,    \* bound: state-changing calls in one model decision
  MaxVersion,  \* bound: highest version of an object
  MaxAttempts  \* bound: committed attempts to answer one run

\* The assistant messages of runs: response_run_id, idempotency_key, content.
Messages == [run: Runs, key: {<<m>> : m \in Runs}, text: Answers]

ASSUME ConstantsAssumption ==
  /\ Targets \in [Calls -> SUBSET Objects]
  /\ Unchecked \subseteq Calls
  /\ None \notin Answers \cup Runs \cup Messages
  /\ MaxCalls \in Nat \ {0}
  /\ MaxVersion \in Nat \ {0}
  /\ MaxAttempts \in Nat

VARIABLES
  run,         \* OrchestrationRun.state, "absent" before the row exists
  attempts,    \* committed attempts of the run (OrchestrationAttempt rows)
  decision,    \* the answer text inside OrchestrationRun.decision
  response,    \* the message OrchestrationRun.response_message_id names
  messages,    \* the assistant messages that are stored
  action,      \* ToolAction.state by idempotency key, "absent" without a row
  aversion,    \* ToolAction.version
  overdue,     \* actions whose expires_at has passed
  version,     \* version of every target object
  op,          \* what a request is doing: idle, answering or confirming
  onRun,       \* the run whose row lock the request holds
  proposed,    \* actions an answering request has added to its session
  confirming,  \* the action a confirming request has marked running
  executed     \* history: committed executions of an action

answers  == <<decision, response, messages>>
tables   == <<run, attempts, answers, action, aversion, overdue, version, executed>>
sessions == <<op, onRun, proposed, confirming>>
vars     == <<tables, sessions>>

(***************************************************************************)
(* An action row is identified by its unique idempotency_key, the digest   *)
(* of run id, position in the decision, call name and arguments.  The      *)
(* arguments of a call with targets contain the versions the preview saw.  *)
(***************************************************************************)
Snapshots(c) == [Targets[c] -> 1..MaxVersion]

Keys ==
  {k \in [run: Runs, index: 1..MaxCalls, call: Calls,
          seen: UNION {Snapshots(c) : c \in Calls}] : k.seen \in Snapshots(k.call)}

RunStates    == {"absent", "awaiting_confirmation", "completed", "failed", "cancelled"}
Terminal     == {"completed", "failed", "expired", "cancelled"}
ActionStates == {"absent", "pending_confirmation"} \cup Terminal

Current(c) == [o \in Targets[c] |-> version[o]]

\* Mutant: the SELECT without FOR UPDATE.
LockFreeWithoutForUpdate(m) == m \in Runs

\* SELECT ... FOR UPDATE returns when no other transaction holds the row.
LockFree(m) == \A q \in Requests : onRun[q] # m

Init ==
  /\ run = [m \in Runs |-> "absent"]
  /\ attempts = [m \in Runs |-> 0]
  /\ decision = [m \in Runs |-> None]
  /\ response = [m \in Runs |-> None]
  /\ messages = {}
  /\ action = [k \in Keys |-> "absent"]
  /\ aversion = [k \in Keys |-> 0]
  /\ overdue = {}
  /\ version = [o \in Objects |-> 1]
  /\ executed = [k \in Keys |-> 0]
  /\ op = [q \in Requests |-> "idle"]
  /\ onRun = [q \in Requests |-> None]
  /\ proposed = [q \in Requests |-> <<>>]
  /\ confirming = [q \in Requests |-> None]

-----------------------------------------------------------------------------
(***************************************************************************)
(* answer(): the turn endpoint, the realtime turn and the worker's         *)
(* reprocessing all end here.                                              *)
(***************************************************************************)

\* Lock the run.  A completed run with its answer is returned as it is and a
\* run awaiting confirmation is refused; a failed or cancelled run, and a
\* completed one that has no answer, is processed again under the same row.
AnswerBegin(q, m) ==
  /\ op[q] = "idle"
  /\ LockFree(m)
  /\ ~(run[m] = "completed" /\ response[m] # None /\ decision[m] # None)
  /\ run[m] # "awaiting_confirmation"
  /\ attempts[m] < MaxAttempts
  /\ op' = [op EXCEPT ![q] = "answer"]
  /\ onRun' = [onRun EXCEPT ![q] = m]
  /\ UNCHANGED <<proposed, confirming, tables>>

\* _create_actions normalises the next call of the decision: it reads the
\* version of its targets without a lock and adds the row to the session.
AnswerPropose(q, c) ==
  /\ op[q] = "answer"
  /\ Len(proposed[q]) < MaxCalls
  /\ proposed' = [proposed EXCEPT ![q] =
       Append(@, [run |-> onRun[q], index |-> Len(@) + 1, call |-> c, seen |-> Current(c)])]
  /\ UNCHANGED <<op, onRun, confirming, tables>>

Proposals(q) == {proposed[q][i] : i \in 1..Len(proposed[q])}

\* Both ways to commit insert the proposed rows; a row with an existing
\* idempotency key makes the flush fail, so that nothing is committed.
InsertProposals(q) ==
  /\ \A k \in Proposals(q) : action[k] = "absent"
  /\ action' = [k \in Keys |-> IF k \in Proposals(q) THEN "pending_confirmation" ELSE action[k]]
  /\ aversion' = [k \in Keys |-> IF k \in Proposals(q) THEN 1 ELSE aversion[k]]

Release(q) ==
  /\ op' = [op EXCEPT ![q] = "idle"]
  /\ onRun' = [onRun EXCEPT ![q] = None]
  /\ proposed' = [proposed EXCEPT ![q] = <<>>]
  /\ confirming' = [confirming EXCEPT ![q] = None]

\* Mutant: the key of an assistant message names the attempt, too.
AssistantKeyPerAttempt(m) == <<m, attempts[m]>>

\* The digest under which the assistant message of run m is stored: it names
\* the run and nothing of the attempt.
AssistantKey(m) == <<m>>

\* The message add_assistant_turn returns, as a set of one: the one that has
\* the key already, or a new row.
AssistantTurn(m, a) ==
  LET same == {r \in messages : r.key = AssistantKey(m)} IN
  IF same # {} THEN same ELSE {[run |-> m, key |-> AssistantKey(m), text |-> a]}

\* The decision is stored, the run waits when it has actions, and the
\* assistant turn is added, so that a run answered again keeps its first
\* message.
AnswerCommit(q, a) ==
  LET m == onRun[q] IN
  /\ op[q] = "answer"
  /\ InsertProposals(q)
  /\ run' = [run EXCEPT ![m] =
       IF proposed[q] = <<>> THEN "completed" ELSE "awaiting_confirmation"]
  /\ attempts' = [attempts EXCEPT ![m] = @ + 1]
  /\ decision' = [decision EXCEPT ![m] = a]
  /\ messages' = messages \cup AssistantTurn(m, a)
  /\ \E r \in AssistantTurn(m, a) : response' = [response EXCEPT ![m] = r]
  /\ Release(q)
  /\ UNCHANGED <<overdue, version, executed>>

\* A DomainError of the model call, of the sources or of the next call's
\* normalisation: the run is marked failed and the session is committed,
\* with the actions added before the failing call.
AnswerFail(q) ==
  /\ op[q] = "answer"
  /\ Len(proposed[q]) < MaxCalls
  /\ InsertProposals(q)
  /\ run' = [run EXCEPT ![onRun[q]] = "failed"]
  /\ attempts' = [attempts EXCEPT ![onRun[q]] = @ + 1]
  /\ Release(q)
  /\ UNCHANGED <<answers, overdue, version, executed>>

-----------------------------------------------------------------------------
(***************************************************************************)
(* confirm_action() and cancel_run()                                       *)
(***************************************************************************)

\* The administrator confirms the version v of the preview on his screen.
\* A completed action is returned, any other refusal changes nothing.
ConfirmBegin(q, k, v) ==
  /\ op[q] = "idle"
  /\ LockFree(k.run)
  /\ action[k] = "pending_confirmation"
  /\ aversion[k] = v
  /\ k \notin overdue
  /\ op' = [op EXCEPT ![q] = "confirm"]
  /\ onRun' = [onRun EXCEPT ![q] = k.run]
  /\ confirming' = [confirming EXCEPT ![q] = k]
  /\ UNCHANGED <<proposed, tables>>

\* Confirmation after expires_at: the action expires, durably.
ConfirmExpired(k, v) ==
  /\ LockFree(k.run)
  /\ action[k] = "pending_confirmation"
  /\ aversion[k] = v
  /\ k \in overdue
  /\ action' = [action EXCEPT ![k] = "expired"]
  /\ aversion' = [aversion EXCEPT ![k] = @ + 1]
  /\ UNCHANGED <<run, attempts, answers, overdue, version, executed, sessions>>

\* Actions of run m, other than k, that are not in a terminal state.
Remaining(m, k) == {j \in Keys \ {k} : j.run = m /\ action[j] \notin Terminal \cup {"absent"}}

\* Mutant: the use case is called without the version of the preview.
MayExecuteUnversioned(k) ==
  k.call \in Unchecked \/ \A o \in Targets[k.call] : version[o] < MaxVersion

\* _execute_state_action: the use case compares the versions of the preview
\* with the current rows, history_continue does not.
MayExecute(k) ==
  \/ k.call \in Unchecked
  \/ /\ k.seen = Current(k.call)
     /\ \A o \in Targets[k.call] : version[o] < MaxVersion

Effect(k) ==
  [o \in Objects |-> IF k.call \notin Unchecked /\ o \in Targets[k.call]
                     THEN version[o] + 1 ELSE version[o]]

SucceededState == "completed"

\* The use case succeeds: its effect, the action and, when no action of the
\* run is left open, the run are committed together.
ConfirmSucceed(q) ==
  LET k == confirming[q] IN
  /\ op[q] = "confirm"
  /\ MayExecute(k)
  /\ version' = Effect(k)
  /\ executed' = [executed EXCEPT ![k] = @ + 1]
  /\ action' = [action EXCEPT ![k] = SucceededState]
  /\ aversion' = [aversion EXCEPT ![k] = @ + 2]
  /\ run' = IF Remaining(onRun[q], k) = {}
            THEN [run EXCEPT ![onRun[q]] = "completed"] ELSE run
  /\ Release(q)
  /\ UNCHANGED <<attempts, answers, overdue>>

\* The use case refuses with a DomainError, a changed version among them:
\* the action is failed and committed; the run is not looked at.
ConfirmFail(q) ==
  LET k == confirming[q] IN
  /\ op[q] = "confirm"
  /\ action' = [action EXCEPT ![k] = "failed"]
  /\ aversion' = [aversion EXCEPT ![k] = @ + 2]
  /\ Release(q)
  /\ UNCHANGED <<run, attempts, answers, overdue, version, executed>>

\* Any other exception, a cancelled task, a lost process or a deadlock
\* resolved by the database: the transaction of an answer or of a
\* confirmation is rolled back.
Rollback(q) ==
  /\ op[q] # "idle"
  /\ Release(q)
  /\ UNCHANGED tables

\* Mutant: the pending actions of a cancelled run are forgotten.
CancelRunOnly(m) ==
  /\ LockFree(m)
  /\ run[m] = "awaiting_confirmation"
  /\ run' = [run EXCEPT ![m] = "cancelled"]
  /\ UNCHANGED <<attempts, answers, action, aversion, overdue, version, executed, sessions>>

\* A run that is not terminal is cancelled with its pending actions.
CancelRun(m) ==
  LET Pending == {k \in Keys : k.run = m /\ action[k] = "pending_confirmation"} IN
  /\ LockFree(m)
  /\ run[m] = "awaiting_confirmation"
  /\ run' = [run EXCEPT ![m] = "cancelled"]
  /\ action' = [k \in Keys |-> IF k \in Pending THEN "cancelled" ELSE action[k]]
  /\ aversion' = [k \in Keys |-> IF k \in Pending THEN aversion[k] + 1 ELSE aversion[k]]
  /\ UNCHANGED <<attempts, answers, overdue, version, executed, sessions>>

-----------------------------------------------------------------------------
(***************************************************************************)
(* The environment: the memory and history screens change the same         *)
(* objects, and ten minutes pass.                                          *)
(***************************************************************************)
EditObject(o) ==
  /\ version[o] < MaxVersion
  /\ version' = [version EXCEPT ![o] = @ + 1]
  /\ UNCHANGED <<run, attempts, answers, action, aversion, overdue, executed, sessions>>

\* The deadline of every action of m that is now pending passes.
DeadlinePasses(m) ==
  LET Due == {k \in Keys : k.run = m /\ action[k] = "pending_confirmation"} IN
  /\ ~(Due \subseteq overdue)
  /\ overdue' = overdue \cup Due
  /\ UNCHANGED <<run, attempts, answers, action, aversion, version, executed, sessions>>

Next ==
  \/ \E q \in Requests, m \in Runs : AnswerBegin(q, m)
  \/ \E q \in Requests, c \in Calls : AnswerPropose(q, c)
  \/ \E q \in Requests, a \in Answers : AnswerCommit(q, a)
  \/ \E q \in Requests : AnswerFail(q)
  \/ \E q \in Requests, k \in Keys, v \in 1..3 : ConfirmBegin(q, k, v)
  \/ \E k \in Keys, v \in 1..3 : ConfirmExpired(k, v)
  \/ \E q \in Requests : ConfirmSucceed(q)
  \/ \E q \in Requests : ConfirmFail(q)
  \/ \E q \in Requests : Rollback(q)
  \/ \E m \in Runs : CancelRun(m)
  \/ \E o \in Objects : EditObject(o)
  \/ \E m \in Runs : DeadlinePasses(m)

Spec == Init /\ [][Next]_vars

-----------------------------------------------------------------------------
(***************************************************************************)
(* Properties                                                              *)
(***************************************************************************)

\* Every row has a state of its table, and an open transaction names the run
\* it has locked and the rows it is about to write.
TypeOK ==
  /\ run \in [Runs -> RunStates]
  /\ attempts \in [Runs -> Nat]
  /\ decision \in [Runs -> Answers \cup {None}]
  /\ response \in [Runs -> Messages \cup {None}]
  /\ messages \subseteq Messages
  /\ action \in [Keys -> ActionStates]
  /\ aversion \in [Keys -> Nat]
  /\ overdue \subseteq Keys
  /\ version \in [Objects -> 1..MaxVersion]
  /\ executed \in [Keys -> Nat]
  /\ op \in [Requests -> {"idle", "answer", "confirm"}]
  /\ onRun \in [Requests -> Runs \cup {None}]
  /\ proposed \in [Requests -> Seq(Keys)]
  /\ confirming \in [Requests -> Keys \cup {None}]

\* The row locks do their work: no two open transactions are on one run, the
\* action a transaction is executing is still pending in the committed table,
\* and what it is about to insert belongs to the run it has locked.
RowLocks ==
  /\ \A q \in Requests :
       /\ op[q] = "idle" => onRun[q] = None /\ proposed[q] = <<>>
       /\ op[q] = "answer" => onRun[q] \in Runs /\ \A k \in Proposals(q) : k.run = onRun[q]
       /\ op[q] = "confirm" => /\ confirming[q] \in Keys
                               /\ onRun[q] = confirming[q].run
                               /\ action[confirming[q]] = "pending_confirmation"
  /\ \A p, q \in Requests : p # q /\ onRun[p] # None => onRun[p] # onRun[q]

\* A confirmed action takes effect exactly once however many confirmations,
\* retries and rollbacks race for it: confirm_action commits the effect
\* together with the state "completed" and only from pending_confirmation.
ExecutedExactlyOnce ==
  \A k \in Keys : executed[k] = IF action[k] = "completed" THEN 1 ELSE 0

\* A cancelled run leaves nothing to confirm, also when it is answered again
\* and that attempt fails or is rolled back.
CancelledRunOffersNothing ==
  \A k \in Keys : run[k.run] = "cancelled" => action[k] # "pending_confirmation"

\* A run that waits for the administrator has told him so: its decision and
\* the assistant message are stored with it.
AwaitingRunIsAnswered ==
  \A m \in Runs : run[m] = "awaiting_confirmation" => decision[m] # None /\ response[m] # None

\* A checked action is executed only on the versions its preview showed,
\* although other requests change the same objects in between.
ExecutesWhatWasPreviewed ==
  [][\A k \in Keys : executed'[k] # executed[k] /\ k.call \notin Unchecked
                        => k.seen = Current(k.call)]_vars

\* An action that was completed, refused, cancelled or has expired stays so.
SettledActionsStay ==
  [][\A k \in Keys : action[k] \in Terminal => action'[k] = action[k]]_vars

\* One run gives one answer: however often it fails, is cancelled, rolled back
\* and answered again, the conversation shows no assistant message of the run
\* but the one response_message_id names, and that one as soon as the
\* administrator is asked to confirm something.
OneAnswerPerRun ==
  \A m \in Runs :
    LET shown == {r \in messages : r.run = m} IN
    IF response[m] = None THEN shown = {} /\ run[m] # "awaiting_confirmation"
                          ELSE shown = {response[m]}

\* The orchestrator implements ConfirmedEffects: a row without result is an
\* offer, a completed one a done action, every other end a withdrawal.
Status(k) ==
  CASE action[k] = "absent" -> "none"
    [] action[k] = "pending_confirmation" -> "offered"
    [] action[k] = "completed" -> "done"
    [] OTHER -> "withdrawn"

Effects == INSTANCE ConfirmedEffects WITH
  Actions <- Keys,
  Shown <- [k \in Keys |-> k.seen],
  Blind <- {k \in Keys : k.call \in Unchecked},
  status <- [k \in Keys |-> Status(k)]

\* Everything answer, confirm_action and cancel_run do to actions and to the
\* objects behind them, under every interleaving, failure and retry, is a
\* behaviour of ConfirmedEffects.
ImplementsConfirmedEffects == Effects!Spec
=============================================================================
