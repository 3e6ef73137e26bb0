------------------------ MODULE OrchestrationProofs ------------------------
(***************************************************************************)
(* Proofs about Orchestration for any number of requests, runs, calls and  *)
(* objects and for every bound.                                            *)
(***************************************************************************)
EXTENDS Orchestration, TLAPS

\* What the preview reads is a snapshot of the call's targets.
LEMMA CurrentIsSnapshot ==
  ASSUME TypeOK, NEW c \in Calls
  PROVE  Current(c) \in Snapshots(c)
BY ConstantsAssumption DEF TypeOK, Current, Snapshots

\* The rows an answering request has added to its session are action keys.
LEMMA ProposalsAreKeys ==
  ASSUME TypeOK, NEW q \in Requests
  PROVE  Proposals(q) \subseteq Keys
BY DEF TypeOK, Proposals

\* A key built from the locked run, the next position and a fresh snapshot is
\* an action key.
LEMMA NewKey ==
  ASSUME TypeOK, NEW q \in Requests, NEW c \in Calls,
         onRun[q] \in Runs, Len(proposed[q]) < MaxCalls
  PROVE  [run |-> onRun[q], index |-> Len(proposed[q]) + 1, call |-> c, seen |-> Current(c)]
           \in Keys
<1> DEFINE n == Len(proposed[q]) + 1
<1>1. Len(proposed[q]) \in Nat
  BY DEF TypeOK
<1>2. n \in 1..MaxCalls
  BY <1>1, ConstantsAssumption
<1>3. Current(c) \in Snapshots(c)
  BY CurrentIsSnapshot
<1> HIDE DEF n
<1>4. [run |-> onRun[q], index |-> n, call |-> c, seen |-> Current(c)] \in Keys
  BY <1>2, <1>3 DEF Keys
<1> QED
  BY <1>4 DEF n

\* Inserting the proposals keeps the action table well typed.
LEMMA InsertType ==
  ASSUME TypeOK, NEW q \in Requests, InsertProposals(q)
  PROVE  action' \in [Keys -> ActionStates] /\ aversion' \in [Keys -> Nat]
BY ProposalsAreKeys DEF InsertProposals, TypeOK, ActionStates

\* Ending a transaction keeps the sessions well typed.
LEMMA ReleaseType ==
  ASSUME TypeOK, NEW q \in Requests, Release(q)
  PROVE  /\ op' \in [Requests -> {"idle", "answer", "confirm"}]
         /\ onRun' \in [Requests -> Runs \cup {None}]
         /\ proposed' \in [Requests -> Seq(Keys)]
         /\ confirming' \in [Requests -> Keys \cup {None}]
<1>1. <<>> \in Seq(Keys)
  OBVIOUS
<1> QED
  BY <1>1 DEF Release, TypeOK

\* What add_assistant_turn returns is a message of the run it was called for,
\* stored under the key of that run.
LEMMA TurnIsMessage ==
  ASSUME TypeOK, NEW m \in Runs, NEW a \in Answers
  PROVE  /\ AssistantTurn(m, a) \subseteq Messages
         /\ \A r \in AssistantTurn(m, a) : r.key = AssistantKey(m)
BY DEF TypeOK, AssistantTurn, AssistantKey, Messages

\* Appending an element adds just that element.
LEMMA AppendRange ==
  ASSUME NEW S, NEW s \in Seq(S), NEW e \in S,
         NEW i \in 1..Len(Append(s, e))
  PROVE  Append(s, e)[i] = e \/ \E j \in 1..Len(s) : Append(s, e)[i] = s[j]
OBVIOUS

-----------------------------------------------------------------------------
(***************************************************************************)
(* Type correctness needs the locks: a confirming request names a key, an  *)
(* answering one a run.                                                    *)
(***************************************************************************)
Inv == TypeOK /\ RowLocks

\* Every action keeps the type invariant.
LEMMA TypeStep ==
  ASSUME Inv, [Next]_vars
  PROVE  TypeOK'
<1> USE DEF Inv
<1>1. ASSUME NEW q \in Requests, NEW m \in Runs, AnswerBegin(q, m)
      PROVE  TypeOK'
  BY <1>1 DEF TypeOK, AnswerBegin, tables, answers
<1>2. ASSUME NEW q \in Requests, NEW c \in Calls, AnswerPropose(q, c)
      PROVE  TypeOK'
  <2> DEFINE new == [run |-> onRun[q], index |-> Len(proposed[q]) + 1, call |-> c,
                     seen |-> Current(c)]
  <2>1. new \in Keys
    BY <1>2, NewKey DEF AnswerPropose, RowLocks
  <2>2. proposed' = [proposed EXCEPT ![q] = Append(proposed[q], new)]
    BY <1>2 DEF AnswerPropose, TypeOK
  <2> HIDE DEF new
  <2>3. proposed' \in [Requests -> Seq(Keys)]
    BY <2>1, <2>2 DEF TypeOK
  <2> QED
    BY <1>2, <2>3 DEF TypeOK, AnswerPropose, tables, answers
<1>3. ASSUME NEW q \in Requests, NEW a \in Answers, AnswerCommit(q, a)
      PROVE  TypeOK'
  <2>1. action' \in [Keys -> ActionStates] /\ aversion' \in [Keys -> Nat]
    BY <1>3, InsertType DEF AnswerCommit
  <2>2. onRun[q] \in Runs
    BY <1>3 DEF AnswerCommit, RowLocks
  <2>3. run' \in [Runs -> RunStates] /\ attempts' \in [Runs -> Nat]
    BY <1>3, <2>2 DEF TypeOK, AnswerCommit, RunStates
  <2>4. decision' \in [Runs -> Answers \cup {None}]
    BY <1>3, <2>2 DEF TypeOK, AnswerCommit
  <2>5. AssistantTurn(onRun[q], a) \subseteq Messages
    BY <2>2, TurnIsMessage
  <2>6. response' \in [Runs -> Messages \cup {None}] /\ messages' \subseteq Messages
    BY <1>3, <2>2, <2>5 DEF TypeOK, AnswerCommit
  <2> QED
    BY <1>3, <2>1, <2>3, <2>4, <2>6, ReleaseType DEF TypeOK, AnswerCommit
<1>4. ASSUME NEW q \in Requests, AnswerFail(q)
      PROVE  TypeOK'
  <2>1. action' \in [Keys -> ActionStates] /\ aversion' \in [Keys -> Nat]
    BY <1>4, InsertType DEF AnswerFail
  <2>2. onRun[q] \in Runs
    BY <1>4 DEF AnswerFail, RowLocks
  <2>3. run' \in [Runs -> RunStates] /\ attempts' \in [Runs -> Nat]
    BY <1>4, <2>2 DEF TypeOK, AnswerFail, RunStates
  <2> QED
    BY <1>4, <2>1, <2>3, ReleaseType DEF TypeOK, AnswerFail, answers
<1>5. ASSUME NEW q \in Requests, NEW k \in Keys, NEW v \in 1..3, ConfirmBegin(q, k, v)
      PROVE  TypeOK'
  <2>1. k.run \in Runs
    BY DEF Keys
  <2> QED
    BY <1>5, <2>1 DEF TypeOK, ConfirmBegin, tables, answers
<1>6. ASSUME NEW k \in Keys, NEW v \in 1..3, ConfirmExpired(k, v)
      PROVE  TypeOK'
  BY <1>6 DEF TypeOK, ConfirmExpired, ActionStates, Terminal, sessions, answers
<1>7. ASSUME NEW q \in Requests, ConfirmSucceed(q)
      PROVE  TypeOK'
  <2> DEFINE k == confirming[q]
  <2>1. k \in Keys
    BY <1>7 DEF ConfirmSucceed, RowLocks
  <2>2. k.call \in Calls /\ k.run \in Runs
    BY <2>1 DEF Keys
  <2>3. version' \in [Objects -> 1..MaxVersion]
    BY <1>7, <2>2, ConstantsAssumption DEF ConfirmSucceed, TypeOK, Effect, MayExecute
  <2>4. action' \in [Keys -> ActionStates] /\ aversion' \in [Keys -> Nat]
    BY <1>7, <2>1 DEF ConfirmSucceed, TypeOK, ActionStates, Terminal, SucceededState
  <2>5. run' \in [Runs -> RunStates]
    BY <1>7 DEF ConfirmSucceed, TypeOK, RunStates
  <2>6. executed' \in [Keys -> Nat]
    BY <1>7, <2>1 DEF ConfirmSucceed, TypeOK
  <2> QED
    BY <1>7, <2>3, <2>4, <2>5, <2>6, ReleaseType DEF TypeOK, ConfirmSucceed, answers
<1>8. ASSUME NEW q \in Requests, ConfirmFail(q)
      PROVE  TypeOK'
  <2>1. confirming[q] \in Keys
    BY <1>8 DEF ConfirmFail, RowLocks
  <2>2. action' \in [Keys -> ActionStates] /\ aversion' \in [Keys -> Nat]
    BY <1>8, <2>1 DEF ConfirmFail, TypeOK, ActionStates, Terminal
  <2> QED
    BY <1>8, <2>2, ReleaseType DEF TypeOK, ConfirmFail, answers
<1>9. ASSUME NEW q \in Requests, Rollback(q)
      PROVE  TypeOK'
  BY <1>9, ReleaseType DEF TypeOK, Rollback, tables, answers
<1>10. ASSUME NEW m \in Runs, CancelRun(m)
       PROVE  TypeOK'
  BY <1>10 DEF TypeOK, CancelRun, ActionStates, Terminal, RunStates, sessions, answers
<1>11. ASSUME NEW o \in Objects, EditObject(o)
       PROVE  TypeOK'
  BY <1>11, ConstantsAssumption DEF TypeOK, EditObject, sessions, answers
<1>12. ASSUME NEW m \in Runs, DeadlinePasses(m)
       PROVE  TypeOK'
  BY <1>12 DEF TypeOK, DeadlinePasses, sessions, answers
<1>13. CASE UNCHANGED vars
  BY <1>13 DEF TypeOK, vars, tables, sessions, answers
<1> QED
  BY <1>1, <1>2, <1>3, <1>4, <1>5, <1>6, <1>7, <1>8, <1>9, <1>10, <1>11, <1>12, <1>13
     DEF Next

\* Every action keeps the locks: whoever changes a row of a run holds its lock
\* or has found it free.
LEMMA RowLocksStep ==
  ASSUME Inv, [Next]_vars
  PROVE  RowLocks'
<1> USE DEF Inv
<1>1. ASSUME NEW q \in Requests, NEW m \in Runs, AnswerBegin(q, m)
      PROVE  RowLocks'
  BY <1>1, ConstantsAssumption
     DEF TypeOK, RowLocks, AnswerBegin, LockFree, Proposals, tables
<1>2. ASSUME NEW q \in Requests, NEW c \in Calls, AnswerPropose(q, c)
      PROVE  RowLocks'
  <2> DEFINE new == [run |-> onRun[q], index |-> Len(proposed[q]) + 1, call |-> c,
                     seen |-> Current(c)]
  <2>1. proposed[q] \in Seq(Keys) /\ new \in Keys /\ new.run = onRun[q]
    BY <1>2, NewKey DEF AnswerPropose, RowLocks, TypeOK
  <2>2. proposed' = [proposed EXCEPT ![q] = Append(proposed[q], new)]
    BY <1>2 DEF AnswerPropose, TypeOK
  <2> HIDE DEF new
  <2>3. \A k \in Proposals(q)' : k \in Proposals(q) \/ k = new
    <3>1. proposed'[q] = Append(proposed[q], new)
      BY <2>2 DEF TypeOK
    <3>2. SUFFICES ASSUME NEW i \in 1..Len(proposed'[q])
                   PROVE  proposed'[q][i] \in Proposals(q) \/ proposed'[q][i] = new
      BY DEF Proposals
    <3> QED
      BY <2>1, <3>1, AppendRange DEF Proposals
  <2>4. \A p \in Requests \ {q} : proposed'[p] = proposed[p]
    BY <2>2 DEF TypeOK
  <2>5. \A k \in Proposals(q)' : k.run = onRun[q]
    BY <1>2, <2>1, <2>3 DEF RowLocks, AnswerPropose
  <2>6. \A p \in Requests \ {q} : Proposals(p)' = Proposals(p)
    BY <2>4 DEF Proposals
  <2>7. op' = op /\ onRun' = onRun /\ confirming' = confirming /\ action' = action
    BY <1>2 DEF AnswerPropose, tables
  <2>8. op[q] = "answer"
    BY <1>2 DEF AnswerPropose
  <2> QED
    BY <2>4, <2>5, <2>6, <2>7, <2>8 DEF RowLocks
<1>3. ASSUME NEW q \in Requests, InsertProposals(q), Release(q)
      PROVE  RowLocks'
  <2>1. \A k \in Keys : action[k] = "pending_confirmation" => action'[k] = action[k]
    BY <1>3 DEF InsertProposals
  <2>2. \A p \in Requests \ {q} : Proposals(p)' = Proposals(p)
    BY <1>3 DEF Release, Proposals, TypeOK
  <2> QED
    BY <1>3, <2>1, <2>2 DEF RowLocks, Release, TypeOK
<1>4. ASSUME NEW q \in Requests, Release(q), op[q] = "confirm",
             \A k \in Keys : k # confirming[q] => action'[k] = action[k]
      PROVE  RowLocks'
  <2>1. \A p \in Requests \ {q} : Proposals(p)' = Proposals(p)
    BY <1>4 DEF Release, Proposals, TypeOK
  <2>2. ASSUME NEW p \in Requests \ {q}, op[p] = "confirm"
        PROVE  action'[confirming[p]] = "pending_confirmation"
    <3>1. confirming[p] # confirming[q]
      BY <1>4, <2>2, ConstantsAssumption DEF RowLocks, Keys
    <3> QED
      BY <1>4, <2>2, <3>1 DEF RowLocks
  <2> QED
    BY <1>4, <2>1, <2>2 DEF RowLocks, Release, TypeOK
<1>5. ASSUME NEW q \in Requests, NEW k \in Keys, NEW v \in 1..3, ConfirmBegin(q, k, v)
      PROVE  RowLocks'
  BY <1>5, ConstantsAssumption
     DEF TypeOK, RowLocks, ConfirmBegin, LockFree, Proposals, tables
<1>6. ASSUME NEW m \in Runs, LockFree(m), UNCHANGED sessions,
             \A k \in Keys : k.run # m => action'[k] = action[k]
      PROVE  RowLocks'
  <2>1. \A p \in Requests : Proposals(p)' = Proposals(p)
    BY <1>6 DEF sessions, Proposals
  <2> QED
    BY <1>6, <2>1 DEF RowLocks, LockFree, sessions
<1>7. ASSUME UNCHANGED sessions, UNCHANGED action
      PROVE  RowLocks'
  BY <1>7 DEF RowLocks, Proposals, sessions
<1>8. ASSUME NEW q \in Requests, Rollback(q)
      PROVE  RowLocks'
  <2>1. \A p \in Requests \ {q} : Proposals(p)' = Proposals(p)
    BY <1>8 DEF Rollback, Release, Proposals, TypeOK
  <2> QED
    BY <1>8, <2>1 DEF RowLocks, Rollback, Release, TypeOK, tables
<1>9. ASSUME NEW q \in Requests, NEW a \in Answers, AnswerCommit(q, a)
      PROVE  RowLocks'
  BY <1>3, <1>9 DEF AnswerCommit
<1>10. ASSUME NEW q \in Requests, AnswerFail(q)
       PROVE  RowLocks'
  BY <1>3, <1>10 DEF AnswerFail
<1>11. ASSUME NEW q \in Requests, ConfirmSucceed(q)
       PROVE  RowLocks'
  <2>1. \A k \in Keys : k # confirming[q] => action'[k] = action[k]
    BY <1>11 DEF ConfirmSucceed, TypeOK
  <2> QED
    BY <1>4, <1>11, <2>1 DEF ConfirmSucceed
<1>12. ASSUME NEW q \in Requests, ConfirmFail(q)
       PROVE  RowLocks'
  <2>1. \A k \in Keys : k # confirming[q] => action'[k] = action[k]
    BY <1>12 DEF ConfirmFail, TypeOK
  <2> QED
    BY <1>4, <1>12, <2>1 DEF ConfirmFail
<1>13. ASSUME NEW k \in Keys, NEW v \in 1..3, ConfirmExpired(k, v)
       PROVE  RowLocks'
  <2>1. k.run \in Runs /\ \A j \in Keys : j.run # k.run => action'[j] = action[j]
    BY <1>13 DEF ConfirmExpired, TypeOK, Keys
  <2> QED
    BY <1>6, <1>13, <2>1 DEF ConfirmExpired
<1>14. ASSUME NEW m \in Runs, CancelRun(m)
       PROVE  RowLocks'
  <2>1. \A k \in Keys : k.run # m => action'[k] = action[k]
    BY <1>14 DEF CancelRun, TypeOK
  <2> QED
    BY <1>6, <1>14, <2>1 DEF CancelRun
<1>15. ASSUME NEW o \in Objects, EditObject(o)
       PROVE  RowLocks'
  BY <1>7, <1>15 DEF EditObject
<1>16. ASSUME NEW m \in Runs, DeadlinePasses(m)
       PROVE  RowLocks'
  BY <1>7, <1>16 DEF DeadlinePasses
<1>17. CASE UNCHANGED vars
  BY <1>7, <1>17 DEF vars, tables
<1> QED
  BY <1>1, <1>2, <1>5, <1>8, <1>9, <1>10, <1>11, <1>12, <1>13, <1>14, <1>15, <1>16, <1>17
     DEF Next

\* The initial state satisfies the invariant.
LEMMA InitInv == Init => Inv
BY ConstantsAssumption
   DEF Init, Inv, TypeOK, RowLocks, Proposals, RunStates, ActionStates

\* Inv holds throughout.
LEMMA Invariance == Spec => []Inv
<1>1. Inv /\ [Next]_vars => Inv'
  BY TypeStep, RowLocksStep DEF Inv
<1> QED
  BY <1>1, InitInv, PTL DEF Spec

\* Orchestration rows, and the work of every open transaction, are always well
\* formed.
THEOREM TypeCorrect == Spec => []TypeOK
<1>1. Inv => TypeOK
  BY DEF Inv
<1> QED
  BY <1>1, Invariance, PTL

\* For any number of concurrent requests the row locks of answer,
\* confirm_action and cancel_run keep an action under execution pending and
\* keep two transactions off one run.
THEOREM LocksHold == Spec => []RowLocks
<1>1. Inv => RowLocks
  BY DEF Inv
<1> QED
  BY <1>1, Invariance, PTL

-----------------------------------------------------------------------------
(***************************************************************************)
(* What a step may do to one action row.  The safety theorems about        *)
(* actions, and the refinement, follow from this case analysis.            *)
(***************************************************************************)
Kept(k)      == action'[k] = action[k] /\ executed'[k] = executed[k]
Offered(k)   == /\ action[k] = "absent" /\ action'[k] = "pending_confirmation"
                /\ executed'[k] = executed[k]
Withdrawn(k) == /\ action[k] = "pending_confirmation"
                /\ action'[k] \in {"failed", "expired", "cancelled"}
                /\ executed'[k] = executed[k]
Done(k)      == /\ action[k] = "pending_confirmation" /\ action'[k] = "completed"
                /\ executed'[k] = executed[k] + 1
                /\ MayExecute(k) /\ version' = Effect(k)

\* The rows of one step move together: some are offered, some are withdrawn, or
\* one is done, and only the last changes an object beside an edit.
ActionStep ==
  \/ (\A k \in Keys : Kept(k) \/ Offered(k)) /\ UNCHANGED version
  \/ (\A k \in Keys : Kept(k) \/ Withdrawn(k)) /\ UNCHANGED version
  \/ \E k \in Keys : Done(k) /\ \A j \in Keys \ {k} : Kept(j)
  \/ (\A k \in Keys : Kept(k)) /\ \E o \in Objects : version' = [version EXCEPT ![o] = @ + 1]

\* Every step of the orchestrator is such a move.
LEMMA StepMovesActions ==
  ASSUME Inv, [Next]_vars
  PROVE  ActionStep
<1> USE DEF Inv
<1>1. ASSUME UNCHANGED <<action, executed, version>>
      PROVE  ActionStep
  BY <1>1 DEF ActionStep, Kept
<1>2. ASSUME NEW q \in Requests, NEW m \in Runs, AnswerBegin(q, m)
      PROVE  ActionStep
  BY <1>1, <1>2 DEF AnswerBegin, tables
<1>3. ASSUME NEW q \in Requests, NEW c \in Calls, AnswerPropose(q, c)
      PROVE  ActionStep
  BY <1>1, <1>3 DEF AnswerPropose, tables
<1>4. ASSUME NEW q \in Requests, InsertProposals(q), UNCHANGED <<executed, version>>
      PROVE  ActionStep
  <2>1. \A k \in Keys : Kept(k) \/ Offered(k)
    BY <1>4 DEF InsertProposals, Kept, Offered
  <2> QED
    BY <1>4, <2>1 DEF ActionStep
<1>5. ASSUME NEW q \in Requests, NEW a \in Answers, AnswerCommit(q, a)
      PROVE  ActionStep
  BY <1>4, <1>5 DEF AnswerCommit
<1>6. ASSUME NEW q \in Requests, AnswerFail(q)
      PROVE  ActionStep
  BY <1>4, <1>6 DEF AnswerFail
<1>7. ASSUME NEW q \in Requests, NEW k \in Keys, NEW v \in 1..3, ConfirmBegin(q, k, v)
      PROVE  ActionStep
  BY <1>1, <1>7 DEF ConfirmBegin, tables
<1>8. ASSUME UNCHANGED <<executed, version>>,
             \A k \in Keys : \/ action'[k] = action[k]
                            \/ /\ action[k] = "pending_confirmation"
                               /\ action'[k] \in {"failed", "expired", "cancelled"}
      PROVE  ActionStep
  <2>1. \A k \in Keys : Kept(k) \/ Withdrawn(k)
    BY <1>8 DEF Kept, Withdrawn
  <2> QED
    BY <1>8, <2>1 DEF ActionStep
<1>9. ASSUME NEW k \in Keys, NEW v \in 1..3, ConfirmExpired(k, v)
      PROVE  ActionStep
  BY <1>8, <1>9 DEF ConfirmExpired, TypeOK
<1>10. ASSUME NEW q \in Requests, ConfirmSucceed(q)
       PROVE  ActionStep
  <2> DEFINE k == confirming[q]
  <2>1. k \in Keys /\ action[k] = "pending_confirmation"
    BY <1>10 DEF ConfirmSucceed, RowLocks
  <2>2. Done(k)
    BY <1>10, <2>1 DEF ConfirmSucceed, Done, TypeOK, SucceededState
  <2>3. \A j \in Keys \ {k} : Kept(j)
    BY <1>10, <2>1 DEF ConfirmSucceed, Kept, TypeOK
  <2> HIDE DEF k
  <2> QED
    BY <2>1, <2>2, <2>3 DEF ActionStep
<1>11. ASSUME NEW q \in Requests, ConfirmFail(q)
       PROVE  ActionStep
  <2>1. confirming[q] \in Keys /\ action[confirming[q]] = "pending_confirmation"
    BY <1>11 DEF ConfirmFail, RowLocks
  <2> QED
    BY <1>8, <1>11, <2>1 DEF ConfirmFail, TypeOK
<1>12. ASSUME NEW q \in Requests, Rollback(q)
       PROVE  ActionStep
  BY <1>1, <1>12 DEF Rollback, tables
<1>13. ASSUME NEW m \in Runs, CancelRun(m)
       PROVE  ActionStep
  BY <1>8, <1>13 DEF CancelRun
<1>14. ASSUME NEW o \in Objects, EditObject(o)
       PROVE  ActionStep
  BY <1>14 DEF EditObject, ActionStep, Kept
<1>15. ASSUME NEW m \in Runs, DeadlinePasses(m)
       PROVE  ActionStep
  BY <1>1, <1>15 DEF DeadlinePasses
<1>16. CASE UNCHANGED vars
  BY <1>1, <1>16 DEF vars, tables
<1> QED
  BY <1>2, <1>3, <1>5, <1>6, <1>7, <1>9, <1>10, <1>11, <1>12, <1>13, <1>14, <1>15, <1>16
     DEF Next

\* However many requests confirm, retry, fail and roll back, an action is
\* executed once if it is completed and never otherwise.
THEOREM ExactlyOnce == Spec => []ExecutedExactlyOnce
<1>1. Init => ExecutedExactlyOnce
  BY DEF Init, ExecutedExactlyOnce
<1>2. ExecutedExactlyOnce /\ Inv /\ [Next]_vars => ExecutedExactlyOnce'
  <2> SUFFICES ASSUME ExecutedExactlyOnce, Inv, [Next]_vars
               PROVE  ExecutedExactlyOnce'
    OBVIOUS
  <2>1. ActionStep
    BY StepMovesActions
  <2> QED
    BY <2>1 DEF ActionStep, Kept, Offered, Withdrawn, Done, ExecutedExactlyOnce
<1> QED
  BY <1>1, <1>2, Invariance, PTL DEF Spec

\* An action never leaves a terminal state.
THEOREM SettledStay == Spec => SettledActionsStay
<1>1. Inv /\ [Next]_vars
        => [\A k \in Keys : action[k] \in Terminal => action'[k] = action[k]]_vars
  <2> SUFFICES ASSUME Inv, [Next]_vars
               PROVE  \A k \in Keys : action[k] \in Terminal => action'[k] = action[k]
    OBVIOUS
  <2>1. ActionStep
    BY StepMovesActions
  <2> QED
    BY <2>1 DEF ActionStep, Kept, Offered, Withdrawn, Done, Terminal
<1> QED
  BY <1>1, Invariance, PTL DEF Spec, SettledActionsStay

\* A version-checked action is executed only on the versions of its preview.
THEOREM PreviewedVersions == Spec => ExecutesWhatWasPreviewed
<1>1. Inv /\ [Next]_vars
        => [\A k \in Keys : executed'[k] # executed[k] /\ k.call \notin Unchecked
                               => k.seen = Current(k.call)]_vars
  <2> SUFFICES ASSUME Inv, [Next]_vars, NEW k \in Keys,
                      executed'[k] # executed[k], k.call \notin Unchecked
               PROVE  k.seen = Current(k.call)
    OBVIOUS
  <2>1. Done(k)
    BY StepMovesActions DEF ActionStep, Kept, Offered, Withdrawn
  <2> QED
    BY <2>1 DEF Done, MayExecute
<1> QED
  BY <1>1, Invariance, PTL DEF Spec, ExecutesWhatWasPreviewed

-----------------------------------------------------------------------------
(***************************************************************************)
(* Runs and their answers                                                  *)
(***************************************************************************)

\* A cancelled run has no action that could still be confirmed.
THEOREM CancelledOffersNothing == Spec => []CancelledRunOffersNothing
<1>1. Init => CancelledRunOffersNothing
  BY DEF Init, CancelledRunOffersNothing, Keys
<1>2. CancelledRunOffersNothing /\ Inv /\ [Next]_vars => CancelledRunOffersNothing'
  <2> SUFFICES ASSUME CancelledRunOffersNothing, Inv, [Next]_vars, NEW k \in Keys,
                      run'[k.run] = "cancelled", action'[k] = "pending_confirmation"
               PROVE  FALSE
    BY DEF CancelledRunOffersNothing
  <2> USE DEF Inv
  <2>1. k.run \in Runs
    BY DEF Keys
  <2>2. action[k] \in {"absent", "pending_confirmation"}
    BY StepMovesActions DEF ActionStep, Kept, Offered, Withdrawn, Done
  <2>3. action[k] = "pending_confirmation" => run[k.run] # "cancelled"
    BY DEF CancelledRunOffersNothing
  <2>4. ASSUME NEW q \in Requests, op[q] = "answer", InsertProposals(q),
               run'[onRun[q]] # "cancelled",
               \A m \in Runs : m # onRun[q] => run'[m] = run[m]
        PROVE  FALSE
    <3>1. k.run # onRun[q]
      BY <2>4
    <3>2. k \notin Proposals(q)
      BY <2>4, <3>1 DEF RowLocks
    <3>3. action[k] = "pending_confirmation"
      BY <2>4, <3>2 DEF InsertProposals
    <3> QED
      BY <2>1, <2>3, <2>4, <3>1, <3>3
  <2>5. ASSUME NEW q \in Requests, NEW a \in Answers, AnswerCommit(q, a)
        PROVE  FALSE
    <3>1. onRun[q] \in Runs
      BY <2>5 DEF AnswerCommit, RowLocks
    <3> QED
      BY <2>4, <2>5, <3>1 DEF AnswerCommit, TypeOK
  <2>6. ASSUME NEW q \in Requests, AnswerFail(q)
        PROVE  FALSE
    <3>1. onRun[q] \in Runs
      BY <2>6 DEF AnswerFail, RowLocks
    <3> QED
      BY <2>4, <2>6, <3>1 DEF AnswerFail, TypeOK
  <2>7. ASSUME NEW q \in Requests, ConfirmSucceed(q)
        PROVE  FALSE
    <3>1. run[k.run] = "cancelled"
      BY <2>1, <2>7 DEF ConfirmSucceed, TypeOK
    <3>2. action[k] = "absent"
      BY <2>2, <2>3, <3>1
    <3>3. confirming[q] \in Keys /\ action[confirming[q]] = "pending_confirmation"
      BY <2>7 DEF ConfirmSucceed, RowLocks
    <3> QED
      BY <2>7, <3>2, <3>3 DEF ConfirmSucceed, TypeOK
  <2>8. ASSUME NEW m \in Runs, CancelRun(m)
        PROVE  FALSE
    <3>1. CASE k.run = m
      BY <2>8, <3>1 DEF CancelRun, TypeOK
    <3>2. CASE k.run # m
      BY <2>1, <2>3, <2>8, <3>2 DEF CancelRun, TypeOK
    <3> QED
      BY <3>1, <3>2
  <2>9. ASSUME NEW j \in Keys, NEW v \in 1..3, ConfirmExpired(j, v)
        PROVE  FALSE
    BY <2>3, <2>9 DEF ConfirmExpired, TypeOK
  <2>10. ASSUME NEW q \in Requests, ConfirmFail(q)
         PROVE  FALSE
    <3>1. confirming[q] \in Keys
      BY <2>10 DEF ConfirmFail, RowLocks
    <3> QED
      BY <2>3, <2>10, <3>1 DEF ConfirmFail, TypeOK
  <2>11. ASSUME UNCHANGED <<run, action>>
         PROVE  FALSE
    BY <2>3, <2>11
  <2> QED
    BY <2>5, <2>6, <2>7, <2>8, <2>9, <2>10, <2>11
       DEF Next, AnswerBegin, AnswerPropose, ConfirmBegin, Rollback, EditObject,
           DeadlinePasses, vars, tables
<1> QED
  BY <1>1, <1>2, Invariance, PTL DEF Spec

\* A decision and a response are never taken back; a run enters
\* awaiting_confirmation only with both.
LEMMA AnswersStay ==
  ASSUME Inv, [Next]_vars, NEW m \in Runs
  PROVE  /\ response[m] # None => response'[m] # None
         /\ decision[m] # None => decision'[m] # None
         /\ \/ run'[m] # "awaiting_confirmation"
            \/ run'[m] = run[m]
            \/ decision'[m] # None /\ response'[m] # None
<1> USE DEF Inv
<1>1. ASSUME NEW q \in Requests, NEW a \in Answers, AnswerCommit(q, a)
      PROVE  /\ response[m] # None => response'[m] # None
             /\ decision[m] # None => decision'[m] # None
             /\ \/ run'[m] = run[m]
                \/ decision'[m] # None /\ response'[m] # None
  <2>1. onRun[q] \in Runs /\ a # None
    BY <1>1, ConstantsAssumption DEF AnswerCommit, RowLocks
  <2>2. PICK r \in AssistantTurn(onRun[q], a) : response' = [response EXCEPT ![onRun[q]] = r]
    BY <1>1 DEF AnswerCommit
  <2>3. r # None
    BY <2>1, <2>2, TurnIsMessage, ConstantsAssumption
  <2>4. CASE m = onRun[q]
    BY <1>1, <2>1, <2>2, <2>3, <2>4 DEF AnswerCommit, TypeOK
  <2>5. CASE m # onRun[q]
    BY <1>1, <2>1, <2>2, <2>5 DEF AnswerCommit, TypeOK
  <2> QED
    BY <2>4, <2>5
<1>2. ASSUME NEW q \in Requests, AnswerFail(q)
      PROVE  UNCHANGED answers /\ run'[m] \in {run[m], "failed"}
  BY <1>2 DEF AnswerFail, TypeOK
<1>3. ASSUME NEW q \in Requests, ConfirmSucceed(q)
      PROVE  UNCHANGED answers /\ run'[m] \in {run[m], "completed"}
  BY <1>3 DEF ConfirmSucceed, TypeOK
<1>4. ASSUME NEW n \in Runs, CancelRun(n)
      PROVE  UNCHANGED answers /\ run'[m] \in {run[m], "cancelled"}
  BY <1>4 DEF CancelRun, TypeOK
<1>5. CASE UNCHANGED <<run, answers>>
  BY <1>5 DEF answers
<1> QED
  BY <1>1, <1>2, <1>3, <1>4, <1>5
     DEF Next, AnswerBegin, AnswerPropose, ConfirmBegin, ConfirmExpired, ConfirmFail,
         Rollback, EditObject, DeadlinePasses, vars, tables, answers

\* A run that waits for confirmation has a decision and a stored message.
THEOREM AwaitingAnswered == Spec => []AwaitingRunIsAnswered
<1>1. Init => AwaitingRunIsAnswered
  BY DEF Init, AwaitingRunIsAnswered
<1>2. AwaitingRunIsAnswered /\ Inv /\ [Next]_vars => AwaitingRunIsAnswered'
  BY AnswersStay DEF AwaitingRunIsAnswered
<1> QED
  BY <1>1, <1>2, Invariance, PTL DEF Spec

\* The key of a message is that of the run it answers.
KeyedByRun == \A r \in messages : r.key = AssistantKey(r.run)

\* The step of an answer that commits: it inserts the first message of its run
\* or finds the one the run names.
LEMMA CommitAnswers ==
  ASSUME Inv, KeyedByRun, OneAnswerPerRun,
         NEW q \in Requests, NEW a \in Answers, AnswerCommit(q, a)
  PROVE  KeyedByRun' /\ OneAnswerPerRun'
<1> DEFINE m == onRun[q]
           new == [run |-> m, key |-> AssistantKey(m), text |-> a]
           Shown(n) == {r \in messages : r.run = n}
<1>1. m \in Runs
  BY DEF Inv, AnswerCommit, RowLocks
<1>2. {r \in messages : r.key = AssistantKey(m)} = Shown(m)
  BY <1>1 DEF KeyedByRun, AssistantKey
<1>3. Shown(m) = IF response[m] = None THEN {} ELSE {response[m]}
  BY <1>1 DEF OneAnswerPerRun
<1>4. AssistantTurn(m, a) = IF response[m] = None THEN {new} ELSE {response[m]}
  BY <1>2, <1>3 DEF AssistantTurn
<1>5. new \in Messages /\ new.run = m /\ new.key = AssistantKey(m)
  BY <1>1 DEF Messages, AssistantKey
<1>6. messages' = messages \cup AssistantTurn(m, a)
  BY DEF AnswerCommit
<1>7. response' = [response EXCEPT ![m] = IF response[m] = None THEN new ELSE response[m]]
  <2>1. PICK r \in AssistantTurn(m, a) : response' = [response EXCEPT ![m] = r]
    BY DEF AnswerCommit
  <2> QED
    BY <1>4, <2>1
<1>8. \A n \in Runs : n # m => run'[n] = run[n] /\ response'[n] = response[n]
  BY <1>1, <1>7 DEF AnswerCommit, Inv, TypeOK
<1>9. response'[m] # None /\ response'[m] = IF response[m] = None THEN new ELSE response[m]
  BY <1>1, <1>5, <1>7, ConstantsAssumption DEF Inv, TypeOK
<1> HIDE DEF new
<1>10. response[m] # None => response[m] \in messages /\ response[m].run = m
  BY <1>3
<1>11. KeyedByRun'
  BY <1>4, <1>5, <1>6, <1>10 DEF KeyedByRun, AssistantKey
<1>12. ASSUME NEW n \in Runs
       PROVE  {r \in messages' : r.run = n} =
                IF n = m THEN {response'[m]} ELSE Shown(n)
  <2>1. CASE n = m
    BY <1>3, <1>4, <1>5, <1>6, <1>9, <1>10, <2>1
  <2>2. CASE n # m
    BY <1>4, <1>5, <1>6, <1>10, <2>2
  <2> QED
    BY <2>1, <2>2
<1>13. ASSUME NEW n \in Runs
       PROVE  IF response'[n] = None
                THEN {r \in messages' : r.run = n} = {} /\ run'[n] # "awaiting_confirmation"
                ELSE {r \in messages' : r.run = n} = {response'[n]}
  <2>1. CASE n = m
    BY <1>9, <1>12, <2>1
  <2>2. CASE n # m
    BY <1>8, <1>12, <2>2 DEF OneAnswerPerRun
  <2> QED
    BY <2>1, <2>2
<1> QED
  BY <1>11, <1>13 DEF OneAnswerPerRun

\* However many attempts fail, are cancelled, rolled back and repeated, the
\* conversation shows one assistant message of a run: the one it names.
THEOREM OneAnswer == Spec => []OneAnswerPerRun
<1>1. Init => KeyedByRun /\ OneAnswerPerRun
  BY DEF Init, KeyedByRun, OneAnswerPerRun
<1>2. KeyedByRun /\ OneAnswerPerRun /\ Inv /\ [Next]_vars => KeyedByRun' /\ OneAnswerPerRun'
  <2> SUFFICES ASSUME KeyedByRun, OneAnswerPerRun, Inv, [Next]_vars
               PROVE  KeyedByRun' /\ OneAnswerPerRun'
    OBVIOUS
  <2>1. ASSUME UNCHANGED answers,
               \A m \in Runs : run'[m] = "awaiting_confirmation" => run[m] = "awaiting_confirmation"
        PROVE  KeyedByRun' /\ OneAnswerPerRun'
    <3>1. KeyedByRun'
      BY <2>1 DEF answers, KeyedByRun, AssistantKey
    <3>2. OneAnswerPerRun'
      BY <2>1 DEF answers, OneAnswerPerRun
    <3> QED
      BY <3>1, <3>2
  <2>2. ASSUME NEW q \in Requests, AnswerFail(q)
        PROVE  KeyedByRun' /\ OneAnswerPerRun'
    BY <2>1, <2>2 DEF AnswerFail, Inv, TypeOK
  <2>3. ASSUME NEW q \in Requests, ConfirmSucceed(q)
        PROVE  KeyedByRun' /\ OneAnswerPerRun'
    BY <2>1, <2>3 DEF ConfirmSucceed, Inv, TypeOK
  <2>4. ASSUME NEW n \in Runs, CancelRun(n)
        PROVE  KeyedByRun' /\ OneAnswerPerRun'
    BY <2>1, <2>4 DEF CancelRun, Inv, TypeOK
  <2>5. CASE UNCHANGED <<run, answers>>
    BY <2>1, <2>5
  <2> QED
    BY <2>2, <2>3, <2>4, <2>5, CommitAnswers
       DEF Next, AnswerBegin, AnswerPropose, ConfirmBegin, ConfirmExpired, ConfirmFail,
           Rollback, EditObject, DeadlinePasses, vars, tables
<1> QED
  BY <1>1, <1>2, Invariance, PTL DEF Spec

-----------------------------------------------------------------------------
(***************************************************************************)
(* The orchestrator implements ConfirmedEffects                            *)
(***************************************************************************)
StatusOf == [k \in Keys |-> Status(k)]

\* How the abstract status of a row follows the concrete step.
LEMMA StatusMoves ==
  ASSUME NEW k \in Keys
  PROVE  /\ Kept(k) => Status(k)' = Status(k)
         /\ Offered(k) => Status(k) = "none" /\ Status(k)' = "offered"
         /\ Withdrawn(k) => Status(k) = "offered" /\ Status(k)' = "withdrawn"
         /\ Done(k) => Status(k) = "offered" /\ Status(k)' = "done"
BY DEF Kept, Offered, Withdrawn, Done, Status

\* The versions an action shows are those of its targets.
LEMMA ShownTargets ==
  ASSUME NEW k \in Keys
  PROVE  k.call \in Calls /\ DOMAIN k.seen = Targets[k.call]
BY DEF Keys, Snapshots

\* Every behaviour of the orchestrator is one of ConfirmedEffects: an offered
\* change happens once and as shown, or not at all.
THEOREM Refinement == Spec => ImplementsConfirmedEffects
<1>1. Init => Effects!Init
  BY DEF Init, Effects!Init, Status
<1>2. Inv /\ [Next]_vars => [Effects!Next]_(Effects!vars)
  <2> SUFFICES ASSUME Inv, [Next]_vars
               PROVE  Effects!Next \/ UNCHANGED Effects!vars
    BY DEF Effects!vars
  <2>1. StatusOf \in [Keys -> {"none", "offered", "done", "withdrawn"}]
    BY DEF StatusOf, Status
  <2>2. CASE (\A k \in Keys : Kept(k) \/ Offered(k)) /\ UNCHANGED version
    <3>1. Effects!Offer
      BY <2>2, StatusMoves DEF Effects!Offer, Effects!Move
    <3> QED
      BY <3>1 DEF Effects!Next
  <2>3. CASE (\A k \in Keys : Kept(k) \/ Withdrawn(k)) /\ UNCHANGED version
    <3>1. Effects!Withdraw
      BY <2>3, StatusMoves DEF Effects!Withdraw, Effects!Move
    <3> QED
      BY <3>1 DEF Effects!Next
  <2>4. ASSUME NEW k \in Keys, Done(k), \A j \in Keys \ {k} : Kept(j)
        PROVE  Effects!Do(k)
    <3>1. StatusOf' = [StatusOf EXCEPT ![k] = "done"]
      BY <2>4, StatusMoves DEF StatusOf
    <3>2. StatusOf[k] = "offered"
      BY <2>4, StatusMoves DEF StatusOf
    <3>3. k.call \in Calls /\ DOMAIN k.seen = Targets[k.call]
      BY ShownTargets
    <3>4. CASE k.call \in Unchecked
      <4>1. version' = version
        BY <2>4, <3>4 DEF Done, Effect, Inv, TypeOK
      <4> QED
        BY <3>1, <3>2, <3>4, <4>1 DEF Effects!Do, StatusOf
    <3>5. CASE k.call \notin Unchecked
      <4>1. \A o \in DOMAIN k.seen : version[o] = k.seen[o]
        BY <2>4, <3>3, <3>5 DEF Done, MayExecute, Current
      <4>2. version' = [o \in Objects |-> IF o \in DOMAIN k.seen THEN version[o] + 1 ELSE version[o]]
        BY <2>4, <3>3, <3>5 DEF Done, Effect
      <4> QED
        BY <3>1, <3>2, <3>5, <4>1, <4>2 DEF Effects!Do, StatusOf
    <3> QED
      BY <3>4, <3>5
  <2>5. ASSUME \A k \in Keys : Kept(k), NEW o \in Objects,
               version' = [version EXCEPT ![o] = @ + 1]
        PROVE  Effects!Edit(o)
    BY <2>5, StatusMoves DEF Effects!Edit
  <2> QED
    BY <2>2, <2>3, <2>4, <2>5, StepMovesActions DEF ActionStep, Effects!Next
<1> QED
  BY <1>1, <1>2, Invariance, PTL DEF Spec, ImplementsConfirmedEffects, Effects!Spec
=============================================================================
