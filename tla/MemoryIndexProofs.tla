------------------------- MODULE MemoryIndexProofs -------------------------
(***************************************************************************)
(* Proofs about Memory and MemoryIndex for any number of requests, items   *)
(* and texts and for every bound.                                          *)
(***************************************************************************)
EXTENDS MemoryIndex, TLAPS

\* States the use case update accepts and leaves.
EditableStates == {"pending_confirmation", "active", "outdated"}

\* What a request has checked and is about to commit.
Work == [op : {"create", "update", "merge"}, text : Texts, state : EditableStates,
         locks : SUBSET Items]

\* The values of the rows and of the open transactions.
TypeOK ==
  /\ state \in [Items -> States]
  /\ text \in [Items -> Texts \cup {None}]
  /\ version \in [Items -> Nat]
  /\ log \in [Items -> Seq(Texts \cup {None})]
  /\ work \in [Requests -> Work \cup {None}]

\* FOR UPDATE: no two open transactions have locked the same row.
Exclusive ==
  \A p, q \in Requests :
    p # q /\ work[p] # None /\ work[q] # None => work[p].locks \cap work[q].locks = {}

\* A locked row is still what its transaction has found.
Locked ==
  \A q \in Requests : work[q] # None =>
    \A i \in work[q].locks :
      /\ state[i] \in EditableStates
      /\ work[q].op = "merge" => state[i] \in {"active", "outdated"}

\* Only rows that exist have versions.
Versioned == \A i \in Items : version[i] = 0 <=> state[i] \in {"absent", "purged"}

\* Only deleted rows are waiting to be purged.
Overdue == overdue \subseteq {i \in Items : state[i] = "deleted"}

Inv == TypeOK /\ Exclusive /\ Locked /\ Versioned /\ Overdue /\ HistoryIsComplete

\* Version v of item i has text t, unless a failing action has changed i.
IsVersion(i, v, t) == i \notin torn => v \in 1..Len(log[i]) /\ log[i][v] = t

\* Index requests are about rows that were written.
Requested ==
  /\ requests \subseteq Items \X Nat
  /\ \A r \in requests : state[r[1]] # "absent"

\* The text a job has read is that of the version it has read, up to the
\* commit of the job.
ReadIsVersion ==
  reading # None =>
    /\ reading.item \in Items
    /\ reading.state # "purged" =>
         state[reading.item] # "purged" /\ IsVersion(reading.item, reading.version, reading.text)
    /\ reading.state = "purged" => state[reading.item] = "purged"

IndexInv ==
  /\ doc \in [Items -> [text : Texts \cup {None}, version : Nat] \cup {None}]
  /\ Requested /\ ReadIsVersion /\ DocumentIsAVersion
  /\ reading # None => reading.text \in Texts \cup {None} /\ reading.version \in Nat
-----------------------------------------------------------------------------
(***************************************************************************)
(* Memory                                                                  *)
(***************************************************************************)

RowType == state \in [Items -> States] /\ text \in [Items -> Texts \cup {None}]
             /\ version \in [Items -> Nat] /\ log \in [Items -> Seq(Texts \cup {None})]

\* What a new version of a row changes.
LEMMA ChangeStep ==
  ASSUME Inv, NEW i \in Items, NEW s \in States \ {"absent", "purged"},
         NEW t \in Texts \cup {None}, Change(i, s, t), UNCHANGED torn
  PROVE  /\ RowType' /\ Versioned' /\ HistoryIsComplete'
         /\ state' = [state EXCEPT ![i] = s] /\ text' = [text EXCEPT ![i] = t]
<1> USE DEF Inv, TypeOK, RowType
<1>1. /\ state' = [state EXCEPT ![i] = s] /\ text' = [text EXCEPT ![i] = t]
      /\ version' = [version EXCEPT ![i] = @ + 1]
      /\ log' = [log EXCEPT ![i] = Append(@, t)]
  BY DEF Change, Logged
<1>2. RowType'
  BY <1>1
<1>3. Versioned'
  BY <1>1 DEF Versioned
<1>4. HistoryIsComplete'
  <2> SUFFICES ASSUME NEW j \in Items
               PROVE  /\ Len(log'[j]) = version'[j]
                      /\ version'[j] > 0 /\ j \notin torn => log'[j][version'[j]] = text'[j]
    BY DEF HistoryIsComplete
  <2>1. CASE j = i
    <3> DEFINE h == log[i]
    <3>1. h \in Seq(Texts \cup {None}) /\ Len(h) = version[i] /\ log'[i] = Append(h, t)
      BY <1>1 DEF HistoryIsComplete
    <3> HIDE DEF h
    <3>2. Len(Append(h, t)) = Len(h) + 1 /\ Append(h, t)[Len(h) + 1] = t
      BY <3>1
    <3> QED
      BY <1>1, <2>1, <3>1, <3>2
  <2>2. CASE j # i
    BY <1>1, <2>2 DEF HistoryIsComplete
  <2> QED
    BY <2>1, <2>2
<1> QED
  BY <1>1, <1>2, <1>3, <1>4

\* A row nobody has locked keeps the locks of everybody.
LEMMA OthersKeepLocks ==
  ASSUME Inv, NEW i \in Items, Unlocked(i), UNCHANGED work,
         \A j \in Items \ {i} : state'[j] = state[j]
  PROVE  Exclusive' /\ Locked'
BY DEF Inv, TypeOK, Work, Exclusive, Locked, Unlocked

\* A transaction that ends gives its locks back.
LEMMA Ended ==
  ASSUME Inv, NEW q \in Requests, work[q] # None, work' = [work EXCEPT ![q] = None],
         \A j \in Items \ work[q].locks : state[j] \in EditableStates => state'[j] = state[j]
  PROVE  Exclusive' /\ Locked' /\ work' \in [Requests -> Work \cup {None}]
<1> USE DEF Inv, TypeOK
<1>1. Exclusive' /\ work' \in [Requests -> Work \cup {None}]
  BY DEF Exclusive
<1>2. Locked'
  <2> SUFFICES ASSUME NEW r \in Requests, work'[r] # None, NEW i \in work'[r].locks
               PROVE  /\ state'[i] \in EditableStates
                      /\ work'[r].op = "merge" => state'[i] \in {"active", "outdated"}
    BY DEF Locked
  <2>1. r # q /\ work'[r] = work[r]
    OBVIOUS
  <2>2. i \in Items /\ i \notin work[q].locks
    BY <2>1 DEF Exclusive, Work
  <2> QED
    BY <2>1, <2>2 DEF Locked
<1> QED
  BY <1>1, <1>2

\* A transaction begins with the locks it was granted.
LEMMA Begun ==
  ASSUME Inv, NEW q \in Requests, NEW k \in Work, work' = [work EXCEPT ![q] = k], UNCHANGED rows,
         \A i \in k.locks : /\ Unlocked(i) /\ state[i] \in EditableStates
                            /\ k.op = "merge" => state[i] \in {"active", "outdated"}
  PROVE  Inv'
<1>1. TypeOK' /\ Versioned' /\ Overdue' /\ HistoryIsComplete'
  BY DEF Inv, TypeOK, rows, Versioned, Overdue, HistoryIsComplete
<1>2. Exclusive' /\ Locked'
  BY DEF Inv, TypeOK, rows, Exclusive, Locked, Unlocked
<1> QED
  BY <1>1, <1>2 DEF Inv

LEMMA CheckStep ==
  ASSUME Inv, NEW q \in Requests, NEW t \in Texts,
         \/ \E s \in Live : CreateCheck(q, t, s)
         \/ \E i \in Items, v \in 1..MaxVersion, s \in States : UpdateCheck(q, i, v, t, s)
         \/ \E S \in SUBSET Items : MergeCheck(q, S, t)
  PROVE  Inv'
<1>1. ASSUME NEW s \in Live, CreateCheck(q, t, s)
      PROVE  Inv'
  <2> DEFINE k == [op |-> "create", text |-> t, state |-> s, locks |-> {}]
  <2>1. k \in Work /\ k.locks = {}
    BY DEF Work, EditableStates, Live
  <2>2. work' = [work EXCEPT ![q] = k] /\ UNCHANGED rows
    BY <1>1 DEF CreateCheck
  <2> HIDE DEF k
  <2> QED
    BY <2>1, <2>2, Begun
<1>2. ASSUME NEW i \in Items, NEW v \in 1..MaxVersion, NEW s \in States, UpdateCheck(q, i, v, t, s)
      PROVE  Inv'
  <2> DEFINE k == [op |-> "update", text |-> t, state |-> s, locks |-> {i}]
  <2>1. k \in Work /\ k.locks = {i} /\ k.op = "update"
    BY <1>2 DEF UpdateCheck, Editable, Work, EditableStates
  <2>2. work' = [work EXCEPT ![q] = k] /\ UNCHANGED rows /\ Unlocked(i) /\ state[i] \in EditableStates
    BY <1>2 DEF UpdateCheck, Editable, EditableStates
  <2> HIDE DEF k
  <2> QED
    BY <2>1, <2>2, Begun
<1>3. ASSUME NEW S \in SUBSET Items, MergeCheck(q, S, t)
      PROVE  Inv'
  <2> DEFINE k == [op |-> "merge", text |-> t, state |-> "active", locks |-> S]
  <2>1. k \in Work /\ k.locks = S
    BY DEF Work, EditableStates
  <2>2. work' = [work EXCEPT ![q] = k] /\ UNCHANGED rows
        /\ \A i \in S : Unlocked(i) /\ state[i] \in {"active", "outdated"}
    BY <1>3 DEF MergeCheck
  <2> HIDE DEF k
  <2> QED
    BY <2>1, <2>2, Begun DEF EditableStates
<1> QED
  BY <1>1, <1>2, <1>3

\* Use cases that lock, check and change a row in one step.
LEMMA SingleStep ==
  ASSUME Inv, NEW i \in Items, NEW v \in 1..MaxVersion, Confirm(i, v) \/ Delete(i, v) \/ Restore(i, v)
  PROVE  Inv'
<1>1. PICK s \in {"active", "deleted"} : Change(i, s, text[i])
  BY DEF Confirm, Delete, Restore
<1>2. Unlocked(i) /\ i \notin overdue /\ UNCHANGED <<overdue, torn, work>>
  BY DEF Confirm, Delete, Restore, MayRestore, Inv, Overdue
<1>3. /\ RowType' /\ Versioned' /\ HistoryIsComplete'
      /\ state' = [state EXCEPT ![i] = s]
  BY <1>1, <1>2, ChangeStep DEF Inv, TypeOK, States
<1>4. Exclusive' /\ Locked'
  BY <1>2, <1>3, OthersKeepLocks DEF Inv, TypeOK
<1>5. Overdue'
  BY <1>2, <1>3 DEF Inv, TypeOK, Overdue
<1> QED
  BY <1>2, <1>3, <1>4, <1>5 DEF Inv, TypeOK, RowType

\* The commits of create and update.
LEMMA CommitStep ==
  ASSUME Inv, NEW q \in Requests, NEW i \in Items, CreateCommit(q, i) \/ UpdateCommit(q, i)
  PROVE  Inv'
<1>1. work[q] \in Work /\ work[q] # None
  BY DEF Inv, TypeOK, CreateCommit, UpdateCommit
<1>2. /\ Change(i, work[q].state, work[q].text)
      /\ work' = [work EXCEPT ![q] = None] /\ UNCHANGED <<overdue, torn>>
      /\ state[i] = "absent" \/ i \in work[q].locks
  BY DEF CreateCommit, UpdateCommit
<1>3. work[q].state \in EditableStates /\ work[q].text \in Texts
  BY <1>1 DEF Work
<1>4. /\ RowType' /\ Versioned' /\ HistoryIsComplete'
      /\ state' = [state EXCEPT ![i] = work[q].state]
  BY <1>2, <1>3, ChangeStep DEF States, EditableStates
<1>5. Exclusive' /\ Locked' /\ work' \in [Requests -> Work \cup {None}]
  BY <1>1, <1>2, <1>4, Ended DEF Inv, TypeOK, EditableStates
<1>6. state[i] # "deleted"
  BY <1>1, <1>2 DEF Inv, Locked, EditableStates
<1>7. Overdue'
  BY <1>2, <1>4, <1>6 DEF Inv, TypeOK, Overdue
<1> QED
  BY <1>4, <1>5, <1>7 DEF Inv, TypeOK, RowType

\* An update that fails after it has changed the row.
LEMMA InvalidStep ==
  ASSUME Inv, NEW q \in Requests, NEW i \in Items, UpdateInvalid(q, i)
  PROVE  Inv'
<1>1. /\ work[q] \in Work /\ work[q] # None /\ i \in work[q].locks
      /\ work' = [work EXCEPT ![q] = None] /\ UNCHANGED <<version, log, overdue>>
      /\ state' = [state EXCEPT ![i] = work[q].state]
      /\ text' = [text EXCEPT ![i] = work[q].text]
      /\ torn' = IF text' # text THEN torn \cup {i} ELSE torn
  BY DEF Inv, TypeOK, UpdateInvalid
<1>2. work[q].state \in EditableStates /\ work[q].text \in Texts /\ state[i] \in EditableStates
  BY <1>1 DEF Inv, Locked, Work
<1>3. Exclusive' /\ Locked' /\ work' \in [Requests -> Work \cup {None}]
  BY <1>1, Ended DEF Inv, TypeOK
<1>4. RowType'
  BY <1>1, <1>2 DEF Inv, TypeOK, RowType, EditableStates, States
<1>5. Versioned' /\ Overdue'
  BY <1>1, <1>2 DEF Inv, TypeOK, Versioned, Overdue, EditableStates
<1>6. HistoryIsComplete'
  <2>1. \A j \in Items : j \notin torn' => j \notin torn /\ text'[j] = text[j]
    BY <1>1 DEF Inv, TypeOK
  <2> QED
    BY <1>1, <2>1 DEF Inv, HistoryIsComplete
<1> QED
  BY <1>3, <1>4, <1>5, <1>6 DEF Inv, TypeOK, RowType

\* The commit of merge: the result is created, the sources are merged.
LEMMA MergeStep ==
  ASSUME Inv, NEW q \in Requests, NEW i \in Items, MergeCommit(q, i)
  PROVE  /\ Inv'
         /\ \A j \in Items : state'[j] = "merged" /\ state[j] # "merged"
                               => state[j] \in {"active", "outdated"}
<1> DEFINE S == work[q].locks
<1>1. /\ work[q] \in Work /\ work[q] # None /\ work[q].op = "merge" /\ state[i] = "absent"
      /\ work' = [work EXCEPT ![q] = None] /\ UNCHANGED <<overdue, torn>>
      /\ text' = [text EXCEPT ![i] = work[q].text]
      /\ state' = [j \in Items |-> IF j = i THEN "active" ELSE IF j \in S THEN "merged" ELSE state[j]]
      /\ version' = [j \in Items |-> IF j \in S \cup {i} THEN version[j] + 1 ELSE version[j]]
      /\ log' = [j \in Items |-> IF j \in S \cup {i} THEN Append(log[j], text'[j]) ELSE log[j]]
  BY DEF Inv, TypeOK, MergeCommit
<1>2. /\ S \subseteq Items /\ work[q].text \in Texts
      /\ \A j \in S : state[j] \in {"active", "outdated"}
  BY <1>1 DEF Inv, Locked, Work
<1>3. Exclusive' /\ Locked' /\ work' \in [Requests -> Work \cup {None}]
  BY <1>1, Ended DEF Inv, TypeOK, EditableStates
<1> HIDE DEF S
<1>4. RowType'
  BY <1>1, <1>2 DEF Inv, TypeOK, RowType, States
<1>5. Versioned' /\ Overdue'
  <2>1. Versioned'
    BY <1>1, <1>2 DEF Inv, TypeOK, Versioned
  <2>2. \A j \in overdue : j \notin S \cup {i}
    BY <1>1, <1>2 DEF Inv, Overdue
  <2> QED
    BY <1>1, <2>1, <2>2 DEF Inv, TypeOK, Overdue
<1>6. HistoryIsComplete'
  <2> SUFFICES ASSUME NEW j \in Items
               PROVE  /\ Len(log'[j]) = version'[j]
                      /\ version'[j] > 0 /\ j \notin torn' => log'[j][version'[j]] = text'[j]
    BY DEF HistoryIsComplete
  <2>1. CASE j \in S \cup {i}
    <3> DEFINE h == log[j]
               t == text'[j]
    <3>1. /\ h \in Seq(Texts \cup {None}) /\ Len(h) = version[j] /\ log'[j] = Append(h, t)
          /\ version'[j] = version[j] + 1 /\ t \in Texts \cup {None}
      BY <1>1, <1>4, <2>1 DEF Inv, TypeOK, RowType, HistoryIsComplete
    <3> HIDE DEF h, t
    <3>2. Len(Append(h, t)) = Len(h) + 1 /\ Append(h, t)[Len(h) + 1] = t
      BY <3>1
    <3> QED
      BY <3>1, <3>2 DEF t
  <2>2. CASE j \notin S \cup {i}
    BY <1>1, <2>2 DEF Inv, TypeOK, HistoryIsComplete
  <2> QED
    BY <2>1, <2>2
<1> QED
  BY <1>1, <1>2, <1>3, <1>4, <1>5, <1>6 DEF Inv, TypeOK, RowType

\* The worker's purge.
LEMMA PurgeStep ==
  ASSUME Inv, NEW late \in SUBSET Items, Purge(late)
  PROVE  Inv'
<1> DEFINE Gone == overdue \cup late
<1>1. /\ \A i \in Gone : state[i] = "deleted"
      /\ state' = [i \in Items |-> IF i \in Gone THEN "purged" ELSE state[i]]
      /\ text' = [i \in Items |-> IF i \in Gone THEN None ELSE text[i]]
      /\ log' = [i \in Items |-> IF i \in Gone THEN <<>> ELSE log[i]]
      /\ version' = [i \in Items |-> IF i \in Gone THEN 0 ELSE version[i]]
      /\ overdue' = {} /\ torn' = torn \ Gone /\ UNCHANGED work
  BY DEF Inv, Overdue, Purge
<1> HIDE DEF Gone
<1>2. TypeOK'
  BY <1>1 DEF Inv, TypeOK, States
<1>3. Exclusive' /\ Locked'
  BY <1>1 DEF Inv, TypeOK, Exclusive, Locked, Work, EditableStates
<1>4. Versioned' /\ Overdue'
  BY <1>1 DEF Inv, TypeOK, Versioned, Overdue
<1>5. HistoryIsComplete'
  BY <1>1 DEF Inv, TypeOK, HistoryIsComplete
<1> QED
  BY <1>2, <1>3, <1>4, <1>5 DEF Inv

\* Every step of the specification keeps the invariant.
LEMMA Inductive == Inv /\ [Next]_vars => Inv'
<1> SUFFICES ASSUME Inv, [Next]_vars
             PROVE  Inv'
  OBVIOUS
<1>1. ASSUME NEW q \in Requests, Rollback(q)
      PROVE  Inv'
  <2>1. Exclusive' /\ Locked' /\ work' \in [Requests -> Work \cup {None}]
    BY <1>1, Ended DEF Rollback, rows
  <2> QED
    BY <1>1, <2>1 DEF Rollback, rows, Inv, TypeOK, Versioned, Overdue, HistoryIsComplete
<1>2. ASSUME NEW i \in Items, DeadlinePasses(i)
      PROVE  Inv'
  BY <1>2 DEF DeadlinePasses, Inv, TypeOK, Exclusive, Locked, Versioned, Overdue, HistoryIsComplete
<1>3. CASE UNCHANGED vars
  BY <1>3 DEF vars, rows, Inv, TypeOK, Exclusive, Locked, Versioned, Overdue, HistoryIsComplete
<1> QED
  BY <1>1, <1>2, <1>3, CheckStep, SingleStep, CommitStep, InvalidStep, MergeStep, PurgeStep DEF Next

LEMMA Invariance == Spec => []Inv
<1>1. Init => Inv
  BY DEF Init, Inv, TypeOK, States, Exclusive, Locked, Versioned, Overdue, HistoryIsComplete
<1> QED
  BY <1>1, Inductive, PTL DEF Spec

\* The version history has one row for every version of an item, the last
\* with the text the item has, however requests, merges and purges interleave.
THEOREM CompleteHistory == Spec => []HistoryIsComplete
<1>1. Inv => HistoryIsComplete
  BY DEF Inv
<1> QED
  BY <1>1, Invariance, PTL

\* A merge consumes only items that are active or outdated when it commits.
THEOREM MergedWereLive == Spec => MergeConsumesLiveItems
<1> DEFINE Consumed(i) == state'[i] = "merged" /\ state[i] # "merged" => state[i] \in {"active", "outdated"}
<1>1. Inv /\ [Next]_vars => [\A i \in Items : Consumed(i)]_vars
  <2> SUFFICES ASSUME Inv, Next, NEW j \in Items
               PROVE  Consumed(j)
    BY DEF Consumed
  <2>1. ASSUME NEW q \in Requests, NEW i \in Items, MergeCommit(q, i)
        PROVE  Consumed(j)
    BY <2>1, MergeStep
  <2>2. ASSUME NEW i \in Items, NEW s, NEW t, Change(i, s, t), s # "merged"
        PROVE  Consumed(j)
    BY <2>2 DEF Change, Inv, TypeOK
  <2>3. ASSUME NEW q \in Requests, NEW i \in Items, CreateCommit(q, i) \/ UpdateCommit(q, i) \/ UpdateInvalid(q, i)
        PROVE  Consumed(j)
    <3>1. work[q] \in Work
      BY <2>3 DEF CreateCommit, UpdateCommit, UpdateInvalid, Inv, TypeOK
    <3>2. work[q].state # "merged"
      BY <3>1 DEF Work, EditableStates
    <3> QED
      BY <2>2, <2>3, <3>2 DEF CreateCommit, UpdateCommit, UpdateInvalid, Inv, TypeOK
  <2>4. ASSUME NEW i \in Items, NEW v \in 1..MaxVersion, Confirm(i, v) \/ Delete(i, v) \/ Restore(i, v)
        PROVE  Consumed(j)
    BY <2>2, <2>4 DEF Confirm, Delete, Restore
  <2>5. ASSUME UNCHANGED state
        PROVE  Consumed(j)
    BY <2>5
  <2>6. ASSUME NEW late \in SUBSET Items, Purge(late)
        PROVE  Consumed(j)
    BY <2>6 DEF Purge
  <2> QED
    BY <2>1, <2>3, <2>4, <2>5, <2>6
       DEF Next, CreateCheck, UpdateCheck, MergeCheck, Rollback, DeadlinePasses, rows
<1> QED
  BY <1>1, Invariance, PTL DEF Spec, MergeConsumesLiveItems

-----------------------------------------------------------------------------
(***************************************************************************)
(* MemoryIndex                                                             *)
(***************************************************************************)

\* With its documents Memory does what it does without them.
LEMMA IndexStep == IndexNext => [Next]_vars
BY DEF IndexNext, ChangeAndRequest, ChangeOnly, Index, IndexRead, IndexCommit, IndexGivenUp,
       PurgeAll, Next

\* MemoryIndex implements Memory: every step of it is a step of Memory or
\* leaves the memory items alone.
THEOREM IndexImplementsMemory == IndexSpec => Spec
<1>1. IndexInit => Init
  BY DEF IndexInit
<1>2. [IndexNext]_indexVars => [Next]_vars
  BY IndexStep DEF indexVars
<1> QED
  BY <1>1, <1>2, PTL DEF IndexSpec, Spec

\* h is a prefix of g.
Extends(g, h) == Len(h) <= Len(g) /\ \A n \in 1..Len(h) : g[n] = h[n]

LEMMA AppendExtends ==
  ASSUME NEW T, NEW h \in Seq(T), NEW t \in T
  PROVE  Extends(Append(h, t), h)
BY DEF Extends

\* Short of a purge a history only grows and an item that exists stays.
LEMMA HistoryGrows ==
  ASSUME Inv, ChangeAndRequest \/ ChangeOnly, NEW j \in Items
  PROVE  /\ state'[j] = "purged" <=> state[j] = "purged"
         /\ state[j] # "absent" => state'[j] # "absent"
         /\ Extends(log'[j], log[j])
         /\ j \in torn => j \in torn'
<1> DEFINE Grows == /\ state'[j] = "purged" <=> state[j] = "purged"
                    /\ state[j] # "absent" => state'[j] # "absent"
                    /\ Extends(log'[j], log[j])
                    /\ j \in torn => j \in torn'
<1> USE DEF Inv, TypeOK
<1>1. ASSUME UNCHANGED <<state, log, torn>>
      PROVE  Grows
  BY <1>1 DEF Extends
<1>2. ASSUME NEW i \in Items, NEW s \in States \ {"absent", "purged"}, NEW t \in Texts \cup {None},
             Change(i, s, t), UNCHANGED torn, state[i] # "purged"
      PROVE  Grows
  <2>1. state' = [state EXCEPT ![i] = s] /\ log' = [log EXCEPT ![i] = Append(@, t)]
    BY <1>2 DEF Change, Logged
  <2>2. CASE j = i
    BY <1>2, <2>1, <2>2, AppendExtends
  <2>3. CASE j # i
    BY <1>2, <2>1, <2>3 DEF Extends
  <2> QED
    BY <2>2, <2>3
<1>3. ASSUME NEW i \in Items, NEW v \in 1..MaxVersion, Confirm(i, v) \/ Delete(i, v) \/ Restore(i, v)
      PROVE  Grows
  BY <1>2, <1>3 DEF Confirm, Delete, Restore, MayRestore, States
<1>4. ASSUME NEW q \in Requests, NEW i \in Items, CreateCommit(q, i) \/ UpdateCommit(q, i)
      PROVE  Grows
  <2>1. /\ Change(i, work[q].state, work[q].text) /\ UNCHANGED torn
        /\ state[i] = "absent" \/ i \in work[q].locks
        /\ work[q] \in Work /\ work[q] # None
    BY <1>4 DEF CreateCommit, UpdateCommit
  <2>2. work[q].state \in EditableStates /\ work[q].text \in Texts
    BY <2>1 DEF Work
  <2>3. state[i] # "purged"
    BY <2>1 DEF Locked, EditableStates
  <2> QED
    BY <1>2, <2>1, <2>2, <2>3 DEF EditableStates, States
<1>5. ASSUME NEW q \in Requests, NEW i \in Items, UpdateInvalid(q, i)
      PROVE  Grows
  <2>1. /\ work[q] \in Work /\ work[q] # None /\ i \in work[q].locks
        /\ state' = [state EXCEPT ![i] = work[q].state] /\ UNCHANGED log
        /\ torn \subseteq torn'
    BY <1>5 DEF UpdateInvalid
  <2>2. work[q].state \in EditableStates /\ state[i] \in EditableStates
    BY <2>1 DEF Work, Locked
  <2> QED
    BY <2>1, <2>2 DEF EditableStates, Extends
<1>6. ASSUME NEW q \in Requests, NEW i \in Items, MergeCommit(q, i)
      PROVE  Grows
  <2> DEFINE S == work[q].locks
  <2>1. /\ work[q] \in Work /\ work[q] # None /\ state[i] = "absent" /\ UNCHANGED torn
        /\ state' = [k \in Items |-> IF k = i THEN "active" ELSE IF k \in S THEN "merged" ELSE state[k]]
        /\ log' = [k \in Items |-> IF k \in S \cup {i} THEN Append(log[k], text'[k]) ELSE log[k]]
    BY <1>6 DEF MergeCommit
  <2>2. S \subseteq Items /\ \A k \in S : state[k] # "purged"
    BY <2>1 DEF Work, Locked, EditableStates
  <2>3. text'[j] \in Texts \cup {None}
    BY <1>6, MergeStep
  <2> HIDE DEF S
  <2>4. Extends(log'[j], log[j])
    <3>1. CASE j \in S \cup {i}
      <4>1. log'[j] = Append(log[j], text'[j]) /\ log[j] \in Seq(Texts \cup {None})
        BY <2>1, <3>1
      <4> QED
        BY <2>3, <4>1, AppendExtends
    <3>2. CASE j \notin S \cup {i}
      BY <2>1, <3>2 DEF Extends
    <3> QED
      BY <3>1, <3>2
  <2> QED
    BY <2>1, <2>2, <2>4
<1> QED
  BY <1>1, <1>3, <1>4, <1>5, <1>6
     DEF ChangeAndRequest, ChangeOnly, CreateCheck, UpdateCheck, MergeCheck, Rollback,
         DeadlinePasses, rows

\* A version once written stays the version it is.
LEMMA VersionStays ==
  ASSUME Inv, ChangeAndRequest \/ ChangeOnly, NEW i \in Items, NEW v \in Nat, NEW t, IsVersion(i, v, t)
  PROVE  IsVersion(i, v, t)'
<1>1. Extends(log'[i], log[i]) /\ (i \in torn => i \in torn')
  BY HistoryGrows
<1>2. Len(log[i]) \in Nat /\ Len(log'[i]) \in Nat
  <2>1. Inv'
    BY Inductive, IndexStep DEF IndexNext
  <2> QED
    BY <2>1 DEF Inv, TypeOK
<1> QED
  BY <1>1, <1>2 DEF IsVersion, Extends

\* Changes of the items leave what was read and indexed correct.
LEMMA ChangeKeepsIndex ==
  ASSUME Inv, IndexInv, ChangeAndRequest \/ ChangeOnly
  PROVE  IndexInv'
<1>1. UNCHANGED <<doc, reading>>
  BY DEF ChangeAndRequest, ChangeOnly, RequestIndex, index
<1>2. Inv'
  BY Inductive, IndexStep DEF IndexNext
<1>3. Requested'
  <2>1. CASE ChangeOnly
    BY <2>1, HistoryGrows DEF ChangeOnly, index, IndexInv, Requested
  <2>2. CASE ChangeAndRequest
    <3>1. PICK i \in Items : /\ requests' = requests \cup {<<i, version[i] + 1>>}
                             /\ \/ \E q \in Requests : CreateCommit(q, i) \/ UpdateCommit(q, i) \/ MergeCommit(q, i)
                                \/ \E v \in 1..MaxVersion : Restore(i, v)
      BY <2>2 DEF ChangeAndRequest, RequestIndex
    <3>2. version'[i] = version[i] + 1
      BY <3>1 DEF CreateCommit, UpdateCommit, MergeCommit, Restore, Change, Inv, TypeOK
    <3>3. state'[i] # "absent" /\ version[i] + 1 \in Nat
      BY <1>2, <3>2 DEF Inv, TypeOK, Versioned
    <3> QED
      BY <3>1, <3>3, HistoryGrows DEF IndexInv, Requested
  <2> QED
    BY <2>1, <2>2
<1>4. ReadIsVersion'
  BY <1>1, VersionStays, HistoryGrows DEF IndexInv, ReadIsVersion
<1>5. DocumentIsAVersion'
  <2> SUFFICES ASSUME NEW i \in Items \ torn', doc[i] # None, state'[i] # "purged"
               PROVE  doc[i].version \in 1..Len(log'[i]) /\ log'[i][doc[i].version] = doc[i].text
    BY <1>1 DEF DocumentIsAVersion
  <2>1. i \notin torn /\ state[i] # "purged" /\ doc[i].version \in Nat
    BY HistoryGrows DEF IndexInv
  <2>2. IsVersion(i, doc[i].version, doc[i].text)
    BY <2>1 DEF IndexInv, DocumentIsAVersion, IsVersion
  <2> QED
    BY <1>1, <2>1, <2>2, VersionStays DEF IsVersion
<1> QED
  BY <1>1, <1>3, <1>4, <1>5 DEF IndexInv

\* The index job reads the item in one of its versions.
LEMMA ReadStep ==
  ASSUME Inv, IndexInv, NEW i \in Items, NEW n, IndexRead(i, n)
  PROVE  IndexInv'
<1>1. /\ UNCHANGED <<vars, requests, lost, doc>> /\ <<i, n>> \in requests
      /\ reading' = [item |-> i, sequence |-> n, state |-> state[i], text |-> text[i],
                     version |-> version[i]]
  BY DEF IndexRead
<1>2. /\ reading'.item = i /\ reading'.state = state[i] /\ reading'.text = text[i]
      /\ reading'.version = version[i]
  BY <1>1
<1>3. state[i] # "absent"
  BY <1>1 DEF IndexInv, Requested
<1>4. state[i] # "purged" => IsVersion(i, version[i], text[i])
  BY <1>3 DEF Inv, TypeOK, Versioned, HistoryIsComplete, IsVersion
<1>5. ReadIsVersion'
  BY <1>1, <1>2, <1>4 DEF ReadIsVersion, IsVersion, vars, rows
<1> QED
  BY <1>1, <1>2, <1>5 DEF Inv, TypeOK, IndexInv, Requested, DocumentIsAVersion, vars, rows

\* The document a job commits is the version it has read.
LEMMA IndexedStep ==
  ASSUME Inv, IndexInv, IndexCommit \/ IndexGivenUp
  PROVE  IndexInv'
<1>1. /\ reading # None /\ reading' = None /\ requests' \subseteq requests /\ UNCHANGED vars
      /\ doc' \in {doc, [doc EXCEPT ![reading.item] = Indexed]}
  BY DEF IndexCommit, IndexGivenUp
<1>2. reading.item \in Items /\ reading.text \in Texts \cup {None} /\ reading.version \in Nat
  BY <1>1 DEF IndexInv, ReadIsVersion
<1>3. \/ Indexed = doc[reading.item] /\ reading.state = "purged"
      \/ Indexed = None /\ reading.state # "purged"
      \/ Indexed = [text |-> reading.text, version |-> reading.version] /\ reading.state # "purged"
  BY DEF Indexed, ReadVersion
<1>4. Indexed \in [text : Texts \cup {None}, version : Nat] \cup {None}
  BY <1>2, <1>3 DEF IndexInv
<1>5. DocumentIsAVersion'
  <2> SUFFICES ASSUME NEW i \in Items \ torn, doc'[i] # None, state[i] # "purged"
               PROVE  doc'[i].version \in 1..Len(log[i]) /\ log[i][doc'[i].version] = doc'[i].text
    BY <1>1 DEF DocumentIsAVersion, vars, rows
  <2>1. CASE doc'[i] = doc[i]
    BY <2>1 DEF IndexInv, DocumentIsAVersion
  <2>2. CASE doc'[i] # doc[i]
    <3>1. i = reading.item /\ doc'[i] = Indexed
      BY <1>1, <1>2, <2>2 DEF IndexInv
    <3>2. doc'[i] = [text |-> reading.text, version |-> reading.version] /\ reading.state # "purged"
      BY <1>3, <2>2, <3>1
    <3>3. doc'[i].text = reading.text /\ doc'[i].version = reading.version
      BY <3>2
    <3> QED
      BY <1>1, <3>1, <3>2, <3>3 DEF IndexInv, ReadIsVersion, IsVersion
  <2> QED
    BY <2>1, <2>2
<1>6. doc' \in [Items -> [text : Texts \cup {None}, version : Nat] \cup {None}]
  <2> HIDE DEF Indexed
  <2> QED
    BY <1>1, <1>4 DEF IndexInv
<1> QED
  BY <1>1, <1>5, <1>6 DEF IndexInv, Requested, ReadIsVersion, vars, rows

\* A purge removes the items together with their histories.
LEMMA PurgeKeepsIndex ==
  ASSUME Inv, IndexInv, NEW late \in SUBSET Items, PurgeAll(late)
  PROVE  IndexInv'
<1> DEFINE Gone == overdue \cup late
<1>1. /\ state' = [i \in Items |-> IF i \in Gone THEN "purged" ELSE state[i]]
      /\ log' = [i \in Items |-> IF i \in Gone THEN <<>> ELSE log[i]]
      /\ torn' = torn \ Gone
      /\ doc' = [i \in Items |-> IF i \in overdue THEN None ELSE doc[i]]
      /\ reading' = None /\ UNCHANGED requests
  BY DEF PurgeAll, Purge
<1> HIDE DEF Gone
<1>2. Requested'
  BY <1>1 DEF IndexInv, Requested
<1>3. DocumentIsAVersion'
  BY <1>1 DEF IndexInv, DocumentIsAVersion
<1> QED
  BY <1>1, <1>2, <1>3 DEF IndexInv, ReadIsVersion

LEMMA IndexInvariance == IndexSpec => []IndexInv
<1>1. IndexInit => IndexInv
  BY DEF IndexInit, Init, IndexInv, Requested, ReadIsVersion, DocumentIsAVersion
<1>2. Inv /\ IndexInv /\ [IndexNext]_indexVars => IndexInv'
  <2> SUFFICES ASSUME Inv, IndexInv, [IndexNext]_indexVars
               PROVE  IndexInv'
    OBVIOUS
  <2>1. CASE UNCHANGED indexVars
    BY <2>1 DEF indexVars, vars, rows, index, IndexInv, Requested, ReadIsVersion, IsVersion,
                DocumentIsAVersion
  <2> QED
    BY <2>1, ChangeKeepsIndex, ReadStep, IndexedStep, PurgeKeepsIndex DEF IndexNext, Index
<1> QED
  BY <1>1, <1>2, IndexImplementsMemory, Invariance, PTL DEF IndexSpec

\* The search document of an item is the text of the version it names,
\* although the item may change while the embedding provider is called.
THEOREM DocumentIsVersion == IndexSpec => []DocumentIsAVersion
<1>1. IndexInv => DocumentIsAVersion
  BY DEF IndexInv
<1> QED
  BY <1>1, IndexInvariance, PTL

-----------------------------------------------------------------------------
(***************************************************************************)
(* No text is forgotten                                                    *)
(***************************************************************************)

\* The running job works for the request n of item i.
Serves(i, n) == reading # None /\ reading.item = i /\ reading.sequence = n

\* A request for item i that no job has read the item for.
Outstanding(i) == \E n \in Nat : <<i, n>> \in requests /\ ~Serves(i, n)

\* The running job has read the text item i still has.
ReadsCurrent(i) ==
  reading # None /\ reading.item = i /\ reading.text = text[i] /\ reading.state \in EditableStates

Current(i) == doc[i] # None /\ doc[i].text = text[i]

\* A text that is not in the search document is about to be: a job that was
\* overtaken by a change is followed by the one this change has asked for.
Accounted ==
  \A i \in Items : state[i] \in EditableStates /\ i \notin lost \cup torn =>
    \/ Outstanding(i) \/ ReadsCurrent(i)
    \/ Current(i) /\ (reading # None => reading.item # i)

\* The number of a request is a version its item has had.
Sequenced ==
  \A i \in Items, n \in Nat : <<i, n>> \in requests /\ state[i] # "purged" => n <= version[i]

\* A job runs for a request that is not done.
ReadOnRequest == reading # None => <<reading.item, reading.sequence>> \in requests

AccountInv == Accounted /\ Sequenced /\ ReadOnRequest

\* The text of an item in use is in its search document or an index request
\* for the item is waiting, unless a job of it was given up.
IndexedOrRequested ==
  \A i \in Items : state[i] \in EditableStates /\ i \notin lost \cup torn =>
    Current(i) \/ \E n \in Nat : <<i, n>> \in requests

\* A use case that asks for an index of i changes i, and other items only by
\* merging them.
LEMMA RequestedChange ==
  ASSUME Inv, NEW i \in Items, NEW j \in Items,
         \/ \E q \in Requests : CreateCommit(q, i) \/ UpdateCommit(q, i) \/ MergeCommit(q, i)
         \/ \E v \in 1..MaxVersion : Restore(i, v)
  PROVE  /\ version'[i] = version[i] + 1 /\ version'[j] >= version[j] /\ UNCHANGED torn
         /\ j # i => state'[j] = "merged" \/ (state'[j] = state[j] /\ text'[j] = text[j])
<1> USE DEF Inv, TypeOK
<1>1. ASSUME NEW s, NEW t, Change(i, s, t)
      PROVE  /\ version'[i] = version[i] + 1 /\ version'[j] >= version[j]
             /\ j # i => state'[j] = state[j] /\ text'[j] = text[j]
  BY <1>1 DEF Change
<1>2. ASSUME NEW q \in Requests, MergeCommit(q, i)
      PROVE  /\ version'[i] = version[i] + 1 /\ version'[j] >= version[j]
             /\ j # i => state'[j] = "merged" \/ (state'[j] = state[j] /\ text'[j] = text[j])
  BY <1>2 DEF MergeCommit
<1> QED
  BY <1>1, <1>2 DEF CreateCommit, UpdateCommit, MergeCommit, Restore

\* A text that is in use after a change was so before, or its index was asked
\* for in the same transaction.
LEMMA ChangesAreRequested ==
  ASSUME Inv, ChangeAndRequest \/ ChangeOnly, NEW j \in Items,
         state'[j] \in EditableStates, j \notin torn'
  PROVE  \/ state[j] \in EditableStates /\ text'[j] = text[j]
         \/ <<j, version[j] + 1>> \in requests'
<1> USE DEF Inv, TypeOK
<1>1. CASE ChangeAndRequest
  <2>1. PICK i \in Items : /\ requests' = requests \cup {<<i, version[i] + 1>>}
                           /\ \/ \E q \in Requests : CreateCommit(q, i) \/ UpdateCommit(q, i) \/ MergeCommit(q, i)
                              \/ \E v \in 1..MaxVersion : Restore(i, v)
    BY <1>1 DEF ChangeAndRequest, RequestIndex
  <2>2. j # i => state'[j] = "merged" \/ (state'[j] = state[j] /\ text'[j] = text[j])
    BY <2>1, RequestedChange
  <2> QED
    BY <2>1, <2>2 DEF EditableStates
<1>2. ASSUME NEW q \in Requests, NEW i \in Items, UpdateInvalid(q, i)
      PROVE  state[j] \in EditableStates /\ text'[j] = text[j]
  <2>1. /\ work[q] # None /\ i \in work[q].locks
        /\ text' = [text EXCEPT ![i] = work[q].text] /\ state' = [state EXCEPT ![i] = work[q].state]
        /\ text' # text => i \in torn'
    BY <1>2 DEF UpdateInvalid
  <2>2. state[i] \in EditableStates
    BY <2>1 DEF Locked
  <2> QED
    BY <2>1, <2>2
<1>3. ASSUME NEW i \in Items, NEW v \in 1..MaxVersion, Confirm(i, v) \/ Delete(i, v)
      PROVE  state[j] \in EditableStates /\ text'[j] = text[j]
  BY <1>3 DEF Confirm, Delete, Change, EditableStates
<1>4. ASSUME UNCHANGED <<state, text>>
      PROVE  state[j] \in EditableStates /\ text'[j] = text[j]
  BY <1>4
<1> QED
  BY <1>1, <1>2, <1>3, <1>4
     DEF ChangeOnly, CreateCheck, UpdateCheck, MergeCheck, Rollback, DeadlinePasses, rows

\* Short of a purge the version of an item never falls.
LEMMA VersionGrows ==
  ASSUME Inv, ChangeAndRequest \/ ChangeOnly, NEW j \in Items
  PROVE  version'[j] >= version[j]
<1> USE DEF Inv, TypeOK
<1>1. CASE ChangeAndRequest
  BY <1>1, RequestedChange DEF ChangeAndRequest
<1>2. ASSUME NEW i \in Items, NEW v \in 1..MaxVersion, Confirm(i, v) \/ Delete(i, v)
      PROVE  version'[j] >= version[j]
  <2>1. version' = [version EXCEPT ![i] = @ + 1]
    BY <1>2 DEF Confirm, Delete, Change
  <2> QED
    BY <2>1
<1>3. ASSUME UNCHANGED version
      PROVE  version'[j] >= version[j]
  BY <1>3
<1> QED
  BY <1>1, <1>2, <1>3
     DEF ChangeOnly, CreateCheck, UpdateCheck, MergeCheck, UpdateInvalid, Rollback, DeadlinePasses,
         rows

\* A change of an item that is being indexed asks for another index.
LEMMA ChangeKeepsAccount ==
  ASSUME Inv, IndexInv, AccountInv, ChangeAndRequest \/ ChangeOnly
  PROVE  AccountInv'
<1>1. UNCHANGED <<lost, doc, reading>> /\ requests \subseteq requests'
  BY DEF ChangeAndRequest, ChangeOnly, RequestIndex, index
<1>2. ASSUME NEW j \in Items, NEW n \in Nat, <<j, n>> \in requests', <<j, n>> \notin requests
      PROVE  version'[j] = version[j] + 1 /\ n = version[j] + 1
  <2>1. PICK i \in Items : /\ requests' = requests \cup {<<i, version[i] + 1>>}
                           /\ \/ \E q \in Requests : CreateCommit(q, i) \/ UpdateCommit(q, i) \/ MergeCommit(q, i)
                              \/ \E v \in 1..MaxVersion : Restore(i, v)
    BY <1>2 DEF ChangeAndRequest, ChangeOnly, RequestIndex, index
  <2> QED
    BY <1>2, <2>1, RequestedChange
<1>3. ReadOnRequest'
  BY <1>1 DEF AccountInv, ReadOnRequest
<1>4. Sequenced'
  <2> SUFFICES ASSUME NEW j \in Items, NEW n \in Nat, <<j, n>> \in requests', state'[j] # "purged"
               PROVE  n <= version'[j]
    BY DEF Sequenced
  <2>1. CASE <<j, n>> \in requests
    <3>1. n <= version[j]
      BY <2>1, HistoryGrows DEF AccountInv, Sequenced
    <3>2. version'[j] >= version[j] /\ version[j] \in Nat /\ version'[j] \in Nat
      <4>1. Inv'
        BY Inductive, IndexStep DEF IndexNext
      <4> QED
        BY <4>1, VersionGrows DEF Inv, TypeOK
    <3> QED
      BY <3>1, <3>2
  <2>2. CASE <<j, n>> \notin requests
    BY <1>2, <2>2 DEF Inv, TypeOK
  <2> QED
    BY <2>1, <2>2
<1>5. Accounted'
  <2> SUFFICES ASSUME NEW j \in Items, state'[j] \in EditableStates, j \notin lost' \cup torn'
               PROVE  \/ Outstanding(j)' \/ ReadsCurrent(j)'
                      \/ Current(j)' /\ (reading' # None => reading'.item # j)
    BY DEF Accounted
  <2>1. state[j] # "purged" /\ j \notin lost \cup torn
    BY <1>1, HistoryGrows DEF EditableStates
  <2>2. CASE <<j, version[j] + 1>> \in requests'
    <3>1. PICK n \in Nat : n = version[j] + 1 /\ version[j] \in Nat
      BY DEF Inv, TypeOK
    <3>2. reading # None /\ reading.item = j => reading.sequence # n
      <4> SUFFICES ASSUME <<j, n>> \in requests
                   PROVE  FALSE
        BY DEF AccountInv, ReadOnRequest
      <4>1. n <= version[j]
        BY <2>1 DEF AccountInv, Sequenced
      <4> QED
        BY <3>1, <4>1
    <3>3. <<j, n>> \in requests' /\ ~Serves(j, n)'
      BY <1>1, <2>2, <3>1, <3>2 DEF Serves
    <3> QED
      BY <3>3 DEF Outstanding
  <2>3. CASE state[j] \in EditableStates /\ text'[j] = text[j]
    <3>1. \/ Outstanding(j) \/ ReadsCurrent(j)
          \/ Current(j) /\ (reading # None => reading.item # j)
      BY <2>1, <2>3 DEF AccountInv, Accounted
    <3>2. Outstanding(j) => Outstanding(j)'
      BY <1>1 DEF Outstanding, Serves
    <3> QED
      BY <1>1, <2>3, <3>1, <3>2 DEF ReadsCurrent, Current
  <2> QED
    BY <2>2, <2>3, ChangesAreRequested
<1> QED
  BY <1>3, <1>4, <1>5 DEF AccountInv

\* A job that starts reads the text of the moment.
LEMMA ReadKeepsAccount ==
  ASSUME Inv, IndexInv, AccountInv, NEW i \in Items, NEW n \in Nat, IndexRead(i, n)
  PROVE  AccountInv'
<1> DEFINE r == [item |-> i, sequence |-> n, state |-> state[i], text |-> text[i], version |-> version[i]]
<1>1. /\ reading = None /\ <<i, n>> \in requests /\ UNCHANGED <<vars, requests, lost, doc>>
      /\ reading' = r
  BY DEF IndexRead
<1>2. /\ r.item = i /\ r.sequence = n /\ r.state = state[i] /\ r.text = text[i]
      /\ r # None
  <2>1. r \in Readings
    BY DEF Readings, Inv, TypeOK
  <2> QED
    BY <2>1, IndexAssumption
<1> HIDE DEF r
<1>3. Sequenced' /\ ReadOnRequest'
  BY <1>1, <1>2 DEF AccountInv, Sequenced, ReadOnRequest, vars, rows
<1>4. Accounted'
  <2> SUFFICES ASSUME NEW j \in Items, state[j] \in EditableStates, j \notin lost \cup torn
               PROVE  \/ Outstanding(j)' \/ ReadsCurrent(j)'
                      \/ Current(j)' /\ (reading' # None => reading'.item # j)
    BY <1>1 DEF Accounted, vars, rows
  <2>1. CASE j = i
    BY <1>1, <1>2, <2>1 DEF ReadsCurrent, vars, rows
  <2>2. CASE j # i
    <3>1. Outstanding(j) \/ Current(j)
      BY <1>1 DEF AccountInv, Accounted, ReadsCurrent
    <3>2. Outstanding(j) => Outstanding(j)'
      BY <1>1, <1>2, <2>2 DEF Outstanding, Serves
    <3> QED
      BY <1>1, <1>2, <2>2, <3>1, <3>2 DEF Current, vars, rows
  <2> QED
    BY <2>1, <2>2
<1> QED
  BY <1>3, <1>4 DEF AccountInv

\* A job that ends has written the text, or a later request is waiting, or
\* the job was given up.
LEMMA EndKeepsAccount ==
  ASSUME Inv, IndexInv, AccountInv, IndexCommit \/ IndexGivenUp
  PROVE  AccountInv'
<1>1. /\ reading # None /\ reading' = None /\ UNCHANGED vars
      /\ requests' = requests \ {<<reading.item, reading.sequence>>}
  BY DEF IndexCommit, IndexGivenUp
<1>2. reading.item \in Items /\ reading.text \in Texts \cup {None} /\ reading.version \in Nat
  BY <1>1 DEF IndexInv, ReadIsVersion
<1>3. Sequenced' /\ ReadOnRequest'
  BY <1>1 DEF AccountInv, Sequenced, ReadOnRequest, vars, rows
<1>4. ASSUME NEW j \in Items, Outstanding(j)
      PROVE  Outstanding(j)'
  <2>1. PICK n \in Nat : <<j, n>> \in requests /\ ~Serves(j, n)
    BY <1>4 DEF Outstanding
  <2>2. <<j, n>> \in requests'
    BY <1>1, <2>1 DEF Serves
  <2> QED
    BY <1>1, <2>2 DEF Outstanding, Serves
<1>5. ASSUME NEW j \in Items, ReadsCurrent(j), IndexCommit
      PROVE  Current(j)'
  <2>1. Indexed = [text |-> reading.text, version |-> reading.version]
    BY <1>5 DEF Indexed, ReadVersion, ReadsCurrent, EditableStates
  <2>2. Indexed \in Documents /\ Indexed.text = text[j]
    BY <1>2, <1>5, <2>1 DEF Documents, ReadsCurrent
  <2>3. doc'[j] = Indexed
    BY <1>5 DEF IndexCommit, ReadsCurrent, IndexInv
  <2> HIDE DEF Indexed
  <2> QED
    BY <1>1, <2>2, <2>3, IndexAssumption DEF Current, vars, rows
<1>6. ASSUME NEW j \in Items, Current(j), reading.item # j
      PROVE  Current(j)'
  <2>1. doc'[j] = doc[j]
    BY <1>6 DEF IndexCommit, IndexGivenUp, IndexInv
  <2> QED
    BY <1>1, <1>6, <2>1 DEF Current, vars, rows
<1>7. Accounted'
  <2> SUFFICES ASSUME NEW j \in Items, state[j] \in EditableStates, j \notin lost' \cup torn
               PROVE  Outstanding(j)' \/ Current(j)'
    BY <1>1 DEF Accounted, vars, rows
  <2>1. /\ lost \subseteq lost'
        /\ IndexGivenUp => j # reading.item
    BY DEF IndexCommit, IndexGivenUp
  <2>2. \/ Outstanding(j) \/ ReadsCurrent(j)
        \/ Current(j) /\ reading.item # j
    BY <1>1, <2>1 DEF AccountInv, Accounted
  <2>3. ReadsCurrent(j) => IndexCommit
    BY <2>1 DEF ReadsCurrent
  <2> QED
    BY <1>4, <1>5, <1>6, <2>2, <2>3
<1> QED
  BY <1>3, <1>7 DEF AccountInv

\* A purge takes only items that are not in use.
LEMMA PurgeKeepsAccount ==
  ASSUME Inv, IndexInv, AccountInv, NEW late \in SUBSET Items, PurgeAll(late)
  PROVE  AccountInv'
<1> DEFINE Gone == overdue \cup late
<1>1. /\ state' = [i \in Items |-> IF i \in Gone THEN "purged" ELSE state[i]]
      /\ text' = [i \in Items |-> IF i \in Gone THEN None ELSE text[i]]
      /\ version' = [i \in Items |-> IF i \in Gone THEN 0 ELSE version[i]]
      /\ torn' = torn \ Gone
      /\ doc' = [i \in Items |-> IF i \in overdue THEN None ELSE doc[i]]
      /\ overdue \subseteq Gone
      /\ reading = None /\ reading' = None /\ UNCHANGED <<requests, lost>>
  BY DEF PurgeAll, Purge
<1> HIDE DEF Gone
<1>2. Sequenced' /\ ReadOnRequest'
  BY <1>1 DEF AccountInv, Sequenced, ReadOnRequest
<1>3. Accounted'
  <2> SUFFICES ASSUME NEW j \in Items, state'[j] \in EditableStates, j \notin lost \cup torn'
               PROVE  Outstanding(j)' \/ Current(j)'
    BY <1>1 DEF Accounted
  <2>1. /\ j \notin Gone /\ state[j] \in EditableStates /\ j \notin lost \cup torn
        /\ text'[j] = text[j] /\ doc'[j] = doc[j]
    BY <1>1 DEF EditableStates
  <2>2. Outstanding(j) \/ Current(j)
    BY <1>1, <2>1 DEF AccountInv, Accounted, ReadsCurrent
  <2> QED
    BY <1>1, <2>1, <2>2 DEF Outstanding, Serves, Current
<1> QED
  BY <1>2, <1>3 DEF AccountInv

\* No text is forgotten: the text of an item in use is in its search document
\* or an index request for it is waiting, unless a job of it was given up.
\* This is what IndexCatchesUp needs besides a worker that goes on polling: a
\* change that commits while the job of the previous one waits for the
\* embedding provider is followed by a job of its own.
THEOREM NoTextForgotten == IndexSpec => []IndexedOrRequested
<1>1. IndexInit => AccountInv
  BY DEF IndexInit, Init, AccountInv, Accounted, Sequenced, ReadOnRequest, EditableStates
<1>2. Inv /\ IndexInv /\ AccountInv /\ [IndexNext]_indexVars => AccountInv'
  <2> SUFFICES ASSUME Inv, IndexInv, AccountInv, [IndexNext]_indexVars
               PROVE  AccountInv'
    OBVIOUS
  <2>1. CASE UNCHANGED indexVars
    BY <2>1 DEF indexVars, vars, rows, index, AccountInv, Accounted, Outstanding, Serves,
                ReadsCurrent, Current, Sequenced, ReadOnRequest
  <2>2. ASSUME NEW i \in Items, NEW n \in 1..MaxVersion, IndexRead(i, n)
        PROVE  AccountInv'
    BY <2>2, ReadKeepsAccount
  <2> QED
    BY <2>1, <2>2, ChangeKeepsAccount, EndKeepsAccount, PurgeKeepsAccount DEF IndexNext, Index
<1>3. IndexInv /\ AccountInv => IndexedOrRequested
  <2> SUFFICES ASSUME IndexInv, AccountInv, NEW i \in Items, state[i] \in EditableStates,
                      i \notin lost \cup torn
               PROVE  Current(i) \/ \E n \in Nat : <<i, n>> \in requests
    BY DEF IndexedOrRequested
  <2>1. ReadsCurrent(i) => \E n \in Nat : <<i, n>> \in requests
    BY DEF ReadsCurrent, AccountInv, ReadOnRequest, IndexInv, Requested
  <2> QED
    BY <2>1 DEF AccountInv, Accounted, Outstanding
<1> QED
  BY <1>1, <1>2, <1>3, IndexImplementsMemory, Invariance, IndexInvariance, PTL DEF IndexSpec
=============================================================================
