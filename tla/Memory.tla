------------------------------- MODULE Memory -------------------------------
(***************************************************************************)
(* Long-term memory: backend/src/kajovodagmar/memory/service.py and the    *)
(* part of the worker's hourly purge that removes memory items.            *)
(*                                                                         *)
(* state, text, version, log, into and overdue are the committed rows.     *)
(* create, update and merge compare the new text with other rows some time *)
(* before they commit, so they take two steps; the use cases that touch    *)
(* only the row they have locked take one.  The outbox events of these use *)
(* cases and the search documents are added in MemoryIndex.                *)
(***************************************************************************)
EXTENDS Integers, Sequences, FiniteSets

LOCAL INSTANCE FiniteSetsExt

CONSTANTS
  Requests,      \* concurrent requests, each one transaction
  Items,         \* identities of memory items
  Texts,         \* canonical texts
  None,          \* no text, no item, no work
  MaxVersion,    \* bound: highest version of an item
  MaxChanges     \* bound: versions of all items together

ASSUME ConstantsAssumption ==
  /\ None \notin Texts \cup Items
  /\ MaxVersion \in Nat \ {0}
  /\ MaxChanges \in Nat

VARIABLES
  state,     \* MemoryItem.state, "absent" before and "purged" after the row
  text,      \* MemoryItem.content
  version,   \* MemoryItem.version
  log,       \* content of the MemoryVersion rows, by version_number
  into,      \* MemoryItem.merged_into_id
  overdue,   \* deleted items whose purge_after has passed
  torn,      \* history: items whose text a failing action has changed
  work       \* what a request has checked and is about to commit

rows == <<state, text, version, log, into, overdue, torn>>
vars == <<rows, work>>

States == {"absent", "pending_confirmation", "active", "outdated", "merged", "deleted", "purged"}
Live   == {"active", "pending_confirmation"}

Init ==
  /\ state = [i \in Items |-> "absent"]
  /\ text = [i \in Items |-> None]
  /\ version = [i \in Items |-> 0]
  /\ log = [i \in Items |-> <<>>]
  /\ into = [i \in Items |-> None]
  /\ overdue = {}
  /\ torn = {}
  /\ work = [q \in Requests |-> None]

-----------------------------------------------------------------------------
\* Mutant: the SELECT without FOR UPDATE.
UnlockedAlways(i) == i \in Items

\* SELECT ... FOR UPDATE returns when no open transaction holds the row.
Unlocked(i) == \A q \in Requests : work[q] # None => i \notin work[q].locks

\* Mutant: _record_version is forgotten.
LoggedNothing(i, t) == log

\* _record_version, and the first version create writes itself.
Logged(i, t) == [log EXCEPT ![i] = Append(@, t)]

\* The bounds allow one more version of every item in S.
Allowed(S) ==
  /\ \A i \in S : version[i] < MaxVersion
  /\ MapThenSumSet(LAMBDA i : version[i], Items) + Cardinality(S) <= MaxChanges

\* The locked row i changes to state s and text t under a new version.
Change(i, s, t) ==
  /\ Allowed({i})
  /\ state' = [state EXCEPT ![i] = s]
  /\ text' = [text EXCEPT ![i] = t]
  /\ version' = [version EXCEPT ![i] = @ + 1]
  /\ log' = Logged(i, t)

\* create, first half: the duplicate check over active and pending rows.  An
\* explicit or manual text, and every confirmed one, is active at once; a
\* suggestion waits for confirmation.
CreateCheck(q, t, s) ==
  /\ work[q] = None
  /\ \A j \in Items : state[j] \in Live => text[j] # t
  /\ work' = [work EXCEPT ![q] = [op |-> "create", text |-> t, state |-> s, locks |-> {}]]
  /\ UNCHANGED rows

\* The row, its first version, its source and the outbox event.
CreateCommit(q, i) ==
  /\ work[q] # None /\ work[q].op = "create"
  /\ state[i] = "absent"
  /\ Change(i, work[q].state, work[q].text)
  /\ work' = [work EXCEPT ![q] = None]
  /\ UNCHANGED <<into, overdue, torn>>

Confirm(i, v) ==
  /\ Unlocked(i)
  /\ version[i] = v
  /\ state[i] = "pending_confirmation"
  /\ Change(i, "active", text[i])
  /\ UNCHANGED <<into, overdue, torn, work>>

Editable(i) == state[i] \in {"pending_confirmation", "active", "outdated"}

\* update, first half: the row is locked and its version compared.  A new
\* text is compared with ONE other active or pending row (LIMIT 1).
UpdateCheck(q, i, v, t, s) ==
  /\ work[q] = None
  /\ Unlocked(i)
  /\ version[i] = v
  /\ Editable(i)
  /\ s \in {state[i], "outdated"}
  /\ \/ t = text[i]
     \/ LET Others == {j \in Items \ {i} : state[j] \in Live}
        IN  Others = {} \/ \E j \in Others : text[j] # t
  /\ work' = [work EXCEPT ![q] = [op |-> "update", text |-> t, state |-> s, locks |-> {i}]]
  /\ UNCHANGED rows

UpdateCommit(q, i) ==
  /\ work[q] # None /\ work[q].op = "update"
  /\ i \in work[q].locks
  /\ Change(i, work[q].state, work[q].text)
  /\ work' = [work EXCEPT ![q] = None]
  /\ UNCHANGED <<into, overdue, torn>>

\* The validity interval turns out to be wrong after the row was changed.
\* Raised through confirm_action the error is durable and the changed fields
\* are committed with it; a request of the memory screen is rolled back.
UpdateInvalid(q, i) ==
  /\ work[q] # None /\ work[q].op = "update"
  /\ i \in work[q].locks
  /\ text' = [text EXCEPT ![i] = work[q].text]
  /\ state' = [state EXCEPT ![i] = work[q].state]
  /\ work' = [work EXCEPT ![q] = None]
  /\ torn' = IF text' # text THEN torn \cup {i} ELSE torn
  /\ UNCHANGED <<version, log, into, overdue>>

Delete(i, v) ==
  /\ Unlocked(i)
  /\ version[i] = v
  /\ state[i] \notin {"absent", "purged", "deleted"}
  /\ Change(i, "deleted", text[i])
  /\ UNCHANGED <<into, overdue, torn, work>>

MayRestore(i) == state[i] = "deleted" /\ i \notin overdue

\* Whatever the item was before, it comes back active.
Restore(i, v) ==
  /\ Unlocked(i)
  /\ version[i] = v
  /\ MayRestore(i)
  /\ Change(i, "active", text[i])
  /\ UNCHANGED <<into, overdue, torn, work>>

\* merge, first half: the sources are locked, then create() checks the text
\* of the result against all active and pending rows, the sources included.
MergeCheck(q, S, t) ==
  /\ work[q] = None
  /\ Cardinality(S) >= 2
  /\ \A i \in S : Unlocked(i) /\ state[i] \in {"active", "outdated"}
  /\ \A j \in Items : state[j] \in Live => text[j] # t
  /\ work' = [work EXCEPT ![q] = [op |-> "merge", text |-> t, state |-> "active", locks |-> S]]
  /\ UNCHANGED rows

MergeCommit(q, i) ==
  LET S == work[q].locks IN
  /\ work[q] # None /\ work[q].op = "merge"
  /\ state[i] = "absent"
  /\ Allowed(S \cup {i})
  /\ state' = [j \in Items |-> IF j = i THEN "active" ELSE IF j \in S THEN "merged" ELSE state[j]]
  /\ text' = [text EXCEPT ![i] = work[q].text]
  /\ version' = [j \in Items |-> IF j \in S \cup {i} THEN version[j] + 1 ELSE version[j]]
  /\ log' = [j \in Items |-> IF j \in S \cup {i} THEN Append(log[j], text'[j]) ELSE log[j]]
  /\ into' = [j \in Items |-> IF j \in S THEN i ELSE into[j]]
  /\ work' = [work EXCEPT ![q] = None]
  /\ UNCHANGED <<overdue, torn>>

Rollback(q) ==
  /\ work[q] # None
  /\ work' = [work EXCEPT ![q] = None]
  /\ UNCHANGED rows

-----------------------------------------------------------------------------
DeadlinePasses(i) ==
  /\ state[i] = "deleted" /\ i \notin overdue
  /\ overdue' = overdue \cup {i}
  /\ UNCHANGED <<state, text, version, log, into, torn, work>>

\* purge_expired reads the clock again when it deletes the rows: besides the
\* overdue items it takes those whose deadline passes while it is running.
\* Versions and sources go by cascade, merged_into_id is set to null.
Purge(late) ==
  LET Gone == overdue \cup late IN
  /\ Gone # {}
  /\ \A i \in late : state[i] = "deleted"
  /\ state' = [i \in Items |-> IF i \in Gone THEN "purged" ELSE state[i]]
  /\ text' = [i \in Items |-> IF i \in Gone THEN None ELSE text[i]]
  /\ log' = [i \in Items |-> IF i \in Gone THEN <<>> ELSE log[i]]
  /\ into' = [i \in Items |-> IF i \in Gone \/ into[i] \in Gone THEN None ELSE into[i]]
  /\ version' = [i \in Items |-> IF i \in Gone THEN 0 ELSE version[i]]
  /\ overdue' = {}
  /\ torn' = torn \ Gone
  /\ UNCHANGED work

Next ==
  \/ \E q \in Requests, t \in Texts, s \in Live : CreateCheck(q, t, s)
  \/ \E q \in Requests, i \in Items : CreateCommit(q, i)
  \/ \E i \in Items, v \in 1..MaxVersion : Confirm(i, v)
  \/ \E q \in Requests, i \in Items, v \in 1..MaxVersion, t \in Texts, s \in States :
       UpdateCheck(q, i, v, t, s)
  \/ \E q \in Requests, i \in Items : UpdateCommit(q, i)
  \/ \E q \in Requests, i \in Items : UpdateInvalid(q, i)
  \/ \E i \in Items, v \in 1..MaxVersion : Delete(i, v)
  \/ \E i \in Items, v \in 1..MaxVersion : Restore(i, v)
  \/ \E q \in Requests, S \in SUBSET Items, t \in Texts : MergeCheck(q, S, t)
  \/ \E q \in Requests, i \in Items : MergeCommit(q, i)
  \/ \E q \in Requests : Rollback(q)
  \/ \E i \in Items : DeadlinePasses(i)
  \/ \E late \in SUBSET Items : Purge(late)

Spec == Init /\ [][Next]_vars

-----------------------------------------------------------------------------
(***************************************************************************)
(* Properties                                                              *)
(***************************************************************************)

\* The version history is complete: it has one row for every version of an
\* item, and the last one has the text it has now, unless a failing action
\* has changed the item.
HistoryIsComplete ==
  \A i \in Items :
    /\ Len(log[i]) = version[i]
    /\ version[i] > 0 /\ i \notin torn => log[i][version[i]] = text[i]

\* A merged item was active or outdated until the moment of the merge, in
\* spite of everything done to it since the merge looked at it.
MergeConsumesLiveItems ==
  [][\A i \in Items : state'[i] = "merged" /\ state[i] # "merged" => state[i] \in {"active", "outdated"}]_vars

\* Every change of an item's text or state is a new version of the item.
ChangesAreVersioned ==
  [][\A i \in Items : state'[i] # "purged" /\ (text'[i] # text[i] \/ state'[i] # state[i])
                         => version'[i] = version[i] + 1]_vars
=============================================================================
