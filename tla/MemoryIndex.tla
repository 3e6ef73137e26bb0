---------------------------- MODULE MemoryIndex ----------------------------
(***************************************************************************)
(* Memory with its search documents: the outbox events the use cases of    *)
(* memory/service.py commit together with their change, the memory_index   *)
(* job of worker.py and the documents purge_expired removes.               *)
(*                                                                         *)
(* One worker process runs its jobs one after the other, between a read of *)
(* the item and the commit of its document lies a call of the embedding    *)
(* provider.  How a job is retried is in JobQueue: here it is done or,     *)
(* after its last attempt, given up.                                       *)
(***************************************************************************)
EXTENDS Memory

\* Search documents, and what a job has read of an item.
Documents == [text : Texts \cup {None}, version : Nat]
Readings  == [item : Items, sequence : Nat, state : States, text : Texts \cup {None}, version : Nat]

ASSUME IndexAssumption == None \notin Documents \cup Readings

VARIABLES
  requests,  \* <<item, sequence>>: index requests not yet done or given up
  lost,      \* items with an index job that was given up
  doc,       \* the search document of an item: text and source_version
  reading    \* what the running index job has read

index     == <<requests, lost, doc, reading>>
indexVars == <<vars, index>>

IndexInit ==
  /\ Init
  /\ requests = {}
  /\ lost = {}
  /\ doc = [i \in Items |-> None]
  /\ reading = None

-----------------------------------------------------------------------------
\* Mutant: the outbox event is forgotten.
RequestIndexNever(i) == i \in Items /\ UNCHANGED index

\* The outbox event memory.index_requested, with the new version of the item
\* as its sequence, in the transaction of the change.
RequestIndex(i) ==
  /\ requests' = requests \cup {<<i, version[i] + 1>>}
  /\ UNCHANGED <<lost, doc, reading>>

\* create, update, restore and merge ask for a new index; confirm, delete and
\* the sources of a merge do not, nor does a change committed with an error.
ChangeAndRequest ==
  \E i \in Items :
    /\ \/ \E q \in Requests : CreateCommit(q, i) \/ UpdateCommit(q, i) \/ MergeCommit(q, i)
       \/ \E v \in 1..MaxVersion : Restore(i, v)
    /\ RequestIndex(i)

ChangeOnly ==
  /\ \/ \E q \in Requests, t \in Texts :
          \/ \E s \in Live : CreateCheck(q, t, s)
          \/ \E i \in Items, v \in 1..MaxVersion, s \in States : UpdateCheck(q, i, v, t, s)
          \/ \E S \in SUBSET Items : MergeCheck(q, S, t)
     \/ \E q \in Requests : Rollback(q) \/ \E i \in Items : UpdateInvalid(q, i)
     \/ \E i \in Items, v \in 1..MaxVersion : Confirm(i, v) \/ Delete(i, v)
     \/ \E i \in Items : DeadlinePasses(i)
  /\ UNCHANGED index

-----------------------------------------------------------------------------
\* memory_index reads the item, then calls the embedding provider.
IndexRead(i, n) ==
  /\ reading = None
  /\ <<i, n>> \in requests
  /\ reading' = [item |-> i, sequence |-> n,
                 state |-> state[i], text |-> text[i], version |-> version[i]]
  /\ UNCHANGED <<vars, requests, lost, doc>>

\* Mutant: the version of the document is read after the provider's answer.
ReadVersionLate == version[reading.item]

ReadVersion == reading.version

\* A missing document is written whatever the state of the item; an existing
\* one is removed for a deleted or merged item.  A purged item has no row.
Indexed ==
  CASE reading.state = "purged" -> doc[reading.item]
    [] reading.state \in {"deleted", "merged"} /\ doc[reading.item] # None -> None
    [] OTHER -> [text |-> reading.text, version |-> ReadVersion]

IndexCommit ==
  /\ reading # None
  /\ doc' = [doc EXCEPT ![reading.item] = Indexed]
  /\ requests' = requests \ {<<reading.item, reading.sequence>>}
  /\ reading' = None
  /\ UNCHANGED <<vars, lost>>

\* The last attempt fails: its savepoint is rolled back, the job is failed.
IndexGivenUp ==
  /\ reading # None
  /\ requests' = requests \ {<<reading.item, reading.sequence>>}
  /\ lost' = lost \cup {reading.item}
  /\ reading' = None
  /\ UNCHANGED <<vars, doc>>

\* The documents go with the items that were overdue when the job selected
\* them, the rows with those that are when they are deleted.
PurgeAll(late) ==
  /\ reading = None
  /\ Purge(late)
  /\ doc' = [i \in Items |-> IF i \in overdue THEN None ELSE doc[i]]
  /\ UNCHANGED <<requests, lost, reading>>

Index ==
  \/ \E i \in Items, n \in 1..MaxVersion : IndexRead(i, n)
  \/ IndexCommit
  \/ IndexGivenUp

IndexNext == ChangeAndRequest \/ ChangeOnly \/ Index \/ \E late \in SUBSET Items : PurgeAll(late)

IndexSpec == IndexInit /\ [][IndexNext]_indexVars

\* The worker polls without end, and every job is done or given up.
IndexFairSpec == IndexSpec /\ WF_indexVars(Index)

-----------------------------------------------------------------------------
(***************************************************************************)
(* Properties                                                              *)
(***************************************************************************)

\* The search document of an item is the text of the very version it names,
\* although the item may change between the read and the commit of the job.
\* Not so for an item a failing action has changed.
DocumentIsAVersion ==
  \A i \in Items \ torn : doc[i] # None /\ state[i] # "purged" =>
    /\ doc[i].version \in 1..Len(log[i])
    /\ log[i][doc[i].version] = doc[i].text

\* The index catches up: the text of an active item ends up in its search
\* document, unless it is withdrawn or its job is given up.
IndexCatchesUp ==
  \A i \in Items : state[i] = "active" ~>
    \/ state[i] # "active"
    \/ i \in lost \cup torn
    \/ doc[i] # None /\ doc[i].text = text[i]
=============================================================================
