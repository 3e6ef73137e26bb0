------------------------- MODULE ConversationProofs -------------------------
(***************************************************************************)
(* Proofs about Conversation for any number of requests, turns and         *)
(* corrections.                                                            *)
(***************************************************************************)
EXTENDS Conversation, FiniteSetTheorems, TLAPS

Messages == [seq : Nat, role : {"user", "assistant"}, key : Keys, version : Nat]

\* The open transactions of a turn and of a correction.
Turns       == [op : {"turn"}, key : Keys, count : Nat]
Corrections == [op : {"correct"}, message : Messages, again : BOOLEAN]

\* The values of the rows and of the open transactions.
TypeOK ==
  /\ state \in {"absent", "active", "completed", "interrupted", "deleted", "purged"}
  /\ messages \subseteq Messages
  /\ count \in Nat
  /\ outbox \subseteq Nat \X {"turn", "reprocess", "closed"}
  /\ open \in [Requests -> Turns \cup Corrections \cup {None}]
  /\ jobs \subseteq {"finalize", "index"}

\* FOR UPDATE: at most one transaction holds the row, and what it has read
\* of the conversation is still so.
RowLock ==
  /\ \A p, q \in Requests : open[p] # None /\ open[q] # None => p = q
  /\ \A q \in Requests : open[q] # None =>
       /\ Exists
       /\ open[q].op = "turn" => state = "active" /\ open[q].count = count
       /\ open[q].op = "correct" => open[q].message \in messages

\* The messages M have the numbers 1 to n.
Numbered(M, n) ==
  /\ \A m \in M : m.seq \in 1..n
  /\ \A k \in 1..n : \E m \in M : m.seq = k

\* Until a conversation is closed its events are those of its messages.
EventsOfMessages == state \in {"absent", "active"} => \A e \in outbox : e[1] <= count

\* Nothing is indexed before the conversation is closed.
IndexedWhenClosed ==
  "index" \in jobs \/ reading # None \/ doc # None => state \notin {"absent", "active"}

\* The index job has read all messages the conversation has.
ReadHasEveryTurn ==
  reading # None =>
    /\ reading.state = "purged" => state = "purged"
    /\ reading.state # "purged" /\ Exists => Numbered(reading.content.messages, count)

\* The document has all messages the conversation has.
DocumentNumbered == doc # None /\ Exists => Numbered(doc.messages, count)

Inv ==
  /\ TypeOK /\ RowLock /\ Numbered(messages, count) /\ EventsOfMessages
  /\ IndexedWhenClosed /\ ReadHasEveryTurn /\ DocumentNumbered
-----------------------------------------------------------------------------
\* Steps that change nothing but who holds the row.
LEMMA LockStep ==
  ASSUME Inv, NEW q \in Requests,
         \/ \E k \in Keys : TurnBegin(q, k)
         \/ \E m \in messages, again \in BOOLEAN : CorrectBegin(q, m, again)
         \/ Rollback(q)
  PROVE  Inv'
<1> USE DEF Inv, TypeOK
<1>1. UNCHANGED <<row, outbox, work>>
  BY DEF TurnBegin, CorrectBegin, Rollback
<1>2. TypeOK' /\ RowLock'
  <2>1. ASSUME NEW k \in Keys, TurnBegin(q, k)
        PROVE  TypeOK' /\ RowLock'
    <3> DEFINE t == [op |-> "turn", key |-> k, count |-> count]
    <3>1. t \in Turns /\ t.op = "turn" /\ t.count = count
      BY DEF Turns
    <3>2. open' = [open EXCEPT ![q] = t] /\ LockFree /\ state = "active"
      BY <2>1 DEF TurnBegin
    <3> HIDE DEF t
    <3> QED
      BY <1>1, <3>1, <3>2 DEF row, work, RowLock, LockFree, Exists
  <2>2. ASSUME NEW m \in messages, NEW again \in BOOLEAN, CorrectBegin(q, m, again)
        PROVE  TypeOK' /\ RowLock'
    <3> DEFINE t == [op |-> "correct", message |-> m, again |-> again]
    <3>1. t \in Corrections /\ t.op = "correct" /\ t.message = m
      BY DEF Corrections
    <3>2. open' = [open EXCEPT ![q] = t] /\ LockFree /\ Exists
      BY <2>2 DEF CorrectBegin
    <3> HIDE DEF t
    <3> QED
      BY <1>1, <3>1, <3>2 DEF row, work, RowLock, LockFree, Exists
  <2>3. ASSUME Rollback(q)
        PROVE  TypeOK' /\ RowLock'
    BY <1>1, <2>3 DEF Rollback, Close, row, work, RowLock, Exists
  <2> QED
    BY <2>1, <2>2, <2>3
<1>3. /\ Numbered(messages, count)' /\ EventsOfMessages' /\ IndexedWhenClosed'
      /\ ReadHasEveryTurn' /\ DocumentNumbered'
  BY <1>1 DEF row, work, Numbered, EventsOfMessages, IndexedWhenClosed, ReadHasEveryTurn,
              DocumentNumbered, Exists
<1> QED
  BY <1>2, <1>3

\* A turn with both messages, or with one of them, numbers them in order.
LEMMA TurnNumbers ==
  ASSUME Inv, NEW q \in Requests, NEW Roles \in {{"user"}, {"user", "assistant"}},
         TurnCommit(q, Roles)
  PROVE  /\ state = "active" /\ UNCHANGED <<state, work>>
         /\ count' \in Nat /\ count' >= count
         /\ messages' \subseteq Messages /\ Numbered(messages, count)'
         /\ outbox' = outbox \/ (outbox' = outbox \cup {<<count + 1, "turn">>} /\ count' >= count + 1)
         /\ Close(q)
<1> USE DEF Inv, TypeOK
<1> DEFINE k == open[q].key
           n == open[q].count
           Added == NewTurns(k, Roles)
           Number(r) == IF r = "user" \/ Said("user", k) THEN n + 1 ELSE n + 2
           New == {[seq |-> Number(r), role |-> r, key |-> k, version |-> 1] : r \in Added}
<1>1. /\ open[q] # None /\ open[q].op = "turn" /\ Close(q)
      /\ messages' = messages \cup New
      /\ count' = n + Cardinality(Added)
      /\ outbox' = IF "user" \in Added THEN outbox \cup {<<n + 1, "turn">>} ELSE outbox
      /\ UNCHANGED <<state, work>>
  BY DEF TurnCommit, Counted
<1>2. state = "active" /\ n = count /\ n \in Nat /\ k \in Keys
  BY <1>1 DEF RowLock, Turns, Corrections
<1>3. /\ \A r \in Added : r \in {"user", "assistant"}
      /\ Added \in {{}, {"user"}, {"assistant"}, {"user", "assistant"}}
      /\ Added = {"assistant"} => Said("user", k)
      /\ "user" \in Added => ~Said("user", k)
  BY DEF NewTurns
<1>4. Cardinality(Added) = IF Added = {} THEN 0 ELSE IF Added = {"user", "assistant"} THEN 2 ELSE 1
  <2>1. Cardinality({}) = 0 /\ \A x : IsFiniteSet({x}) /\ Cardinality({x}) = 1
    BY FS_EmptySet, FS_Singleton
  <2>2. Cardinality({"user"} \cup {"assistant"}) = 2
    <3> DEFINE U == {"user"}
    <3>1. IsFiniteSet(U) /\ Cardinality(U) = 1 /\ "assistant" \notin U
      BY <2>1
    <3> HIDE DEF U
    <3>2. Cardinality(U \cup {"assistant"}) = Cardinality(U) + 1
      BY <3>1, FS_AddElement
    <3> QED
      BY <3>1, <3>2 DEF U
  <2>3. {"user"} \cup {"assistant"} = {"user", "assistant"}
    OBVIOUS
  <2> HIDE DEF Added
  <2> QED
    BY <1>3, <2>1, <2>2, <2>3
<1>5. \A r \in Added : Number(r) \in Nat
  BY <1>2
<1>6. New \subseteq Messages
  BY <1>2, <1>3, <1>5 DEF Messages
<1>7. /\ \A m \in New : m.seq \in (n + 1)..count'
      /\ \A i \in (n + 1)..count' : \E m \in New : m.seq = i
  <2>1. \A r \in Added : Number(r) \in (n + 1)..count'
    BY <1>1, <1>2, <1>3, <1>4
  <2>2. \A i \in (n + 1)..count' : \E r \in Added : Number(r) = i
    BY <1>1, <1>2, <1>3, <1>4
  <2>3. \A m \in New : \E r \in Added : m.seq = Number(r)
    OBVIOUS
  <2>4. ASSUME NEW r \in Added
        PROVE  \E m \in New : m.seq = Number(r)
    <3> DEFINE m == [seq |-> Number(r), role |-> r, key |-> k, version |-> 1]
    <3>1. m \in New /\ m.seq = Number(r)
      OBVIOUS
    <3> QED
      BY <3>1
  <2> HIDE DEF New, Added, Number
  <2>5. \A m \in New : m.seq \in (n + 1)..count'
    BY <2>1, <2>3
  <2>6. \A i \in (n + 1)..count' : \E m \in New : m.seq = i
    <3> SUFFICES ASSUME NEW i \in (n + 1)..count'
                 PROVE  \E m \in New : m.seq = i
      OBVIOUS
    <3>1. PICK r \in Added : Number(r) = i
      BY <2>2
    <3> QED
      BY <2>4, <3>1
  <2> QED
    BY <2>5, <2>6
<1>8. count' \in Nat /\ count' >= count /\ ("user" \in Added => count' >= count + 1)
  BY <1>1, <1>2, <1>4
<1> HIDE DEF New, Added, Number, n, k
<1>9. Numbered(messages, count)'
  <2>1. \A m \in messages' : m.seq \in 1..count'
    BY <1>1, <1>2, <1>7, <1>8 DEF Numbered
  <2>2. \A i \in 1..count' : \E m \in messages' : m.seq = i
    <3> SUFFICES ASSUME NEW i \in 1..count'
                 PROVE  \E m \in messages' : m.seq = i
      OBVIOUS
    <3>1. CASE i \in 1..count
      BY <1>1, <3>1 DEF Numbered
    <3>2. CASE i \in (n + 1)..count'
      BY <1>1, <1>7, <3>2
    <3> QED
      BY <1>2, <1>8, <3>1, <3>2
  <2> QED
    BY <2>1, <2>2 DEF Numbered
<1> QED
  BY <1>1, <1>2, <1>6, <1>8, <1>9

\* The commit of a turn.
LEMMA TurnStep ==
  ASSUME Inv, NEW q \in Requests, NEW Roles \in {{"user"}, {"user", "assistant"}},
         TurnCommit(q, Roles)
  PROVE  Inv'
<1>1. /\ state = "active" /\ UNCHANGED <<state, work>>
      /\ count' \in Nat /\ count' >= count
      /\ messages' \subseteq Messages /\ Numbered(messages, count)'
      /\ outbox' = outbox \/ (outbox' = outbox \cup {<<count + 1, "turn">>} /\ count' >= count + 1)
      /\ open' = [open EXCEPT ![q] = None]
  BY TurnNumbers DEF Close
<1> USE DEF Inv, TypeOK, work
<1>2. TypeOK'
  BY <1>1
<1>3. RowLock'
  <2>1. open[q] # None
    BY DEF TurnCommit
  <2> QED
    BY <1>1, <2>1 DEF RowLock
<1>4. EventsOfMessages'
  BY <1>1 DEF EventsOfMessages
<1>5. reading = None /\ doc = None /\ IndexedWhenClosed'
  BY <1>1 DEF IndexedWhenClosed
<1> QED
  BY <1>1, <1>2, <1>3, <1>4, <1>5 DEF ReadHasEveryTurn, DocumentNumbered

\* The commit of a correction: the message keeps its number.
LEMMA CorrectStep ==
  ASSUME Inv, NEW q \in Requests, CorrectCommit(q)
  PROVE  Inv'
<1> USE DEF Inv, TypeOK, work
<1> DEFINE m == open[q].message
           n == [m EXCEPT !.version = @ + 1]
<1>1. /\ open[q] # None /\ open[q].op = "correct"
      /\ messages' = (messages \ {m}) \cup {n}
      /\ outbox' \in {outbox, outbox \cup {<<m.seq, "reprocess">>}}
      /\ open' = [open EXCEPT ![q] = None]
      /\ UNCHANGED <<state, count, work>>
  BY DEF CorrectCommit, Close
<1>2. m \in messages /\ m \in Messages
  BY <1>1 DEF RowLock
<1>3. n \in Messages /\ n.seq = m.seq
  BY <1>2 DEF Messages
<1>4. m.seq \in 1..count /\ m.seq \in Nat
  BY <1>2 DEF Numbered, Messages
<1> HIDE DEF m, n
<1>5. TypeOK'
  BY <1>1, <1>3, <1>4
<1>6. RowLock'
  BY <1>1 DEF RowLock, Exists
<1>7. Numbered(messages, count)'
  <2>1. \A i \in messages' : i.seq \in 1..count'
    BY <1>1, <1>3, <1>4 DEF Numbered
  <2>2. \A i \in 1..count' : \E j \in messages' : j.seq = i
    <3> SUFFICES ASSUME NEW i \in 1..count
                 PROVE  \E j \in messages' : j.seq = i
      BY <1>1
    <3>1. PICK j \in messages : j.seq = i
      BY DEF Numbered
    <3>2. CASE j = m
      BY <1>1, <1>3, <3>1, <3>2
    <3>3. CASE j # m
      BY <1>1, <3>1, <3>3
    <3> QED
      BY <3>2, <3>3
  <2> QED
    BY <2>1, <2>2 DEF Numbered
<1>8. EventsOfMessages'
  BY <1>1, <1>4 DEF EventsOfMessages
<1>9. IndexedWhenClosed' /\ ReadHasEveryTurn' /\ DocumentNumbered'
  BY <1>1 DEF IndexedWhenClosed, ReadHasEveryTurn, DocumentNumbered, Numbered, Exists
<1> QED
  BY <1>5, <1>6, <1>7, <1>8, <1>9

\* Use cases of one step: no transaction is open, the messages stay.
LEMMA StateStep ==
  ASSUME Inv,
         \/ Start \/ UpdateMetadata \/ SoftDelete \/ Restore \/ DeadlinePasses
         \/ \E reason \in {"user_ended", "connection_lost"} : End(reason)
  PROVE  Inv'
<1> USE DEF Inv, TypeOK, work
<1>1. UNCHANGED <<messages, count, open, reading, doc>>
  BY DEF Start, UpdateMetadata, SoftDelete, Restore, DeadlinePasses, End
<1>2. Numbered(messages, count)'
  BY <1>1 DEF Numbered
<1>3. CASE UpdateMetadata \/ DeadlinePasses
  <2>1. UNCHANGED <<state, outbox, jobs>>
    BY <1>3 DEF UpdateMetadata, DeadlinePasses
  <2> QED
    BY <1>1, <1>2, <2>1 DEF RowLock, EventsOfMessages, IndexedWhenClosed, ReadHasEveryTurn,
                            DocumentNumbered, Numbered, Exists
<1>4. CASE Start
  <2>1. state = "absent" /\ state' = "active" /\ UNCHANGED <<outbox, jobs>>
    BY <1>4 DEF Start
  <2>2. "index" \notin jobs /\ reading = None /\ doc = None
    BY <2>1 DEF IndexedWhenClosed
  <2>3. \A q \in Requests : open[q] = None
    BY <2>1 DEF RowLock, Exists
  <2> QED
    BY <1>1, <1>2, <2>1, <2>2, <2>3 DEF RowLock, EventsOfMessages, IndexedWhenClosed,
       ReadHasEveryTurn, DocumentNumbered
<1>5. ASSUME LockFree, Exists, state' \in {"completed", "interrupted", "deleted"},
             outbox' \subseteq Nat \X {"turn", "reprocess", "closed"},
             jobs' \subseteq {"finalize", "index"}
      PROVE  Inv'
  BY <1>1, <1>2, <1>5 DEF LockFree, Exists, RowLock, EventsOfMessages, IndexedWhenClosed,
     ReadHasEveryTurn, DocumentNumbered, Numbered
<1>6. CASE SoftDelete \/ Restore
  BY <1>5, <1>6 DEF SoftDelete, Restore, Exists
<1>7. ASSUME NEW reason \in {"user_ended", "connection_lost"}, End(reason)
      PROVE  Inv'
  <2>1. LockFree /\ Exists /\ state' \in {"completed", "interrupted"} /\ jobs' = jobs \cup FollowUp
        /\ outbox' = outbox \cup {<<CloseSequence, "closed">>}
    BY <1>7 DEF End, Exists
  <2>2. CloseSequence \in Nat
    BY DEF CloseSequence
  <2>3. <<CloseSequence, "closed">> \in Nat \X {"turn", "reprocess", "closed"}
    BY <2>2
  <2> HIDE DEF CloseSequence
  <2> QED
    BY <1>5, <2>1, <2>3 DEF FollowUp
<1> QED
  BY <1>3, <1>4, <1>6, <1>7

\* The jobs of the worker.
LEMMA JobStep ==
  ASSUME Inv, FinalizeJob \/ IndexJob
  PROVE  Inv'
<1> USE DEF Inv, TypeOK, work, row
<1>1. UNCHANGED <<state, messages, count, outbox, open>> /\ jobs' \subseteq jobs
  BY DEF FinalizeJob, IndexJob, Finalize, GiveUp, IndexRead, IndexCommit
<1>2. TypeOK' /\ RowLock' /\ Numbered(messages, count)' /\ EventsOfMessages'
  BY <1>1 DEF RowLock, Numbered, EventsOfMessages, Exists
<1>3. CASE IndexRead
  <2>1. /\ reading' = [state |-> state, content |-> Content] /\ doc' = doc /\ "index" \in jobs
        /\ jobs' = jobs
    BY <1>3 DEF IndexRead
  <2>2. reading'.state = state /\ reading'.content.messages = messages
    BY <2>1 DEF Content
  <2>3. IndexedWhenClosed'
    BY <1>1, <2>1 DEF IndexedWhenClosed
  <2>4. ReadHasEveryTurn' /\ DocumentNumbered'
    BY <1>1, <2>1, <2>2 DEF ReadHasEveryTurn, DocumentNumbered, Numbered, Exists
  <2> QED
    BY <1>2, <2>3, <2>4
<1>4. CASE IndexCommit
  <2>1. reading # None /\ reading' = None /\ doc' = Indexed
    BY <1>4 DEF IndexCommit
  <2>2. \/ Indexed = doc
        \/ Indexed = None
        \/ Indexed = reading.content /\ reading.state # "purged"
    BY DEF Indexed
  <2>3. IndexedWhenClosed' /\ ReadHasEveryTurn'
    BY <1>1, <2>1 DEF IndexedWhenClosed, ReadHasEveryTurn
  <2>4. DocumentNumbered'
    BY <1>1, <2>1, <2>2 DEF ReadHasEveryTurn, DocumentNumbered, Numbered, Exists
  <2> QED
    BY <1>2, <2>3, <2>4
<1>5. CASE \/ GiveUp("finalize") \/ GiveUp("index")
           \/ \E source \in {"automatic", "system"} : Finalize(source)
  <2>1. reading' \in {reading, None} /\ doc' = doc
    BY <1>5 DEF GiveUp, Finalize
  <2>2. IndexedWhenClosed' /\ ReadHasEveryTurn' /\ DocumentNumbered'
    BY <1>1, <2>1 DEF IndexedWhenClosed, ReadHasEveryTurn, DocumentNumbered, Numbered, Exists
  <2> QED
    BY <1>2, <2>2
<1> QED
  BY <1>3, <1>4, <1>5 DEF FinalizeJob, IndexJob

LEMMA PurgeStep ==
  ASSUME Inv, Purge
  PROVE  Inv'
<1>1. /\ LockFree /\ reading' = None /\ state' = "purged" /\ messages' = {} /\ count' = 0
      /\ UNCHANGED <<outbox, open, jobs>>
  BY DEF Purge
<1> QED
  BY <1>1 DEF Inv, TypeOK, RowLock, LockFree, Numbered, EventsOfMessages, IndexedWhenClosed,
              ReadHasEveryTurn, DocumentNumbered, Exists

LEMMA Invariance == Spec => []Inv
<1>1. Init => Inv
  BY DEF Init, Inv, TypeOK, RowLock, Numbered, EventsOfMessages, IndexedWhenClosed,
         ReadHasEveryTurn, DocumentNumbered, Exists
<1>2. Inv /\ [Next]_vars => Inv'
  <2> SUFFICES ASSUME Inv, [Next]_vars
               PROVE  Inv'
    OBVIOUS
  <2>1. CASE UNCHANGED vars
    BY <2>1 DEF vars, row, work, Inv, TypeOK, RowLock, Numbered, EventsOfMessages,
                IndexedWhenClosed, ReadHasEveryTurn, DocumentNumbered, Exists
  <2> QED
    BY <2>1, LockStep, TurnStep, CorrectStep, StateStep, JobStep, PurgeStep DEF Next, Respond
<1> QED
  BY <1>1, <1>2, PTL DEF Spec

-----------------------------------------------------------------------------
(***************************************************************************)
(* The properties                                                          *)
(***************************************************************************)

\* The unique key of the outbox never refuses the next turn of an active
\* conversation or its end.
THEOREM EventsFit == Spec => []EventsAlwaysFit
<1>1. Inv => EventsAlwaysFit
  <2> SUFFICES ASSUME Inv, state = "active", NEW e \in outbox
               PROVE  e[1] # count + 1
    BY DEF EventsAlwaysFit, EventFits, CloseSequence
  <2>1. e[1] \in Nat /\ count \in Nat /\ e[1] <= count
    BY DEF Inv, TypeOK, EventsOfMessages
  <2> QED
    BY <2>1
<1> QED
  BY <1>1, Invariance, PTL

\* The search document has every turn of the conversation.
THEOREM DocumentIsComplete == Spec => []DocumentHasEveryTurn
<1>1. Inv => DocumentHasEveryTurn
  <2> SUFFICES ASSUME Inv, doc # None, Exists
               PROVE  {m.seq : m \in doc.messages} = 1..count
    BY DEF DocumentHasEveryTurn
  <2>1. Numbered(doc.messages, count)
    BY DEF Inv, DocumentNumbered
  <2> QED
    BY <2>1 DEF Numbered
<1> QED
  BY <1>1, Invariance, PTL

\* A conversation that was ended or deleted gets no more messages.
THEOREM ClosedGetsNoTurn == Spec => ClosedIsFinal
<1> DEFINE Final == Exists /\ state # "active" => count' = count \/ state' = "purged"
<1>1. Inv /\ [Next]_vars => [Final]_vars
  <2> SUFFICES ASSUME Inv, Next
               PROVE  Final
    OBVIOUS
  <2>1. ASSUME NEW q \in Requests, NEW Roles \in {{"user"}, {"user", "assistant"}},
               TurnCommit(q, Roles)
        PROVE  Final
    BY <2>1, TurnNumbers
  <2>2. CASE Purge
    BY <2>2 DEF Purge
  <2>3. ASSUME count' = count
        PROVE  Final
    BY <2>3
  <2> QED
    BY <2>1, <2>2, <2>3
       DEF Next, Respond, Start, TurnBegin, CorrectBegin, CorrectCommit, Rollback, End,
           UpdateMetadata, SoftDelete, Restore, DeadlinePasses, FinalizeJob, IndexJob, Finalize,
           GiveUp, IndexRead, IndexCommit, row
<1> QED
  BY <1>1, Invariance, PTL DEF Spec, ClosedIsFinal

\* A conversation that was ended has a title, or its job is waiting or was
\* given up, unless it is purged.
TitledOrOwed ==
  ended # None => title # "none" \/ "finalize" \in jobs \cup lost \/ state = "purged"

\* The end of a conversation is never forgotten: until it has a title its
\* finalize job is waiting or was given up, however the job, the metadata
\* screen, deletion and restore interleave.  EndedIsFinalized needs nothing
\* more but a worker that goes on polling.
THEOREM EndIsOwedATitle == Spec => []TitledOrOwed
<1>1. Init => TitledOrOwed
  BY DEF Init, TitledOrOwed
<1>2. TitledOrOwed /\ [Next]_vars => TitledOrOwed'
  <2> SUFFICES ASSUME TitledOrOwed, [Next]_vars
               PROVE  TitledOrOwed'
    OBVIOUS
  <2> USE DEF TitledOrOwed
  <2>1. ASSUME NEW reason \in {"user_ended", "connection_lost"}, End(reason)
        PROVE  TitledOrOwed'
    BY <2>1 DEF End, FollowUp
  <2>2. ASSUME NEW source \in {"automatic", "system"}, Finalize(source)
        PROVE  TitledOrOwed'
    BY <2>2 DEF Finalize
  <2>3. ASSUME NEW j, GiveUp(j)
        PROVE  TitledOrOwed'
    BY <2>3 DEF GiveUp, row
  <2>4. CASE Purge
    BY <2>4 DEF Purge
  <2>5. CASE UpdateMetadata
    BY <2>5 DEF UpdateMetadata, work
  <2>6. CASE IndexRead \/ IndexCommit
    BY <2>6 DEF IndexRead, IndexCommit, row
  <2>7. ASSUME UNCHANGED <<ended, title, work>>, state = "purged" => state' = "purged"
        PROVE  TitledOrOwed'
    BY <2>7 DEF work
  <2> QED
    BY <2>1, <2>2, <2>3, <2>4, <2>5, <2>6, <2>7
       DEF Next, vars, row, Start, TurnBegin, CorrectBegin, Respond, TurnCommit, CorrectCommit,
           Rollback, SoftDelete, Restore, DeadlinePasses, Exists, FinalizeJob, IndexJob
<1> QED
  BY <1>1, <1>2, PTL DEF Spec
=============================================================================
