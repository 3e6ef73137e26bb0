---------------------------- MODULE Conversation ----------------------------
(***************************************************************************)
(* The life of one conversation: backend/src/kajovodagmar/conversations/   *)
(* service.py, history/service.py and the jobs of worker.py that finalize, *)
(* index and purge it.                                                     *)
(*                                                                         *)
(* Every use case locks the conversation row.  A turn holds the lock from  *)
(* add_user_turn to the commit after the assistant's answer, through the   *)
(* calls of the model; a correction is refused only when it is flushed.    *)
(* These two are open transactions, the others take one step.  A request   *)
(* with an outdated expected_version is refused and changes nothing.       *)
(***************************************************************************)
EXTENDS Integers, FiniteSets

CONSTANTS
  Requests,     \* concurrent requests, each one transaction
  Keys,         \* idempotency keys of user turns
  None,         \* no transaction, no document, no end
  MaxRevision   \* bound: highest version of a message

ASSUME ConstantsAssumption ==
  /\ None \notin {"user_ended", "connection_lost"}
  /\ MaxRevision \in Nat \ {0}

VARIABLES
  state,     \* Conversation.state, "absent" before and "purged" after the row
  ended,     \* end_reason, None while ended_at is null
  overdue,   \* purge_after has passed
  messages,  \* ConversationMessage rows: sequence, role, key and version
  count,     \* Conversation.message_count
  title,     \* source of title and summary, "none" before there is one
  outbox,    \* <<sequence, event_type>> of the conversation's outbox events
  open,      \* the transaction a request has open
  jobs,      \* finalize and index jobs that are not done
  lost,      \* jobs given up after their last attempt
  reading,   \* what the running index job has read
  doc        \* the search document

row  == <<state, ended, overdue, messages, count, title>>
work == <<jobs, lost, reading, doc>>
vars == <<row, outbox, open, work>>

Exists == state \notin {"absent", "purged"}

Init ==
  /\ state = "absent" /\ ended = None /\ overdue = FALSE
  /\ messages = {} /\ count = 0 /\ title = "none"
  /\ outbox = {}
  /\ open = [q \in Requests |-> None]
  /\ jobs = {} /\ lost = {} /\ reading = None /\ doc = None

\* Mutant: the SELECT without FOR UPDATE.
LockFreeAlways == state # "absent"

\* SELECT ... FOR UPDATE returns when no open transaction holds the row.
LockFree == \A q \in Requests : open[q] = None

\* The unique key of outbox_event: aggregate and sequence, not the type.
EventFits(n) == \A e \in outbox : e[1] # n

Close(q) == open' = [open EXCEPT ![q] = None]

-----------------------------------------------------------------------------
(***************************************************************************)
(* conversations/service.py                                                *)
(***************************************************************************)

\* start, and continue_from of an earlier conversation.
Start ==
  /\ state = "absent"
  /\ state' = "active"
  /\ UNCHANGED <<ended, overdue, messages, count, title, outbox, open, work>>

\* add_user_turn, then answer: the lock is taken, the model is called.
TurnBegin(q, k) ==
  /\ open[q] = None /\ LockFree
  /\ state = "active"
  /\ open' = [open EXCEPT ![q] = [op |-> "turn", key |-> k, count |-> count]]
  /\ UNCHANGED <<row, outbox, work>>

Said(r, k) == \E m \in messages : m.role = r /\ m.key = k

\* Turns that are not yet stored under their key.
NewTurns(k, Roles) == {r \in Roles : ~Said(r, k)}

\* message_count += 1 for every message.
Counted(Added) == Cardinality(Added)

\* The commit of a turn: with both messages, or with the user's alone after
\* a failure marked durable.  A message stored under the same key by an
\* earlier try stays as it is, its event was stored with it.
TurnCommit(q, Roles) ==
  LET k == open[q].key
      n == open[q].count
      Added == NewTurns(k, Roles)
      Seq(r) == IF r = "user" \/ Said("user", k) THEN n + 1 ELSE n + 2
  IN
  /\ open[q] # None /\ open[q].op = "turn"
  /\ \A r \in Added : \A m \in messages : m.seq # Seq(r)
  /\ "user" \in Added => EventFits(n + 1)
  /\ messages' = messages \cup {[seq |-> Seq(r), role |-> r, key |-> k, version |-> 1] : r \in Added}
  /\ count' = n + Counted(Added)
  /\ outbox' = IF "user" \in Added THEN outbox \cup {<<n + 1, "turn">>} ELSE outbox
  /\ Close(q)
  /\ UNCHANGED <<state, ended, overdue, title, work>>

\* correct_transcript locks the message and, by its join, the conversation.
CorrectBegin(q, m, again) ==
  /\ open[q] = None /\ LockFree
  /\ Exists
  /\ m.role = "user" /\ m.version < MaxRevision
  /\ open' = [open EXCEPT ![q] = [op |-> "correct", message |-> m, again |-> again]]
  /\ UNCHANGED <<row, outbox, work>>

\* The new text, its revision and, when a new answer is asked for, an event
\* with the sequence of the message.  The conversation row does not change.
CorrectCommit(q) ==
  LET m == open[q].message IN
  /\ open[q] # None /\ open[q].op = "correct"
  /\ open[q].again => EventFits(m.seq)
  /\ messages' = (messages \ {m}) \cup {[m EXCEPT !.version = @ + 1]}
  /\ outbox' = IF open[q].again THEN outbox \cup {<<m.seq, "reprocess">>} ELSE outbox
  /\ Close(q)
  /\ UNCHANGED <<state, ended, overdue, count, title, work>>

Rollback(q) ==
  /\ open[q] # None
  /\ Close(q)
  /\ UNCHANGED <<row, outbox, work>>

\* Mutant: the sequence of the last message.
CloseSequenceOfLast == count

CloseSequence == count + 1

\* Mutant: the event of the end is forgotten.
FollowUpNone == {}

\* dispatch_outbox turns the event conversation.closed into two jobs.
FollowUp == {"finalize", "index"}

\* end: only an active conversation changes.
End(reason) ==
  /\ LockFree
  /\ state = "active"
  /\ EventFits(CloseSequence)
  /\ state' = IF reason = "user_ended" THEN "completed" ELSE "interrupted"
  /\ ended' = reason
  /\ outbox' = outbox \cup {<<CloseSequence, "closed">>}
  /\ jobs' = jobs \cup FollowUp
  /\ UNCHANGED <<overdue, messages, count, title, open, lost, reading, doc>>

-----------------------------------------------------------------------------
(***************************************************************************)
(* history/service.py                                                      *)
(***************************************************************************)

\* update_metadata, in any state of the row; a request with a summary only
\* leaves the title as it is.
UpdateMetadata ==
  /\ LockFree /\ Exists
  /\ title' \in {"manual", title}
  /\ UNCHANGED <<state, ended, overdue, messages, count, outbox, open, work>>

\* soft_delete, also of a deleted conversation, whose retention starts anew.
SoftDelete ==
  /\ LockFree /\ Exists
  /\ state' = "deleted"
  /\ overdue' = FALSE
  /\ UNCHANGED <<ended, messages, count, title, outbox, open, work>>

Restore ==
  /\ LockFree
  /\ state = "deleted" /\ ~overdue
  /\ state' = IF ended # None THEN "completed" ELSE "interrupted"
  /\ UNCHANGED <<ended, overdue, messages, count, title, outbox, open, work>>

DeadlinePasses ==
  /\ state = "deleted" /\ ~overdue
  /\ overdue' = TRUE
  /\ UNCHANGED <<state, ended, messages, count, title, outbox, open, work>>

-----------------------------------------------------------------------------
(***************************************************************************)
(* worker.py: one process, one job after the other                         *)
(***************************************************************************)

\* conversation_finalize locks the row and keeps the lock while it asks the
\* model; the source is "system" when automatic summaries are switched off.
\* A purged conversation is left alone.
Finalize(source) ==
  /\ LockFree /\ reading = None
  /\ "finalize" \in jobs
  /\ messages = {} => source = "automatic"
  /\ title' = IF state = "purged" THEN title ELSE source
  /\ jobs' = jobs \ {"finalize"}
  /\ UNCHANGED <<state, ended, overdue, messages, count, outbox, open, lost, reading, doc>>

\* The last attempt of a job fails.
GiveUp(j) ==
  /\ j \in jobs
  /\ j = "index" <=> reading # None
  /\ jobs' = jobs \ {j}
  /\ lost' = lost \cup {j}
  /\ reading' = None
  /\ UNCHANGED <<row, outbox, open, doc>>

Content == [messages |-> messages, title |-> title]

\* conversation_index reads without a lock, then asks the provider.
IndexRead ==
  /\ reading = None
  /\ "index" \in jobs
  /\ reading' = [state |-> state, content |-> Content]
  /\ UNCHANGED <<row, outbox, open, jobs, lost, doc>>

Indexed ==
  CASE reading.state = "purged"  -> doc
    [] reading.state = "deleted" -> None
    [] OTHER                     -> reading.content

IndexCommit ==
  /\ reading # None
  /\ doc' = Indexed
  /\ jobs' = jobs \ {"index"}
  /\ reading' = None
  /\ UNCHANGED <<row, outbox, open, lost>>

\* purge_expired removes the row, its messages by cascade and its document.
\* It selects the documents before it deletes the rows: a deadline that
\* passes in between takes the row and leaves the document.
Purge ==
  /\ LockFree /\ reading = None
  /\ state = "deleted"
  /\ state' = "purged"
  /\ overdue' = FALSE
  /\ messages' = {} /\ count' = 0 /\ title' = "none"
  /\ doc' = IF overdue THEN None ELSE doc
  /\ UNCHANGED <<ended, outbox, open, jobs, lost, reading>>

FinalizeJob == GiveUp("finalize") \/ \E source \in {"automatic", "system"} : Finalize(source)
IndexJob    == GiveUp("index") \/ IndexRead \/ IndexCommit

Respond(q) ==
  \/ \E Roles \in {{"user"}, {"user", "assistant"}} : TurnCommit(q, Roles)
  \/ CorrectCommit(q)
  \/ Rollback(q)

Next ==
  \/ Start
  \/ \E q \in Requests, k \in Keys : TurnBegin(q, k)
  \/ \E q \in Requests, m \in messages, again \in BOOLEAN : CorrectBegin(q, m, again)
  \/ \E q \in Requests : Respond(q)
  \/ \E reason \in {"user_ended", "connection_lost"} : End(reason)
  \/ UpdateMetadata
  \/ SoftDelete
  \/ Restore
  \/ DeadlinePasses
  \/ FinalizeJob
  \/ IndexJob
  \/ Purge

Spec == Init /\ [][Next]_vars

\* Every request ends (its calls have timeouts), the worker polls without
\* end, and PostgreSQL serves the waiters for a row lock in turn.
FairSpec ==
  /\ Spec
  /\ \A q \in Requests : WF_vars(Respond(q))
  /\ SF_vars(FinalizeJob)
  /\ WF_vars(IndexJob)

-----------------------------------------------------------------------------
(***************************************************************************)
(* Properties                                                              *)
(***************************************************************************)

\* A conversation that was ended or deleted gets no more messages: a turn in
\* progress keeps its end and its deletion waiting for the row.
ClosedIsFinal ==
  [][Exists /\ state # "active" => count' = count \/ state' = "purged"]_vars

\* The keys of the outbox never stand in the way of ending a conversation or
\* of the next turn: the events of turns and of the end share one sequence.
EventsAlwaysFit ==
  state = "active" => EventFits(CloseSequence) /\ EventFits(count + 1)

\* The search document of a conversation has every turn the conversation has:
\* it is written only after the last one, whatever races with its end.
DocumentHasEveryTurn ==
  doc # None /\ Exists => {m.seq : m \in doc.messages} = 1..count

\* A conversation that was ended gets a title and a summary, unless the job
\* is given up or the conversation is purged first.
EndedIsFinalized ==
  ended # None ~> title # "none" \/ "finalize" \in lost \/ state = "purged"
=============================================================================
