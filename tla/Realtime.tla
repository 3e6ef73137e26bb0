------------------------------ MODULE Realtime ------------------------------
(***************************************************************************)
(* Voice sessions over WebSockets: backend/src/kajovodagmar/realtime/      *)
(* websocket.py, without the audio, which VoiceInput models.               *)
(*                                                                         *)
(* handle_realtime runs once for every socket and serves a ConnectionState *)
(* object: one it has made or, when the browser asks to resume, one that   *)
(* an earlier socket has left in app.state.realtime_sessions.  Everything  *)
(* runs on one event loop; a step is what happens between two awaits that  *)
(* wait for another party.  An assistant task writes to the socket whose   *)
(* handler has started it, also after that socket is gone.                 *)
(*                                                                         *)
(* The browsers are arbitrary: they connect, with or without a session to  *)
(* resume, send any message the guards of the handler let through, and     *)
(* vanish at any moment.  A message with a used or a skipped sequence      *)
(* number changes nothing and is not a step.                               *)
(***************************************************************************)
EXTENDS Integers

CONSTANTS
  MaxSockets,        \* bound: sockets ever opened
  MaxConversations,  \* bound: conversations ever started
  MaxCrashes,        \* bound: restarts of the web process
  None               \* no object, no conversation, no task

ASSUME ConstantsAssumption ==
  /\ MaxSockets \in Nat /\ MaxConversations \in Nat /\ MaxCrashes \in Nat
  /\ None \notin Nat

VARIABLES
  loop,       \* the handler of each socket: "none", "accepting", "open", "closed"
  link,       \* the browser is at the other end of the socket
  obj,        \* the object a handler serves, named by the socket that made it
  resumable,  \* resume_available of the handler
  conv,       \* conversation_id of each object
  connected,  \* connected of each object
  task,       \* socket the running assistant task of an object writes to
  timer,      \* expiration_task: "none", "armed", "ending" in its transaction
  suspended,  \* realtime_sessions: the object kept for a conversation
  db,         \* state of each conversation row, "undone" when its insert was
              \* rolled back
  stranded,   \* conversations that no object of the process names any more
  crashes     \* restarts so far

handlers == <<loop, link, obj, resumable>>
objects  == <<conv, connected, task, timer, suspended>>
vars     == <<handlers, objects, db, stranded, crashes>>

Sockets       == 1..MaxSockets
Conversations == 1..MaxConversations

Init ==
  /\ loop = [k \in Sockets |-> "none"]
  /\ link = [k \in Sockets |-> FALSE]
  /\ obj = [k \in Sockets |-> k]
  /\ resumable = [k \in Sockets |-> FALSE]
  /\ conv = [o \in Sockets |-> None]
  /\ connected = [o \in Sockets |-> FALSE]
  /\ task = [o \in Sockets |-> None]
  /\ timer = [o \in Sockets |-> "none"]
  /\ suspended = [c \in Conversations |-> None]
  /\ db = [c \in Conversations |-> "absent"]
  /\ stranded = {}
  /\ crashes = 0

Live(k) == loop[k] \in {"accepting", "open"}

\* The conversation of object o, if it has one, loses its only trace.
Abandoned(o) == stranded \cup ({conv[o]} \ {None})

-----------------------------------------------------------------------------
(***************************************************************************)
(* Connecting and resuming                                                 *)
(***************************************************************************)

\* Mutant: realtime_sessions.get instead of pop.
KeptResumed(c) == suspended

\* The object is popped, so that a second socket does not find it.
TakenResumed(c) == [suspended EXCEPT ![c] = None]

NextConversation(c) == db[c] = "absent" /\ \A b \in 1..(c - 1) : db[b] # "absent"

Arrives(k) == loop[k] = "none" /\ \A j \in 1..(k - 1) : loop[j] # "none"

\* A socket without a session, with one that is not kept, or with a wrong
\* generation number: the object found is put back, the socket gets a new one.
ConnectFresh(k) ==
  /\ Arrives(k)
  /\ loop' = [loop EXCEPT ![k] = "accepting"]
  /\ link' = [link EXCEPT ![k] = TRUE]
  /\ connected' = [connected EXCEPT ![k] = TRUE]
  /\ UNCHANGED <<obj, resumable, conv, task, timer, suspended, db, stranded, crashes>>

\* A generation that is no number: the object is popped before int() raises
\* and not put back, because the ValueError is suppressed.  Its timer will
\* not find it.
ConnectDropping(k, c) ==
  /\ Arrives(k)
  /\ suspended[c] # None
  /\ loop' = [loop EXCEPT ![k] = "accepting"]
  /\ link' = [link EXCEPT ![k] = TRUE]
  /\ connected' = [connected EXCEPT ![k] = TRUE]
  /\ suspended' = TakenResumed(c)
  /\ stranded' = stranded \cup {c}
  /\ UNCHANGED <<obj, resumable, conv, task, timer, db, crashes>>

\* The generation is the next one: the timer is cancelled, the object taken.
ConnectResumed(k, c) ==
  /\ Arrives(k)
  /\ suspended[c] # None
  /\ loop' = [loop EXCEPT ![k] = "accepting"]
  /\ link' = [link EXCEPT ![k] = TRUE]
  /\ obj' = [obj EXCEPT ![k] = suspended[c]]
  /\ resumable' = [resumable EXCEPT ![k] = TRUE]
  /\ connected' = [connected EXCEPT ![suspended[c]] = TRUE]
  /\ timer' = [timer EXCEPT ![suspended[c]] = "none"]
  /\ suspended' = TakenResumed(c)
  /\ UNCHANGED <<conv, task, db, stranded, crashes>>

Accept(k) ==
  /\ loop[k] = "accepting"
  /\ loop' = [loop EXCEPT ![k] = "open"]
  /\ UNCHANGED <<link, obj, resumable, objects, db, stranded, crashes>>

\* websocket.accept raises outside of the handler's try: an object that was
\* taken is dropped with its conversation.
AcceptFails(k) ==
  /\ loop[k] = "accepting" /\ ~link[k]
  /\ loop' = [loop EXCEPT ![k] = "closed"]
  /\ stranded' = Abandoned(obj[k])
  /\ UNCHANGED <<link, obj, resumable, objects, db, crashes>>

LinkBreaks(k) ==
  /\ Live(k) /\ link[k]
  /\ link' = [link EXCEPT ![k] = FALSE]
  /\ UNCHANGED <<loop, obj, resumable, objects, db, stranded, crashes>>

-----------------------------------------------------------------------------
(***************************************************************************)
(* Messages                                                                *)
(***************************************************************************)

\* emit of the task of object o: a send to a socket that is gone marks the
\* object as not connected.
Heard(o) == connected[o] /\ (task[o] # None => loop[task[o]] = "open" /\ link[task[o]])

\* session.resume.
ResumeSession(k) ==
  /\ loop[k] = "open"
  /\ resumable[k] /\ conv[obj[k]] # None
  /\ resumable' = [resumable EXCEPT ![k] = FALSE]
  /\ UNCHANGED <<loop, link, obj, objects, db, stranded, crashes>>

\* cancel_assistant_task waits for the task, which reports its end on its
\* own socket; replace_assistant_task then starts another one.
ReplaceTask(k, new) ==
  /\ connected' = [connected EXCEPT ![obj[k]] = Heard(obj[k])]
  /\ task' = [task EXCEPT ![obj[k]] = new]

\* turn.text, assistant.audio.retry and the end of a spoken turn.
Turn(k) ==
  /\ loop[k] = "open" /\ conv[obj[k]] # None
  /\ ReplaceTask(k, k)
  /\ UNCHANGED <<handlers, conv, timer, suspended, db, stranded, crashes>>

Interrupt(k) ==
  /\ loop[k] = "open" /\ task[obj[k]] # None
  /\ ReplaceTask(k, None)
  /\ UNCHANGED <<handlers, conv, timer, suspended, db, stranded, crashes>>

\* The assistant task sends something, or ends and says so.
TaskEmits(o, new) ==
  /\ task[o] # None
  /\ connected' = [connected EXCEPT ![o] = Heard(o)]
  /\ task' = [task EXCEPT ![o] = new]
  /\ UNCHANGED <<handlers, conv, timer, suspended, db, stranded, crashes>>

\* conversations.end changes an active row only, and raises without a row.
Ended(c, state) == [b \in Conversations |-> IF b = c /\ db[b] = "active" THEN state ELSE db[b]]

\* session.end: the row is ended, the object is as new.
EndSession(k) ==
  LET c == conv[obj[k]] IN
  /\ loop[k] = "open" /\ c # None /\ db[c] # "undone"
  /\ db' = Ended(c, "completed")
  /\ conv' = [conv EXCEPT ![obj[k]] = None]
  /\ ReplaceTask(k, None)
  /\ UNCHANGED <<handlers, timer, suspended, stranded, crashes>>

\* Mutant: only WebSocketDisconnect suspends the session.
SuspendsOnDisconnect(k, c) == c # None /\ ~link[k]

\* Both exception handlers keep an object that has a conversation.
Suspends(k, c) == c # None

\* Mutant: the session is kept, the timer forgotten.
TimerForgotten == "none"

TimerCreated == "armed"

\* The exception handlers of handle_realtime, for an object that serves c.
Leave(k, c) ==
  LET o == obj[k] IN
  /\ loop' = [loop EXCEPT ![k] = "closed"]
  /\ link' = [link EXCEPT ![k] = FALSE]
  /\ connected' = [connected EXCEPT ![o] = FALSE]
  /\ suspended' = IF Suspends(k, c) THEN [suspended EXCEPT ![c] = o] ELSE suspended
  /\ timer' = IF Suspends(k, c) THEN [timer EXCEPT ![o] = TimerCreated] ELSE timer

\* The handler ends: the receive of a disconnected socket raises, or anything
\* else does, a transaction for example.
Disconnect(k) ==
  /\ loop[k] = "open"
  /\ Leave(k, conv[obj[k]])
  /\ UNCHANGED <<obj, resumable, conv, task, db, stranded, crashes>>

\* session.start, refused only while a session waits to be resumed: a second
\* one on a socket overwrites conversation_id, and nobody ends the first.
StartSession(k, c) ==
  /\ loop[k] = "open" /\ ~resumable[k]
  /\ NextConversation(c)
  /\ db' = [db EXCEPT ![c] = "active"]
  /\ conv' = [conv EXCEPT ![obj[k]] = c]
  /\ stranded' = Abandoned(obj[k])
  /\ UNCHANGED <<handlers, connected, task, timer, suspended, crashes>>

\* The commit of start_session fails after conversation_id was assigned: the
\* object is kept for a conversation that does not exist.
StartFails(k, c) ==
  /\ loop[k] = "open" /\ ~resumable[k]
  /\ NextConversation(c)
  /\ db' = [db EXCEPT ![c] = "undone"]
  /\ conv' = [conv EXCEPT ![obj[k]] = c]
  /\ stranded' = Abandoned(obj[k])
  /\ Leave(k, c)
  /\ UNCHANGED <<obj, resumable, task, crashes>>

-----------------------------------------------------------------------------
(***************************************************************************)
(* expire_suspended_session                                                *)
(***************************************************************************)

\* The object is popped before the transaction, in the step of the check.
TimerFires(o) ==
  /\ timer[o] = "armed"
  /\ IF conv[o] # None /\ suspended[conv[o]] = o
       THEN suspended' = [suspended EXCEPT ![conv[o]] = None] /\ timer' = [timer EXCEPT ![o] = "ending"]
       ELSE suspended' = suspended /\ timer' = [timer EXCEPT ![o] = "none"]
  /\ UNCHANGED <<handlers, conv, connected, task, db, stranded, crashes>>

\* conversations.end, a no-op on a conversation ended in another way.
ExpireEnds(o) ==
  /\ timer[o] = "ending" /\ db[conv[o]] # "undone"
  /\ db' = Ended(conv[o], "interrupted")
  /\ conv' = [conv EXCEPT ![o] = None]
  /\ timer' = [timer EXCEPT ![o] = "none"]
  /\ UNCHANGED <<handlers, connected, task, suspended, stranded, crashes>>

\* The transaction fails; nobody tries again.
ExpireFails(o) ==
  /\ timer[o] = "ending"
  /\ timer' = [timer EXCEPT ![o] = "none"]
  /\ stranded' = Abandoned(o)
  /\ UNCHANGED <<handlers, conv, connected, task, suspended, db, crashes>>

\* POST /conversations/{id}/end, which a browser without a socket uses.
EndOverHttp(c) ==
  /\ db[c] = "active"
  /\ db' = Ended(c, "completed")
  /\ UNCHANGED <<handlers, objects, stranded, crashes>>

\* A restart: all objects are memory of the process.
Crash ==
  /\ crashes < MaxCrashes
  /\ crashes' = crashes + 1
  /\ loop' = [k \in Sockets |-> IF Live(k) THEN "closed" ELSE loop[k]]
  /\ link' = [k \in Sockets |-> FALSE]
  /\ conv' = [o \in Sockets |-> None]
  /\ connected' = [o \in Sockets |-> FALSE]
  /\ task' = [o \in Sockets |-> None]
  /\ timer' = [o \in Sockets |-> "none"]
  /\ suspended' = [c \in Conversations |-> None]
  /\ stranded' = stranded \cup {c \in Conversations : db[c] = "active"}
  /\ UNCHANGED <<obj, resumable, db>>

Expire(o) == TimerFires(o) \/ ExpireEnds(o) \/ ExpireFails(o)

Browser(k) ==
  \/ ConnectFresh(k)
  \/ LinkBreaks(k)
  \/ ResumeSession(k)
  \/ Turn(k)
  \/ Interrupt(k)
  \/ EndSession(k)
  \/ \E c \in Conversations : ConnectResumed(k, c) \/ ConnectDropping(k, c) \/ StartSession(k, c)

Next ==
  \/ \E k \in Sockets : Browser(k) \/ Accept(k) \/ AcceptFails(k) \/ Disconnect(k) \/ Expire(k)
  \/ \E k \in Sockets, c \in Conversations : StartFails(k, c)
  \/ \E o \in Sockets : TaskEmits(o, None) \/ TaskEmits(o, task[o])
  \/ \E c \in Conversations : EndOverHttp(c)
  \/ Crash

Spec == Init /\ [][Next]_vars

\* The event loop runs every timer; nothing is assumed of the browsers.
FairSpec == Spec /\ \A o \in Sockets : WF_vars(Expire(o))

-----------------------------------------------------------------------------
(***************************************************************************)
(* Properties                                                              *)
(***************************************************************************)

Serves(k, c) == Live(k) /\ conv[obj[k]] = c

\* A session is served by one socket: two browsers that resume it at once do
\* not share it, and one that is kept for resuming is served by none.
OneSubscriber ==
  \A c \in Conversations :
    /\ \A j, k \in Sockets : Serves(j, c) /\ Serves(k, c) => j = k
    /\ \A k \in Sockets : Serves(k, c) => suspended[c] = None

\* An active voice conversation has somebody who will end it: a handler, the
\* timer of a kept session, or a transaction that ends it.  The exceptions
\* are a restart, a second session.start on the socket, a resume request with
\* an unreadable generation, a failed accept of a resumed socket and a failed
\* transaction of the timer.
ActiveHasOwner ==
  \A c \in Conversations : db[c] = "active" /\ c \notin stranded =>
    \/ \E k \in Sockets : Serves(k, c)
    \/ suspended[c] # None /\ timer[suspended[c]] = "armed"
    \/ \E o \in Sockets : timer[o] = "ending" /\ conv[o] = c

\* A conversation is ended for a lost connection only while no socket serves
\* it: the timer and a browser that resumes do not both win.
ServedIsNotLost ==
  [][\A c \in Conversations, k \in Sockets :
       Serves(k, c) /\ db[c] = "active" => db'[c] # "interrupted"]_vars

\* A conversation whose browser is gone ends, unless a browser resumes it or
\* one of the exceptions of ActiveHasOwner strands it.
AbandonedIsEnded ==
  \A c \in Conversations :
    db[c] = "active" ~> db[c] # "active" \/ c \in stranded \/ \E k \in Sockets : Serves(k, c)
=============================================================================
