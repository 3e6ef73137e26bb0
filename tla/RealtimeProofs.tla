--------------------------- MODULE RealtimeProofs ---------------------------
(***************************************************************************)
(* Proofs about Realtime for any number of sockets, conversations and      *)
(* restarts.                                                               *)
(***************************************************************************)
EXTENDS Realtime, TLAPS

\* The values of the handlers, the objects and the rows.
TypeOK ==
  /\ loop \in [Sockets -> {"none", "accepting", "open", "closed"}]
  /\ link \in [Sockets -> BOOLEAN]
  /\ obj \in [Sockets -> Sockets]
  /\ resumable \in [Sockets -> BOOLEAN]
  /\ conv \in [Sockets -> Conversations \cup {None}]
  /\ connected \in [Sockets -> BOOLEAN]
  /\ task \in [Sockets -> Sockets \cup {None}]
  /\ timer \in [Sockets -> {"none", "armed", "ending"}]
  /\ suspended \in [Conversations -> Sockets \cup {None}]
  /\ db \in [Conversations -> {"absent", "active", "completed", "interrupted", "undone"}]
  /\ stranded \in SUBSET Conversations
  /\ crashes \in Nat

\* The socket has not arrived yet: its object is untouched and nobody's.
Unborn ==
  \A k \in Sockets :
    IF loop[k] = "none"
      THEN obj[k] = k /\ conv[k] = None /\ timer[k] = "none"
      ELSE loop[obj[k]] # "none"

\* No two handlers serve the same object.
OwnObject == \A j, k \in Sockets : Live(j) /\ Live(k) /\ obj[j] = obj[k] => j = k

\* No two objects have the same conversation, and each of those has its row.
OwnConversation ==
  /\ \A o, p \in Sockets : conv[o] # None /\ conv[o] = conv[p] => o = p
  /\ \A o \in Sockets : conv[o] # None => db[conv[o]] # "absent"

\* An object that is kept has its own conversation and a running timer; one
\* with a running timer is kept, or was dropped and its conversation stranded.
Kept ==
  /\ \A c \in Conversations : suspended[c] # None =>
       conv[suspended[c]] = c /\ timer[suspended[c]] = "armed"
  /\ \A o \in Sockets : timer[o] = "armed" =>
       conv[o] # None /\ (suspended[conv[o]] = o \/ conv[o] \in stranded)

\* An object whose session is expired or kept has a conversation and no
\* handler, and what expires is not kept any more.
Unserved ==
  \A o \in Sockets : timer[o] # "none" =>
    /\ conv[o] # None
    /\ \A k \in Sockets : Live(k) => obj[k] # o

Inv == TypeOK /\ Unborn /\ OwnObject /\ OwnConversation /\ Kept /\ Unserved

-----------------------------------------------------------------------------
\* None names neither a socket nor a conversation.
LEMMA NoneIsOther == None \notin Sockets /\ None \notin Conversations
BY ConstantsAssumption DEF Sockets, Conversations

\* Every step keeps the invariant.
LEMMA InvStep ==
  ASSUME Inv, [Next]_vars
  PROVE  Inv'
<1> USE NoneIsOther DEF Inv, TypeOK, Unborn, OwnObject, OwnConversation, Kept, Unserved, Live
<1>1. ASSUME NEW k \in Sockets, ConnectFresh(k)
      PROVE  Inv'
  BY <1>1 DEF ConnectFresh, Arrives
<1>2. ASSUME NEW k \in Sockets, NEW c \in Conversations, ConnectResumed(k, c)
      PROVE  Inv'
  BY <1>2 DEF ConnectResumed, Arrives, TakenResumed
<1>3. ASSUME NEW k \in Sockets, Accept(k)
      PROVE  Inv'
  BY <1>3 DEF Accept, objects
<1>4. ASSUME NEW k \in Sockets, AcceptFails(k)
      PROVE  Inv'
  BY <1>4 DEF AcceptFails, Abandoned, objects
<1>5. ASSUME NEW k \in Sockets, LinkBreaks(k)
      PROVE  Inv'
  BY <1>5 DEF LinkBreaks, objects
<1>6. ASSUME NEW k \in Sockets, ResumeSession(k)
      PROVE  Inv'
  BY <1>6 DEF ResumeSession, objects
<1>7. ASSUME NEW k \in Sockets, Turn(k)
      PROVE  Inv'
  BY <1>7 DEF Turn, ReplaceTask, Heard, handlers
<1>8. ASSUME NEW k \in Sockets, Interrupt(k)
      PROVE  Inv'
  BY <1>8 DEF Interrupt, ReplaceTask, Heard, handlers
<1>9. ASSUME NEW o \in Sockets, NEW new \in {None, task[o]}, TaskEmits(o, new)
      PROVE  Inv'
  BY <1>9 DEF TaskEmits, Heard, handlers
<1>10. ASSUME NEW k \in Sockets, NEW c \in Conversations, StartSession(k, c)
      PROVE  Inv'
  BY <1>10 DEF StartSession, NextConversation, Abandoned, handlers
<1>11. ASSUME NEW k \in Sockets, EndSession(k)
      PROVE  Inv'
  BY <1>11 DEF EndSession, ReplaceTask, Heard, Ended, handlers
<1>12. ASSUME NEW k \in Sockets, Disconnect(k)
      PROVE  Inv'
  BY <1>12 DEF Disconnect, Leave, Suspends, TimerCreated
<1>13. ASSUME NEW o \in Sockets, TimerFires(o)
      PROVE  Inv'
  <2>1. CASE suspended[conv[o]] = o
    <3>1. /\ conv[o] \in Conversations
          /\ suspended' = [suspended EXCEPT ![conv[o]] = None]
          /\ timer' = [timer EXCEPT ![o] = "ending"]
          /\ UNCHANGED <<handlers, conv, connected, task, db, stranded, crashes>>
      BY <1>13, <2>1 DEF TimerFires
    <3> QED
      BY <2>1, <3>1 DEF handlers
  <2>2. CASE suspended[conv[o]] # o
    <3>1. /\ timer' = [timer EXCEPT ![o] = "none"]
          /\ UNCHANGED <<handlers, conv, connected, task, suspended, db, stranded, crashes>>
      BY <1>13, <2>2 DEF TimerFires
    <3>2. \A c \in Conversations : suspended[c] # o
      BY <2>2
    <3> QED
      BY <3>1, <3>2 DEF handlers
  <2> QED
    BY <2>1, <2>2
<1>14. ASSUME NEW o \in Sockets, ExpireEnds(o)
      PROVE  Inv'
  BY <1>14 DEF ExpireEnds, Ended, handlers
<1>15. ASSUME NEW o \in Sockets, ExpireFails(o)
      PROVE  Inv'
  BY <1>15 DEF ExpireFails, Abandoned, handlers
<1>16. ASSUME NEW c \in Conversations, EndOverHttp(c)
      PROVE  Inv'
  BY <1>16 DEF EndOverHttp, Ended, handlers, objects
<1>17. ASSUME Crash
      PROVE  Inv'
  BY <1>17 DEF Crash
<1>18. ASSUME NEW k \in Sockets, NEW c \in Conversations, ConnectDropping(k, c)
       PROVE  Inv'
  BY <1>18 DEF ConnectDropping, Arrives, TakenResumed
<1>19. ASSUME NEW k \in Sockets, NEW c \in Conversations, StartFails(k, c)
       PROVE  Inv'
  BY <1>19 DEF StartFails, NextConversation, Abandoned, Leave, Suspends, TimerCreated
<1>20. CASE UNCHANGED vars
  BY <1>20 DEF vars, handlers, objects
<1> QED
  BY <1>1, <1>2, <1>3, <1>4, <1>5, <1>6, <1>7, <1>8, <1>9, <1>10, <1>11, <1>12, <1>13, <1>14,
     <1>15, <1>16, <1>17, <1>18, <1>19, <1>20
     DEF Next, Browser, Expire

\* The invariant holds initially and is kept.
LEMMA Invariance == Spec => []Inv
<1>1. Init => Inv
  BY NoneIsOther
     DEF Init, Inv, TypeOK, Unborn, OwnObject, OwnConversation, Kept, Unserved, Live
<1>2. Inv /\ [Next]_vars => Inv'
  BY InvStep
<1> QED
  BY <1>1, <1>2, PTL DEF Spec

-----------------------------------------------------------------------------
(***************************************************************************)
(* The properties                                                          *)
(***************************************************************************)

\* A session is served by one socket, and one that is kept for resuming by
\* none: realtime_sessions.pop hands an object to a single handler.
THEOREM SingleSubscriber == Spec => []OneSubscriber
<1>1. Inv => OneSubscriber
  BY NoneIsOther DEF Inv, TypeOK, OwnObject, OwnConversation, Kept, Unserved, OneSubscriber, Serves
<1> QED
  BY <1>1, Invariance, PTL

\* An active conversation keeps an owner through every hand-over between a
\* handler, the timer of a kept session and the transaction that ends it.
LEMMA OwnerStep ==
  ASSUME Inv, ActiveHasOwner, [Next]_vars
  PROVE  ActiveHasOwner'
<1> USE NoneIsOther
    DEF Inv, TypeOK, Unborn, OwnObject, OwnConversation, Kept, Unserved, Live, Serves
<1> SUFFICES ASSUME NEW d \in Conversations, db'[d] = "active", d \notin stranded'
             PROVE  \/ \E h \in Sockets : Serves(h, d)'
                    \/ suspended'[d] # None /\ timer'[suspended'[d]] = "armed"
                    \/ \E p \in Sockets : timer'[p] = "ending" /\ conv'[p] = d
  BY DEF ActiveHasOwner
<1> DEFINE Owned == \/ \E h \in Sockets : Serves(h, d)
                    \/ suspended[d] # None /\ timer[suspended[d]] = "armed"
                    \/ \E p \in Sockets : timer[p] = "ending" /\ conv[p] = d
<1>0. db[d] = "active" /\ d \notin stranded => Owned
  BY DEF ActiveHasOwner
<1>1. ASSUME NEW k \in Sockets, ConnectFresh(k)
      PROVE  Owned'
  BY <1>0, <1>1 DEF ConnectFresh, Arrives
<1>2. ASSUME NEW k \in Sockets, NEW c \in Conversations, ConnectResumed(k, c)
      PROVE  Owned'
  BY <1>0, <1>2 DEF ConnectResumed, Arrives, TakenResumed
<1>3. ASSUME NEW k \in Sockets, Accept(k)
      PROVE  Owned'
  BY <1>0, <1>3 DEF Accept, objects
<1>4. ASSUME NEW k \in Sockets, AcceptFails(k)
      PROVE  Owned'
  BY <1>0, <1>4 DEF AcceptFails, Abandoned, objects
<1>5. ASSUME NEW k \in Sockets, LinkBreaks(k)
      PROVE  Owned'
  BY <1>0, <1>5 DEF LinkBreaks, objects
<1>6. ASSUME NEW k \in Sockets, ResumeSession(k)
      PROVE  Owned'
  BY <1>0, <1>6 DEF ResumeSession, objects
<1>7. ASSUME NEW k \in Sockets, Turn(k)
      PROVE  Owned'
  BY <1>0, <1>7 DEF Turn, ReplaceTask, Heard, handlers
<1>8. ASSUME NEW k \in Sockets, Interrupt(k)
      PROVE  Owned'
  BY <1>0, <1>8 DEF Interrupt, ReplaceTask, Heard, handlers
<1>9. ASSUME NEW o \in Sockets, NEW new \in {None, task[o]}, TaskEmits(o, new)
      PROVE  Owned'
  BY <1>0, <1>9 DEF TaskEmits, Heard, handlers
<1>10. ASSUME NEW k \in Sockets, NEW c \in Conversations, StartSession(k, c)
      PROVE  Owned'
  BY <1>0, <1>10 DEF StartSession, NextConversation, Abandoned, handlers
<1>11. ASSUME NEW k \in Sockets, EndSession(k)
      PROVE  Owned'
  BY <1>0, <1>11 DEF EndSession, ReplaceTask, Heard, Ended, handlers
<1>12. ASSUME NEW k \in Sockets, Disconnect(k)
      PROVE  Owned'
  BY <1>0, <1>12 DEF Disconnect, Leave, Suspends, TimerCreated
<1>13. ASSUME NEW o \in Sockets, TimerFires(o)
      PROVE  Owned'
  BY <1>0, <1>13 DEF TimerFires, handlers
<1>14. ASSUME NEW o \in Sockets, ExpireEnds(o)
      PROVE  Owned'
  BY <1>0, <1>14 DEF ExpireEnds, Ended, handlers
<1>15. ASSUME NEW o \in Sockets, ExpireFails(o)
      PROVE  Owned'
  BY <1>0, <1>15 DEF ExpireFails, Abandoned, handlers
<1>16. ASSUME NEW c \in Conversations, EndOverHttp(c)
      PROVE  Owned'
  BY <1>0, <1>16 DEF EndOverHttp, Ended, handlers, objects
<1>17. ASSUME Crash
      PROVE  Owned'
  BY <1>0, <1>17 DEF Crash
<1>18. ASSUME NEW k \in Sockets, NEW c \in Conversations, ConnectDropping(k, c)
       PROVE  Owned'
  BY <1>0, <1>18 DEF ConnectDropping, Arrives, TakenResumed
<1>19. ASSUME NEW k \in Sockets, NEW c \in Conversations, StartFails(k, c)
       PROVE  Owned'
  BY <1>0, <1>19 DEF StartFails, NextConversation, Abandoned, Leave, Suspends, TimerCreated
<1>20. CASE UNCHANGED vars
  BY <1>0, <1>20 DEF vars, handlers, objects
<1> QED
  BY <1>1, <1>2, <1>3, <1>4, <1>5, <1>6, <1>7, <1>8, <1>9, <1>10, <1>11, <1>12, <1>13, <1>14,
     <1>15, <1>16, <1>17, <1>18, <1>19, <1>20
     DEF Next, Browser, Expire

\* An active voice conversation that no restart, second session.start, dropped
\* object, failed accept or failed transaction has stranded has a handler, a
\* running timer or an ending transaction.
THEOREM OwnerExists == Spec => []ActiveHasOwner
<1>1. Init => ActiveHasOwner
  BY DEF Init, ActiveHasOwner
<1>2. Inv /\ ActiveHasOwner /\ [Next]_vars => ActiveHasOwner'
  BY OwnerStep
<1> QED
  BY <1>1, <1>2, Invariance, PTL DEF Spec

\* The timer of a lost connection never ends a conversation that a socket
\* serves.
THEOREM ServedNotLost == Spec => ServedIsNotLost
<1>1. Inv /\ [Next]_vars =>
        [\A c \in Conversations, k \in Sockets :
           Serves(k, c) /\ db[c] = "active" => db'[c] # "interrupted"]_vars
  <2> SUFFICES ASSUME Inv, Next, NEW c \in Conversations, NEW k \in Sockets,
                      Serves(k, c), db[c] = "active"
               PROVE  db'[c] # "interrupted"
    OBVIOUS
  <2> USE DEF Inv, TypeOK
  <2>1. ASSUME NEW o \in Sockets, ExpireEnds(o)
        PROVE  db'[c] # "interrupted"
    BY <2>1, NoneIsOther DEF ExpireEnds, Ended, Serves, OwnConversation, Unserved
  <2>2. ASSUME NEW j \in Sockets, NEW b \in Conversations, StartSession(j, b)
        PROVE  db'[c] # "interrupted"
    BY <2>2 DEF StartSession
  <2>3. ASSUME NEW j \in Sockets, EndSession(j)
        PROVE  db'[c] # "interrupted"
    BY <2>3 DEF EndSession, Ended
  <2>4. ASSUME NEW b \in Conversations, EndOverHttp(b)
        PROVE  db'[c] # "interrupted"
    BY <2>4 DEF EndOverHttp, Ended
  <2>5. ASSUME NEW j \in Sockets, NEW b \in Conversations, StartFails(j, b)
        PROVE  db'[c] # "interrupted"
    BY <2>5 DEF StartFails
  <2>6. CASE UNCHANGED db
    BY <2>6
  <2> QED
    BY <2>1, <2>2, <2>3, <2>4, <2>5, <2>6
       DEF Next, Browser, Expire, ConnectFresh, ConnectDropping, LinkBreaks, ResumeSession, Turn, Interrupt,
           ConnectResumed, Accept, AcceptFails, Disconnect, TimerFires, ExpireFails,
           TaskEmits, Crash
<1> QED
  BY <1>1, Invariance, PTL DEF Spec, ServedIsNotLost
=============================================================================
