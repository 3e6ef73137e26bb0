-------------------------- MODULE ConfirmedEffects --------------------------
(***************************************************************************)
(* What the orchestrator promises about the changes the model asks for: an *)
(* action is offered, and then either done once - on exactly the versions  *)
(* of the objects that were shown with the offer - or withdrawn for good.  *)
(* Nothing but a done action and the administrator's own edits changes an  *)
(* object.                                                                 *)
(***************************************************************************)
EXTENDS Integers

CONSTANTS
  Actions,   \* identities of proposed actions
  Objects,   \* objects with a version
  Shown,     \* Shown[a]: the versions of its targets shown with action a
  Blind      \* actions that neither check nor change their targets

VARIABLES status, version

vars == <<status, version>>

Init ==
  /\ status = [a \in Actions |-> "none"]
  /\ version = [o \in Objects |-> 1]

\* Some actions, none included, move from one status to another.
Move(from, to) ==
  \A a \in Actions : status'[a] # status[a] => status[a] = from /\ status'[a] = to

Offer    == Move("none", "offered") /\ UNCHANGED version
Withdraw == Move("offered", "withdrawn") /\ UNCHANGED version

Do(a) ==
  /\ status[a] = "offered"
  /\ status' = [status EXCEPT ![a] = "done"]
  /\ \/ a \in Blind /\ UNCHANGED version
     \/ /\ a \notin Blind
        /\ \A o \in DOMAIN Shown[a] : version[o] = Shown[a][o]
        /\ version' = [o \in Objects |->
             IF o \in DOMAIN Shown[a] THEN version[o] + 1 ELSE version[o]]

Edit(o) == version' = [version EXCEPT ![o] = @ + 1] /\ UNCHANGED status

Next ==
  \/ Offer \/ Withdraw
  \/ \E a \in Actions : Do(a)
  \/ \E o \in Objects : Edit(o)

Spec == Init /\ [][Next]_vars
=============================================================================
