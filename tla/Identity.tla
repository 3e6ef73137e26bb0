------------------------------ MODULE Identity ------------------------------
(***************************************************************************)
(* The administrator's account: backend/src/kajovodagmar/identity/         *)
(* service.py, its HTTP routes (api/auth.py, api/profile.py), the session  *)
(* check every route begins with (api/dependencies.py), the links and      *)
(* tickets of security_token (notifications/service.py,                    *)
(* realtime/tickets.py) and the audit chain (audit/service.py).            *)
(*                                                                         *)
(* A request is one transaction.  It takes its row locks as it goes on,    *)
(* writes its audit event under the advisory lock of the chain, and keeps  *)
(* all of them until it commits.  The ORM session has autoflush off: rows  *)
(* changed through objects are written after the advisory lock is taken,   *)
(* rows changed by an UPDATE statement before.  Requests that wait for one *)
(* another in a circle are ended by PostgreSQL, which aborts one.          *)
(***************************************************************************)
EXTENDS Integers, FiniteSets

CONSTANTS
  Requests,       \* concurrent transactions of the web process and the worker
  Passwords,      \* passwords the administrator has used
  Addresses,      \* e-mail addresses of the administrator
  None,           \* no transaction, no session, no address
  MaxSessions,    \* bound: sessions ever opened
  MaxTokens,      \* bound: security tokens ever issued
  Threshold,      \* failed logins after which logins are restricted
  MaxFailures     \* bound: consecutive failed logins

ASSUME ConstantsAssumption ==
  /\ None \notin Passwords \cup Addresses \cup Nat
  /\ Passwords # {}
  /\ MaxSessions \in Nat /\ MaxTokens \in Nat
  /\ Threshold \in Nat /\ MaxFailures \in Nat

VARIABLES
  instance,    \* system_instance.state
  failed,      \* administrator_account.failed_login_count
  restricted,  \* restricted_until lies in the future
  password,    \* the password account_credential has the hash of
  outdated,    \* that hash was made with older parameters
  sess,        \* state of every auth_session row
  token,       \* rows of security_token: purpose, target and state
  profile,     \* e-mail columns of administrator_profile
  tx,          \* the transaction a request has open
  linear,      \* verify_chain succeeds on the committed audit events
  wrong,       \* history: wrong passwords refused since the count was reset
  uses         \* history: how often each token was accepted

account == <<instance, failed, restricted, password, outdated, wrong>>
links   == <<token, profile, uses>>
vars    == <<account, sess, links, tx, linear>>

Sessions == 1..MaxSessions
Tokens   == 1..MaxTokens
Purposes == {"password_reset", "email_verify", "realtime_ticket"}

NoToken == [purpose |-> "none", target |-> None, state |-> "absent"]

Init ==
  /\ instance = "uninitialized"
  /\ failed = 0 /\ restricted = FALSE
  /\ password = None /\ outdated = FALSE
  /\ sess = [s \in Sessions |-> "absent"]
  /\ token = [t \in Tokens |-> NoToken]
  /\ profile = [email |-> None, pending |-> None, state |-> "not_set"]
  /\ tx = [q \in Requests |-> None]
  /\ linear = TRUE
  /\ wrong = 0
  /\ uses = [t \in Tokens |-> 0]

\* Names of the rows a transaction locks.
Account    == <<"account", 0>>
Credential == <<"credential", 0>>
Profile    == <<"profile", 0>>
Session(s) == <<"session", s>>
Token(t)   == <<"token", t>>

\* q need not wait for the rows L.
Free(q, L) == \A r \in Requests \ {q} : tx[r] # None => tx[r].locks \cap L = {}

Running(q, op) == tx[q] # None /\ tx[q].op = op

\* A transaction: the operation, the session that asked for it, its argument,
\* the count or token it has read, the rows an UPDATE will change, the locks,
\* and whether its audit event, once written, still follows the last one.
Tx(op, s, arg, seen, rows, L) ==
  [op |-> op, session |-> s, arg |-> arg, seen |-> seen, rows |-> rows, locks |-> L, tail |-> "none"]

Begin(q, t) ==
  /\ tx[q] = None
  /\ Free(q, t.locks)
  /\ tx' = [tx EXCEPT ![q] = t]
  /\ UNCHANGED <<account, sess, links, linear>>

-----------------------------------------------------------------------------
(***************************************************************************)
(* audit/service.py                                                        *)
(***************************************************************************)

\* Mutant: append without the advisory lock.
ChainFreeAlways(q) == tx[q].tail = "none"

\* pg_advisory_xact_lock returns when no open transaction has appended.
ChainFree(q) == \A r \in Requests : tx[r] # None => tx[r].tail = "none"

\* Rows an UPDATE statement has locked before the event is written.
Statement(q) == IF tx[q].op \in {"change", "reset"} THEN {Session(s) : s \in tx[q].rows} ELSE {}

\* append: the event is linked to the last one it can see, and flush writes
\* what the transaction has changed through objects.
Audit(q) ==
  /\ tx[q] # None
  /\ tx[q].op \in {"login", "refuse", "deny", "revoke", "change", "email", "reset", "verify", "service"}
  /\ tx[q].op \in {"reset", "verify"} => tx[q].arg # None
  /\ tx[q].tail = "none"
  /\ Free(q, Statement(q)) /\ ChainFree(q)
  /\ tx' = [tx EXCEPT ![q].tail = "current", ![q].locks = @ \cup Statement(q)]
  /\ UNCHANGED <<account, sess, links, linear>>

\* The end of a transaction.  One that commits its event makes the events
\* which others have linked to the same predecessor stale.
Commit(q) ==
  /\ linear' = (linear /\ tx[q].tail # "stale")
  /\ tx' = [r \in Requests |->
       IF r = q THEN None
       ELSE IF tx[r] # None /\ tx[q].tail # "none" /\ tx[r].tail # "none"
            THEN [tx[r] EXCEPT !.tail = "stale"]
            ELSE tx[r]]

\* Rollback after an error, a lost connection or the choice of the deadlock
\* detector.
Abort(q) ==
  /\ tx[q] # None
  /\ tx' = [tx EXCEPT ![q] = None]
  /\ UNCHANGED <<account, sess, links, linear>>

Audited(q, op) == Running(q, op) /\ tx[q].tail # "none"

-----------------------------------------------------------------------------
(***************************************************************************)
(* Initialization and logins                                               *)
(***************************************************************************)

\* initialize, once, under the lock of the instance row.
Initialize(p, address) ==
  /\ instance = "uninitialized"
  /\ instance' = "active"
  /\ password' = p
  /\ profile' = [email |-> address, pending |-> None,
                 state |-> IF address = None THEN "not_set" ELSE "pending"]
  /\ UNCHANGED <<failed, restricted, outdated, sess, token, tx, linear, wrong, uses>>

\* Mutant: the account is read without FOR UPDATE.
LoginLocksNone == {}

\* authenticate locks the account; the credential is read without a lock.
LoginLocks == {Account}

LoginBegin(q, p) ==
  /\ instance = "active" /\ ~restricted
  /\ p # password => failed < MaxFailures
  /\ Begin(q, Tx(IF p = password THEN "login" ELSE "refuse", None, p, failed, {}, LoginLocks))

\* restriction_until.
RestrictedAfter(n) == n >= Threshold

\* The wrong password: the error is durable, the count is committed.
LoginRefused(q) ==
  /\ Audited(q, "refuse")
  /\ failed' = tx[q].seen + 1
  /\ restricted' = RestrictedAfter(tx[q].seen + 1)
  /\ wrong' = wrong + 1
  /\ Commit(q)
  /\ UNCHANGED <<instance, password, outdated, sess, links>>

\* A login while logins are restricted, one with another name, and a voice
\* service with a wrong key: the refusal is audited, its error durable.
DenyBegin(q, L) ==
  /\ instance = "active"
  /\ L = LoginLocks => restricted
  /\ Begin(q, Tx("deny", None, None, 0, {}, L))

Denied(q) ==
  /\ Audited(q, "deny")
  /\ Commit(q)
  /\ UNCHANGED <<account, sess, links>>

\* The right password: create_session follows, and a hash made with older
\* parameters is replaced by a new one of the password presented.
LoginCommit(q, s) ==
  /\ Audited(q, "login")
  /\ sess[s] = "absent" /\ \A r \in 1..(s - 1) : sess[r] # "absent"
  /\ outdated => Free(q, {Credential})
  /\ failed' = 0 /\ restricted' = FALSE /\ wrong' = 0
  /\ password' = IF outdated THEN tx[q].arg ELSE password
  /\ outdated' = FALSE
  /\ sess' = [sess EXCEPT ![s] = "live"]
  /\ Commit(q)
  /\ UNCHANGED <<instance, links>>

RestrictionLapses ==
  /\ restricted
  /\ restricted' = FALSE
  /\ UNCHANGED <<instance, failed, password, outdated, wrong, sess, links, tx, linear>>

\* A release with other parameters of the hash.
ParametersChange ==
  /\ instance = "active" /\ ~outdated
  /\ outdated' = TRUE
  /\ UNCHANGED <<instance, failed, restricted, password, wrong, sess, links, tx, linear>>

-----------------------------------------------------------------------------
(***************************************************************************)
(* Requests of a session                                                   *)
(***************************************************************************)

\* Mutant: resolve_session reads the row without FOR UPDATE.
SessionLocksNone(s) == {}

\* resolve_session keeps the row of the session locked until the request
\* has ended.
SessionLocks(s) == {Session(s)}

\* Every authenticated request, and the operation it then asks for.
RequestBegin(q, s) ==
  /\ sess[s] = "live"
  /\ Begin(q, Tx("request", s, None, 0, {}, SessionLocks(s)))

\* expires_at and absolute_expires_at pass; no request in progress is touched.
SessionExpires(s) ==
  /\ sess[s] = "live"
  /\ sess' = [sess EXCEPT ![s] = "expired"]
  /\ UNCHANGED <<account, links, tx, linear>>

\* A request that changes nothing of the account.
RequestEnd(q) ==
  /\ Running(q, "request")
  /\ Commit(q)
  /\ UNCHANGED <<account, sess, links>>

\* What a request of a session turns into: the rows it will change, the rows
\* it locks, the address it asks for.
Turns(q, op, rows, L, address) ==
  /\ Free(q, L)
  /\ tx' = [tx EXCEPT ![q].op = op, ![q].rows = rows, ![q].locks = @ \cup L, ![q].arg = address]
  /\ UNCHANGED <<account, sess, links, linear>>

Asks(q, op, rows, L, address) == Running(q, "request") /\ Turns(q, op, rows, L, address)

Open(Except) == {s \in Sessions : sess[s] \in {"live", "expired"} /\ s \notin Except}

\* logout and DELETE /auth/sessions/{id}: the row is read without a lock.
Revoke(q, s) == sess[s] # "absent" /\ Asks(q, "revoke", {s}, {}, None)

\* change_password: the lock of the credential, the check of the current
\* password, and the UPDATE, which sees the sessions committed by now.
Change(q) == Asks(q, "change", Open({tx[q].session}), {Credential}, None)

\* The rows of other sessions are free before they can be written.
RevokeRows(q) ==
  /\ Free(q, {Session(s) : s \in tx[q].rows})
  /\ sess' = [s \in Sessions |-> IF s \in tx[q].rows THEN "revoked" ELSE sess[s]]

RevokeCommit(q) ==
  /\ Audited(q, "revoke")
  /\ RevokeRows(q)
  /\ Commit(q)
  /\ UNCHANGED <<account, links>>

\* The new password differs from the current one.
ChangeCommit(q, new) ==
  /\ Audited(q, "change")
  /\ new # password
  /\ RevokeRows(q)
  /\ password' = new /\ outdated' = FALSE
  /\ Commit(q)
  /\ UNCHANGED <<instance, failed, restricted, wrong, links>>

\* synchronize_deployment_password: with the account locked no login is open.
Synchronize(new) ==
  /\ instance = "active"
  /\ \A q \in Requests : tx[q] # None =>
       /\ tx[q].locks \cap ({Account, Credential} \cup {Session(s) : s \in Open({})}) = {}
       /\ tx[q].tail = "none"
  /\ password' = new /\ outdated' = FALSE
  /\ failed' = 0 /\ restricted' = FALSE /\ wrong' = 0
  /\ sess' = [s \in Sessions |-> IF s \in Open({}) THEN "revoked" ELSE sess[s]]
  /\ UNCHANGED <<instance, links, tx, linear>>

-----------------------------------------------------------------------------
(***************************************************************************)
(* Links and tickets                                                       *)
(***************************************************************************)

Usable(purpose) == {t \in Tokens : token[t].purpose = purpose /\ token[t].state = "valid"}

\* A new token of a purpose invalidates those the UPDATE sees; it waits for
\* one that is being used.
UsableRows(purpose) == {Token(t) : t \in Usable(purpose)}

Issue(q, t, purpose, target) ==
  /\ token[t] = NoToken /\ \A r \in 1..(t - 1) : token[r] # NoToken
  /\ token' = [r \in Tokens |->
       CASE r = t           -> [purpose |-> purpose, target |-> target, state |-> "valid"]
         [] r \in tx[q].rows -> [token[r] EXCEPT !.state = "invalid"]
         [] OTHER           -> token[r]]
  /\ Commit(q)

TokenExpires(t) ==
  /\ token[t].state = "valid"
  /\ token' = [token EXCEPT ![t].state = "expired"]
  /\ UNCHANGED <<account, sess, profile, uses, tx, linear>>

\* process_password_reset, the job: the account is locked until the mail has
\* been handed over.  Only a verified address receives it.
RecoverBegin(q) ==
  /\ instance = "active"
  /\ profile.state = "verified"
  /\ Begin(q, Tx("recover", None, profile.email, 0, Usable("password_reset"),
                 {Account} \cup UsableRows("password_reset")))

RecoverCommit(q, t) ==
  /\ Running(q, "recover")
  /\ Issue(q, t, "password_reset", tx[q].arg)
  /\ UNCHANGED <<account, sess, profile, uses>>

\* The voice service presents its key instead of a session; the access is
\* audited before the ticket is issued.
ServiceBegin(q) ==
  /\ instance = "active"
  /\ Begin(q, Tx("service", None, None, 0, {}, {}))

\* POST /realtime/ticket: at most the row of the caller's session is locked.
Ticket(q) ==
  /\ Running(q, "request") \/ Audited(q, "service")
  /\ Turns(q, "ticket", Usable("realtime_ticket"), UsableRows("realtime_ticket"), None)

TicketCommit(q, t) ==
  /\ Running(q, "ticket")
  /\ Issue(q, t, "realtime_ticket", None)
  /\ UNCHANGED <<account, sess, profile, uses>>

\* Mutant: begin_email_change reads the profile without FOR UPDATE.
EmailLocksNone == {}

EmailLocks == {Profile}

\* begin_email_change and the mail with its link.
Email(q, address) ==
  /\ ~(profile.email = address /\ profile.state = "verified")
  /\ Asks(q, "email", Usable("email_verify"), EmailLocks \cup UsableRows("email_verify"), address)

EmailCommit(q, t) ==
  /\ Audited(q, "email")
  /\ Issue(q, t, "email_verify", tx[q].arg)
  /\ profile' = [profile EXCEPT !.pending = tx[q].arg, !.state = "pending"]
  /\ UNCHANGED <<account, sess, uses>>

\* Mutant: the token is read without FOR UPDATE.
UseLocksNone(t) == {}

UseLocks(t) == {Token(t)}

Uses == [password_reset |-> "reset", email_verify |-> "verify", realtime_ticket |-> "connect"]

\* complete_reset, complete_email_verification and consume_ticket begin with
\* the row of the token.
UseBegin(q, t) ==
  /\ token[t].state = "valid"
  /\ Begin(q, Tx(Uses[token[t].purpose], None, None, t, {}, UseLocks(t)))

\* A reset locks the credential and revokes the sessions it then sees.
ResetLock(q) ==
  /\ Running(q, "reset") /\ tx[q].arg = None
  /\ Free(q, {Credential})
  /\ tx' = [tx EXCEPT ![q].locks = @ \cup {Credential}, ![q].rows = Open({}), ![q].arg = password]
  /\ UNCHANGED <<account, sess, links, linear>>

\* A verification locks the profile, whose pending address must be the one
\* the link was made for.
VerifyLock(q) ==
  /\ Running(q, "verify") /\ tx[q].arg = None
  /\ Free(q, {Profile})
  /\ profile.pending # None /\ profile.pending = token[tx[q].seen].target
  /\ tx' = [tx EXCEPT ![q].locks = @ \cup {Profile}, ![q].arg = profile.pending]
  /\ UNCHANGED <<account, sess, links, linear>>

Use(q) ==
  /\ token' = [token EXCEPT ![tx[q].seen].state = "used"]
  /\ uses' = [uses EXCEPT ![tx[q].seen] = @ + 1]
  /\ Commit(q)

ResetCommit(q, new) ==
  /\ Audited(q, "reset")
  /\ password' = new /\ outdated' = FALSE
  /\ RevokeRows(q)
  /\ Use(q)
  /\ UNCHANGED <<instance, failed, restricted, wrong, profile>>

VerifyCommit(q) ==
  /\ Audited(q, "verify")
  /\ profile' = [email |-> tx[q].arg, pending |-> None, state |-> "verified"]
  /\ Use(q)
  /\ UNCHANGED <<account, sess>>

ConnectCommit(q) ==
  /\ Running(q, "connect")
  /\ Use(q)
  /\ UNCHANGED <<account, sess, profile>>

-----------------------------------------------------------------------------
Ask(q) ==
  \/ \E s \in Sessions : Revoke(q, s)
  \/ Change(q)
  \/ Ticket(q)
  \/ \E a \in Addresses : Email(q, a)

Step(q) ==
  \/ Audit(q)
  \/ LoginRefused(q)
  \/ Denied(q)
  \/ \E s \in Sessions : LoginCommit(q, s)
  \/ RequestEnd(q)
  \/ RevokeCommit(q)
  \/ \E new \in Passwords : ChangeCommit(q, new) \/ ResetCommit(q, new)
  \/ \E t \in Tokens : RecoverCommit(q, t) \/ TicketCommit(q, t) \/ EmailCommit(q, t)
  \/ ResetLock(q)
  \/ VerifyLock(q)
  \/ VerifyCommit(q)
  \/ ConnectCommit(q)
  \/ Abort(q)

Next ==
  \/ \E p \in Passwords, a \in Addresses \cup {None} : Initialize(p, a)
  \/ \E q \in Requests, p \in Passwords : LoginBegin(q, p)
  \/ \E q \in Requests, L \in {LoginLocks, {}} : DenyBegin(q, L)
  \/ \E q \in Requests, s \in Sessions : RequestBegin(q, s)
  \/ \E q \in Requests, t \in Tokens : UseBegin(q, t)
  \/ \E q \in Requests : RecoverBegin(q) \/ ServiceBegin(q) \/ Ask(q) \/ Step(q)
  \/ \E new \in Passwords : Synchronize(new)
  \/ RestrictionLapses
  \/ ParametersChange
  \/ \E s \in Sessions : SessionExpires(s)
  \/ \E t \in Tokens : TokenExpires(t)

Spec == Init /\ [][Next]_vars

-----------------------------------------------------------------------------
(***************************************************************************)
(* Properties                                                              *)
(***************************************************************************)

\* Once a session is revoked no request of it is still at work: logout, the
\* revocation by the administrator, a new password and a reset all wait for
\* the requests that the session has begun (resolve_session's lock).
RevokedHasNoRequest ==
  \A q \in Requests : tx[q] # None /\ tx[q].session # None => sess[tx[q].session] # "revoked"

\* Every wrong password since the last success is counted, however many
\* logins run at once, so that the restriction begins when it should.
WrongAttemptsAreCounted == failed = wrong

\* At most one link for a new password and one for a new address can be used,
\* although they are issued by concurrent requests and jobs.
OneUsableLink ==
  \A purpose \in {"password_reset", "email_verify"} : Cardinality(Usable(purpose)) <= 1

\* A link and a ticket are accepted once, whatever requests present them.
LinkIsUsedOnce == \A t \in Tokens : uses[t] <= 1

\* verify_chain accepts the audit trail: no two committed events have the
\* same predecessor, though they are written by concurrent transactions, some
\* of which are rolled back.
AuditChainIsLinear == linear
=============================================================================
