--------------------------- MODULE IdentityProofs ---------------------------
(***************************************************************************)
(* Proofs about Identity for any number of concurrent requests, sessions   *)
(* and tokens and for every bound.                                         *)
(***************************************************************************)
EXTENDS Identity, FiniteSetTheorems, TLAPS

Ops == {"login", "refuse", "deny", "request", "revoke", "change", "recover", "service",
        "ticket", "email", "reset", "verify", "connect"}

\* What Account, Credential, Profile, Session and Token name.
RowNames == {"account", "credential", "profile", "session", "token"} \X Nat

Txs ==
  [op : Ops, session : Sessions \cup {None}, arg : Passwords \cup Addresses \cup {None},
   seen : Nat, rows : SUBSET Nat, locks : SUBSET RowNames,
   tail : {"none", "current", "stale"}]

\* The values of the rows and the transactions.
TypeOK ==
  /\ failed \in Nat
  /\ password \in Passwords \cup {None}
  /\ sess \in [Sessions -> {"absent", "live", "expired", "revoked"}]
  /\ token \in [Tokens -> [purpose : Purposes \cup {"none"}, target : Addresses \cup {None},
                           state : {"absent", "valid", "expired", "invalid", "used"}]]
  /\ profile \in [email : Addresses \cup {None}, pending : Addresses \cup {None},
                  state : {"not_set", "pending", "verified"}]
  /\ tx \in [Requests -> Txs \cup {None}]
  /\ uses \in [Tokens -> Nat]

Busy(q) == tx[q] # None

\* A row is locked by one transaction.
RowLocks == \A q, r \in Requests : Busy(q) /\ Busy(r) /\ q # r => tx[q].locks \cap tx[r].locks = {}

\* The rows an operation has read are locked and as they were read.
Holds(t) ==
  /\ t.op = "login" => t.arg \in Passwords
  /\ t.op \in {"recover", "email", "verify"} => t.arg \in Addresses \cup {None}
  /\ t.session # None => Session(t.session) \in t.locks /\ sess[t.session] # "revoked"
  /\ t.op \in {"login", "refuse", "recover"} => Account \in t.locks
  /\ t.op = "refuse" => t.seen = failed
  /\ t.op = "recover" => Usable("password_reset") \subseteq t.rows
  /\ t.op = "email" => Profile \in t.locks /\ Usable("email_verify") \subseteq t.rows
  /\ t.op \in {"recover", "email", "ticket"} =>
       \A k \in t.rows : Token(k) \in t.locks /\ k \in Tokens /\ token[k].state \in {"valid", "expired"}
  /\ t.op \in {"reset", "verify", "connect"} =>
       Token(t.seen) \in t.locks /\ t.seen \in Tokens /\ token[t.seen].state \in {"valid", "expired"}

RowsHold == \A q \in Requests : Busy(q) => Holds(tx[q])

\* One open transaction at most has written an audit event.
OneAppends ==
  /\ \A q \in Requests : Busy(q) => tx[q].tail # "stale"
  /\ \A q, r \in Requests : Busy(q) /\ Busy(r) /\ q # r => tx[q].tail = "none" \/ tx[r].tail = "none"

\* A token that may still be accepted was not; a valid one has a purpose.
Unused ==
  \A t \in Tokens :
    /\ uses[t] <= 1
    /\ token[t].state \in {"absent", "valid", "expired"} => uses[t] = 0
    /\ token[t].state = "valid" => token[t].purpose \in Purposes

\* OneUsableLink without counting.
UsableIsOne ==
  \A purpose \in {"password_reset", "email_verify"} : \A t, u \in Usable(purpose) : t = u

Inv ==
  /\ TypeOK /\ RowLocks /\ RowsHold /\ OneAppends /\ Unused /\ UsableIsOne
  /\ AuditChainIsLinear /\ WrongAttemptsAreCounted
-----------------------------------------------------------------------------
(***************************************************************************)
(* Transactions                                                            *)
(***************************************************************************)

\* What the constructor of transactions returns.
LEMMA NewTx ==
  ASSUME NEW op \in Ops, NEW s \in Sessions \cup {None},
         NEW arg \in Passwords \cup Addresses \cup {None}, NEW seen \in Nat,
         NEW rows \in SUBSET Nat, NEW L \in SUBSET RowNames
  PROVE  /\ Tx(op, s, arg, seen, rows, L) \in Txs
         /\ Tx(op, s, arg, seen, rows, L).op = op
         /\ Tx(op, s, arg, seen, rows, L).session = s
         /\ Tx(op, s, arg, seen, rows, L).arg = arg
         /\ Tx(op, s, arg, seen, rows, L).seen = seen
         /\ Tx(op, s, arg, seen, rows, L).rows = rows
         /\ Tx(op, s, arg, seen, rows, L).locks = L
         /\ Tx(op, s, arg, seen, rows, L).tail = "none"
BY DEF Tx, Txs

\* The names of rows.
LEMMA RowNamesType ==
  /\ {Account} \in SUBSET RowNames /\ {Credential} \in SUBSET RowNames
  /\ {Profile} \in SUBSET RowNames
  /\ \A n \in Nat : {Session(n)} \in SUBSET RowNames /\ {Token(n)} \in SUBSET RowNames
  /\ \A S \in SUBSET Nat : {Session(n) : n \in S} \in SUBSET RowNames
  /\ \A purpose : UsableRows(purpose) \in SUBSET RowNames
  /\ \A purpose : Usable(purpose) \in SUBSET Nat
  /\ Sessions \in SUBSET Nat /\ Tokens \in SUBSET Nat
<1>1. Sessions \in SUBSET Nat /\ Tokens \in SUBSET Nat
  BY ConstantsAssumption DEF Sessions, Tokens
<1>2. \A purpose : Usable(purpose) \in SUBSET Nat
  BY <1>1 DEF Usable
<1>3. \A n \in Nat : Session(n) \in RowNames /\ Token(n) \in RowNames
  BY DEF Session, Token, RowNames
<1>4. Account \in RowNames /\ Credential \in RowNames /\ Profile \in RowNames
  BY DEF Account, Credential, Profile, RowNames
<1>5. \A S \in SUBSET Nat : {Session(n) : n \in S} \in SUBSET RowNames
  BY <1>3
<1>6. \A purpose : UsableRows(purpose) \in SUBSET RowNames
  BY <1>2, <1>3 DEF UsableRows
<1> QED
  BY <1>1, <1>2, <1>3, <1>4, <1>5, <1>6

\* A transaction is opened or goes on: the others do not hold what it has
\* locked, and only one has written an event.
LEMMA TxMoves ==
  ASSUME Inv, NEW q \in Requests, NEW t \in Txs,
         tx' = [tx EXCEPT ![q] = t], UNCHANGED <<account, sess, links, linear>>,
         \A r \in Requests \ {q} : Busy(r) => t.locks \cap tx[r].locks = {},
         Holds(t), t.tail # "stale",
         t.tail = "none" \/ \A r \in Requests \ {q} : Busy(r) => tx[r].tail = "none"
  PROVE  Inv'
<1> USE DEF Inv
<1>1. UNCHANGED <<failed, wrong, password, sess, token, profile, uses, linear>>
  BY DEF account, links
<1>2. TypeOK'
  BY <1>1 DEF TypeOK
<1>3. RowLocks' /\ OneAppends'
  BY DEF RowLocks, OneAppends, Busy, TypeOK
<1>4. RowsHold'
  <2>1. ASSUME NEW r \in Requests, Busy(r)'
        PROVE  Holds(tx'[r])
    BY <2>1 DEF RowsHold, Busy, TypeOK
  <2> QED
    BY <2>1, <1>1 DEF RowsHold, Holds, Usable
<1>5. Unused' /\ UsableIsOne' /\ AuditChainIsLinear' /\ WrongAttemptsAreCounted'
  BY <1>1 DEF Unused, UsableIsOne, Usable, AuditChainIsLinear, WrongAttemptsAreCounted
<1> QED
  BY <1>2, <1>3, <1>4, <1>5

\* A transaction begins.
LEMMA TxBegins ==
  ASSUME Inv, NEW q \in Requests, NEW t \in Txs, Begin(q, t), Holds(t), t.tail = "none"
  PROVE  Inv'
<1>1. \A r \in Requests \ {q} : Busy(r) => t.locks \cap tx[r].locks = {}
  BY DEF Begin, Free, Busy
<1> QED
  BY <1>1, TxMoves DEF Begin

\* The commit of a transaction closes it and leaves the others as they are:
\* its event is the only one.
LEMMA CommitTx ==
  ASSUME Inv, NEW q \in Requests, Busy(q), Commit(q)
  PROVE  tx' = [tx EXCEPT ![q] = None] /\ linear' = TRUE
<1>1. linear' = TRUE
  BY DEF Inv, OneAppends, AuditChainIsLinear, Commit
<1>2. \A r \in Requests \ {q} : ~(tx[r] # None /\ tx[q].tail # "none" /\ tx[r].tail # "none")
  BY DEF Inv, OneAppends, Busy
<1> QED
  BY <1>1, <1>2 DEF Inv, TypeOK, Commit

\* A transaction that is closed leaves locks and events to the others.
LEMMA TxCloses ==
  ASSUME Inv, NEW q \in Requests, tx' = [tx EXCEPT ![q] = None]
  PROVE  /\ tx' \in [Requests -> Txs \cup {None}] /\ RowLocks' /\ OneAppends'
         /\ \A r \in Requests : Busy(r)' => r # q /\ Busy(r) /\ tx'[r] = tx[r]
BY DEF Inv, TypeOK, RowLocks, OneAppends, Busy

-----------------------------------------------------------------------------
(***************************************************************************)
(* Steps that open a transaction or let it go on                           *)
(***************************************************************************)

\* Every transaction begins with the rows it has read.
LEMMA BeginStep ==
  ASSUME Inv, NEW q \in Requests
  PROVE  /\ \A p \in Passwords : LoginBegin(q, p) => Inv'
         /\ \A L \in {LoginLocks, {}} : DenyBegin(q, L) => Inv'
         /\ \A s \in Sessions : RequestBegin(q, s) => Inv'
         /\ \A t \in Tokens : UseBegin(q, t) => Inv'
         /\ RecoverBegin(q) \/ ServiceBegin(q) => Inv'
<1>1. ASSUME NEW p \in Passwords, LoginBegin(q, p)
      PROVE  Inv'
  <2> DEFINE o == IF p = password THEN "login" ELSE "refuse"
             t == Tx(o, None, p, failed, {}, {Account})
  <2>1. /\ t \in Txs /\ t.op \in {"login", "refuse"} /\ t.session = None /\ t.seen = failed /\ t.arg = p
        /\ t.locks = {Account} /\ t.tail = "none"
    <3>1. o \in Ops /\ failed \in Nat /\ {Account} \in SUBSET RowNames
      BY RowNamesType DEF Ops, Inv, TypeOK
    <3>2. o \in {"login", "refuse"}
      OBVIOUS
    <3> HIDE DEF o
    <3> QED
      BY <3>1, <3>2, NewTx
  <2>2. Begin(q, t)
    BY <1>1 DEF LoginBegin, LoginLocks
  <2> HIDE DEF t
  <2>3. Holds(t)
    BY <2>1 DEF Holds
  <2> QED
    BY <2>1, <2>2, <2>3, TxBegins
<1>2. ASSUME NEW L \in {LoginLocks, {}}, DenyBegin(q, L)
      PROVE  Inv'
  <2> DEFINE t == Tx("deny", None, None, 0, {}, L)
  <2>1. t \in Txs /\ t.op = "deny" /\ t.session = None /\ t.tail = "none"
    <3>1. "deny" \in Ops /\ L \in SUBSET RowNames
      BY RowNamesType DEF Ops, LoginLocks
    <3> QED
      BY <3>1, NewTx
  <2>2. Begin(q, t)
    BY <1>2 DEF DenyBegin
  <2> HIDE DEF t
  <2>3. Holds(t)
    BY <2>1 DEF Holds
  <2> QED
    BY <2>1, <2>2, <2>3, TxBegins
<1>3. ASSUME NEW s \in Sessions, RequestBegin(q, s)
      PROVE  Inv'
  <2> DEFINE t == Tx("request", s, None, 0, {}, {Session(s)})
  <2>1. t \in Txs /\ t.op = "request" /\ t.session = s /\ t.locks = {Session(s)} /\ t.tail = "none"
    <3>1. "request" \in Ops /\ {Session(s)} \in SUBSET RowNames
      BY RowNamesType DEF Ops
    <3> QED
      BY <3>1, NewTx
  <2>2. Begin(q, t) /\ sess[s] = "live"
    BY <1>3 DEF RequestBegin, SessionLocks
  <2> HIDE DEF t
  <2>3. Holds(t)
    BY <2>1, <2>2 DEF Holds
  <2> QED
    BY <2>1, <2>2, <2>3, TxBegins
<1>4. ASSUME NEW k \in Tokens, UseBegin(q, k)
      PROVE  Inv'
  <2> DEFINE o == Uses[token[k].purpose]
             t == Tx(o, None, None, k, {}, {Token(k)})
  <2>1. o \in {"reset", "verify", "connect"}
    BY <1>4 DEF UseBegin, Inv, Unused, Purposes, Uses
  <2> HIDE DEF o
  <2>2. /\ t \in Txs /\ t.op = o /\ t.session = None /\ t.seen = k /\ t.locks = {Token(k)}
        /\ t.arg = None /\ t.tail = "none"
    <3>1. o \in Ops /\ {Token(k)} \in SUBSET RowNames /\ k \in Nat
      BY <2>1, RowNamesType DEF Ops
    <3> QED
      BY <3>1, NewTx
  <2>3. Begin(q, t) /\ token[k].state = "valid"
    BY <1>4 DEF UseBegin, UseLocks, o
  <2> HIDE DEF t
  <2>4. Holds(t)
    BY <2>1, <2>2, <2>3 DEF Holds
  <2> QED
    BY <2>2, <2>3, <2>4, TxBegins
<1>5. ASSUME RecoverBegin(q)
      PROVE  Inv'
  <2> DEFINE L == {Account} \cup UsableRows("password_reset")
             R == Usable("password_reset")
             t == Tx("recover", None, profile.email, 0, R, L)
  <2>1. L \in SUBSET RowNames /\ R \in SUBSET Nat
        /\ profile.email \in Addresses \cup {None}
    BY RowNamesType DEF Inv, TypeOK
  <2>2. /\ Account \in L
        /\ \A k \in R : Token(k) \in L /\ k \in Tokens /\ token[k].state = "valid"
    BY DEF UsableRows, Usable
  <2>3. Begin(q, t)
    BY <1>5 DEF RecoverBegin
  <2> HIDE DEF L, R
  <2>4. /\ t \in Txs /\ t.op = "recover" /\ t.session = None /\ t.rows = R /\ t.locks = L
        /\ t.tail = "none" /\ t.arg = profile.email
    BY <2>1, NewTx DEF Ops
  <2> HIDE DEF t
  <2>5. Holds(t)
    BY <2>1, <2>2, <2>4 DEF Holds, R
  <2> QED
    BY <2>3, <2>4, <2>5, TxBegins
<1>6. ASSUME ServiceBegin(q)
      PROVE  Inv'
  <2> DEFINE t == Tx("service", None, None, 0, {}, {})
  <2>1. t \in Txs /\ t.op = "service" /\ t.session = None /\ t.tail = "none"
    BY NewTx DEF Ops
  <2>2. Begin(q, t)
    BY <1>6 DEF ServiceBegin
  <2> HIDE DEF t
  <2>3. Holds(t)
    BY <2>1 DEF Holds
  <2> QED
    BY <2>1, <2>2, <2>3, TxBegins
<1> QED
  BY <1>1, <1>2, <1>3, <1>4, <1>5, <1>6

\* A request that turns into an operation keeps its session and its locks.
LEMMA TurnStep ==
  ASSUME Inv, NEW q \in Requests, Busy(q), tx[q].op \in {"request", "service"},
         NEW op \in {"revoke", "change", "ticket", "email"}, NEW R \in SUBSET Nat,
         NEW L \in SUBSET RowNames, NEW address \in Addresses \cup {None},
         Turns(q, op, R, L, address),
         op = "email" => Profile \in L /\ Usable("email_verify") \subseteq R,
         op \in {"email", "ticket"} =>
           \A k \in R : Token(k) \in L /\ k \in Tokens /\ token[k].state = "valid"
  PROVE  Inv'
<1> DEFINE t == [tx[q] EXCEPT !.op = op, !.rows = R, !.locks = @ \cup L, !.arg = address]
<1>1. tx[q] \in Txs /\ tx \in [Requests -> Txs \cup {None}]
  BY DEF Inv, TypeOK, Busy
<1>2. tx' = [tx EXCEPT ![q] = t]
  BY <1>1 DEF Turns
<1>3. t \in Txs
  BY <1>1 DEF Txs, Ops
<1>4. /\ t.op = op /\ t.session = tx[q].session /\ t.rows = R /\ t.locks = tx[q].locks \cup L
      /\ t.tail = tx[q].tail /\ t.arg = address
  BY <1>1 DEF Txs
<1> HIDE DEF t
<1>5. Holds(t)
  BY <1>1, <1>4 DEF Inv, RowsHold, Holds
<1>6. \A r \in Requests \ {q} : Busy(r) => t.locks \cap tx[r].locks = {}
  BY <1>4 DEF Inv, RowLocks, Turns, Free, Busy
<1>7. /\ t.tail # "stale"
      /\ t.tail = "none" \/ \A r \in Requests \ {q} : Busy(r) => tx[r].tail = "none"
  BY <1>4 DEF Inv, OneAppends
<1>8. UNCHANGED <<account, sess, links, linear>>
  BY DEF Turns
<1> QED
  BY <1>2, <1>3, <1>5, <1>6, <1>7, <1>8, TxMoves

\* The operations a request may ask for.
LEMMA AskStep ==
  ASSUME Inv, NEW q \in Requests, Ask(q)
  PROVE  Inv'
<1>1. ASSUME NEW s \in Sessions, Revoke(q, s)
      PROVE  Inv'
  <2>1. {s} \in SUBSET Nat /\ {} \in SUBSET RowNames /\ Busy(q) /\ tx[q].op = "request"
        /\ Turns(q, "revoke", {s}, {}, None)
    BY <1>1, RowNamesType DEF Revoke, Asks, Running, Busy
  <2> QED
    BY <2>1, TurnStep
<1>2. ASSUME Change(q)
      PROVE  Inv'
  <2> DEFINE R == Open({tx[q].session})
  <2>1. R \in SUBSET Nat /\ {Credential} \in SUBSET RowNames /\ Busy(q)
        /\ tx[q].op = "request" /\ Turns(q, "change", R, {Credential}, None)
    BY <1>2, RowNamesType DEF Change, Asks, Running, Busy, Open
  <2> HIDE DEF R
  <2> QED
    BY <2>1, TurnStep
<1>3. ASSUME Ticket(q)
      PROVE  Inv'
  <2> DEFINE R == Usable("realtime_ticket")
             L == UsableRows("realtime_ticket")
  <2>1. R \in SUBSET Nat /\ L \in SUBSET RowNames /\ Busy(q)
        /\ tx[q].op \in {"request", "service"} /\ Turns(q, "ticket", R, L, None)
    BY <1>3, RowNamesType DEF Ticket, Audited, Running, Busy
  <2>2. \A k \in R : Token(k) \in L /\ k \in Tokens /\ token[k].state = "valid"
    BY DEF Usable, UsableRows
  <2> HIDE DEF R, L
  <2> QED
    BY <2>1, <2>2, TurnStep
<1>4. ASSUME NEW a \in Addresses, Email(q, a)
      PROVE  Inv'
  <2> DEFINE R == Usable("email_verify")
             L == {Profile} \cup UsableRows("email_verify")
  <2>1. R \in SUBSET Nat /\ L \in SUBSET RowNames /\ Busy(q)
        /\ tx[q].op = "request" /\ Turns(q, "email", R, L, a)
    BY <1>4, RowNamesType DEF Email, EmailLocks, Asks, Running, Busy
  <2>2. /\ \A k \in R : Token(k) \in L /\ k \in Tokens /\ token[k].state = "valid"
        /\ Profile \in L /\ Usable("email_verify") \subseteq R
    BY DEF Usable, UsableRows
  <2> HIDE DEF R, L
  <2> QED
    BY <2>1, <2>2, TurnStep
<1> QED
  BY <1>1, <1>2, <1>3, <1>4 DEF Ask

\* The event is written, or the second lock taken.
LEMMA LockStep ==
  ASSUME Inv, NEW q \in Requests, Audit(q) \/ ResetLock(q) \/ VerifyLock(q)
  PROVE  Inv'
<1>0. tx[q] \in Txs /\ tx \in [Requests -> Txs \cup {None}] /\ Busy(q)
  BY DEF Inv, TypeOK, Busy, Audit, ResetLock, VerifyLock, Running
<1>1. ASSUME Audit(q)
      PROVE  Inv'
  <2> DEFINE L == Statement(q)
             t == [tx[q] EXCEPT !.tail = "current", !.locks = @ \cup L]
  <2>1. L \in SUBSET RowNames
    BY <1>0, RowNamesType DEF Statement, Txs
  <2>2. Free(q, L) /\ ChainFree(q) /\ UNCHANGED <<account, sess, links, linear>>
    BY <1>1 DEF Audit
  <2>3. tx' = [tx EXCEPT ![q] = t]
    BY <1>0, <1>1 DEF Audit
  <2> HIDE DEF L
  <2>4. t \in Txs
    BY <1>0, <2>1 DEF Txs
  <2>5. /\ t.op = tx[q].op /\ t.session = tx[q].session /\ t.rows = tx[q].rows
        /\ t.seen = tx[q].seen /\ t.locks = tx[q].locks \cup L /\ t.tail = "current"
        /\ t.arg = tx[q].arg
    BY <1>0 DEF Txs
  <2> HIDE DEF t
  <2>6. Holds(t)
    BY <1>0, <2>5 DEF Inv, RowsHold, Holds
  <2>7. \A r \in Requests \ {q} : Busy(r) => t.locks \cap tx[r].locks = {}
    BY <1>0, <2>2, <2>5 DEF Inv, RowLocks, Free, Busy
  <2>8. \A r \in Requests \ {q} : Busy(r) => tx[r].tail = "none"
    BY <2>2 DEF ChainFree, Busy
  <2> QED
    BY <2>2, <2>3, <2>4, <2>5, <2>6, <2>7, <2>8, TxMoves
<1>2. ASSUME ResetLock(q)
      PROVE  Inv'
  <2> DEFINE R == Open({})
             t == [tx[q] EXCEPT !.locks = @ \cup {Credential}, !.rows = R, !.arg = password]
  <2>1. R \in SUBSET Nat /\ password \in Passwords \cup {None} /\ {Credential} \in SUBSET RowNames
    BY RowNamesType DEF Open, Inv, TypeOK
  <2>2. Free(q, {Credential}) /\ UNCHANGED <<account, sess, links, linear>> /\ tx[q].op = "reset"
    BY <1>2 DEF ResetLock, Running
  <2>3. tx' = [tx EXCEPT ![q] = t]
    BY <1>0, <1>2 DEF ResetLock
  <2> HIDE DEF R
  <2>4. t \in Txs
    BY <1>0, <2>1 DEF Txs
  <2>5. /\ t.op = "reset" /\ t.session = tx[q].session /\ t.seen = tx[q].seen
        /\ t.locks = tx[q].locks \cup {Credential} /\ t.tail = tx[q].tail
    BY <1>0, <2>2 DEF Txs
  <2> HIDE DEF t
  <2>6. Holds(t)
    BY <1>0, <2>1, <2>2, <2>5 DEF Inv, RowsHold, Holds
  <2>7. \A r \in Requests \ {q} : Busy(r) => t.locks \cap tx[r].locks = {}
    BY <1>0, <2>2, <2>5 DEF Inv, RowLocks, Free, Busy
  <2>8. /\ t.tail # "stale"
        /\ t.tail = "none" \/ \A r \in Requests \ {q} : Busy(r) => tx[r].tail = "none"
    BY <1>0, <2>5 DEF Inv, OneAppends
  <2> QED
    BY <2>2, <2>3, <2>4, <2>6, <2>7, <2>8, TxMoves
<1>3. ASSUME VerifyLock(q)
      PROVE  Inv'
  <2> DEFINE t == [tx[q] EXCEPT !.locks = @ \cup {Profile}, !.arg = profile.pending]
  <2>1. profile.pending \in Addresses \cup {None} /\ {Profile} \in SUBSET RowNames
    BY RowNamesType DEF Inv, TypeOK
  <2>2. Free(q, {Profile}) /\ UNCHANGED <<account, sess, links, linear>> /\ tx[q].op = "verify"
    BY <1>3 DEF VerifyLock, Running
  <2>3. tx' = [tx EXCEPT ![q] = t]
    BY <1>0, <1>3 DEF VerifyLock
  <2>4. t \in Txs
    BY <1>0, <2>1 DEF Txs
  <2>5. /\ t.op = "verify" /\ t.session = tx[q].session /\ t.seen = tx[q].seen
        /\ t.locks = tx[q].locks \cup {Profile} /\ t.tail = tx[q].tail
        /\ t.arg = profile.pending
    BY <1>0, <2>2 DEF Txs
  <2> HIDE DEF t
  <2>6. Holds(t)
    BY <1>0, <2>1, <2>2, <2>5 DEF Inv, RowsHold, Holds
  <2>7. \A r \in Requests \ {q} : Busy(r) => t.locks \cap tx[r].locks = {}
    BY <1>0, <2>2, <2>5 DEF Inv, RowLocks, Free, Busy
  <2>8. /\ t.tail # "stale"
        /\ t.tail = "none" \/ \A r \in Requests \ {q} : Busy(r) => tx[r].tail = "none"
    BY <1>0, <2>5 DEF Inv, OneAppends
  <2> QED
    BY <2>2, <2>3, <2>4, <2>6, <2>7, <2>8, TxMoves
<1> QED
  BY <1>1, <1>2, <1>3

-----------------------------------------------------------------------------
(***************************************************************************)
(* Steps that end a transaction                                            *)
(***************************************************************************)

\* Two rows have the same name only if they are the same row.
LEMMA NamesDiffer ==
  /\ \A m, n : Session(m) = Session(n) => m = n
  /\ \A m, n : Token(m) = Token(n) => m = n
BY DEF Session, Token

\* A transaction that ends is gone, and what the others hold is not its.
LEMMA Ends ==
  ASSUME Inv, NEW q \in Requests, Busy(q), Commit(q) \/ (tx' = [tx EXCEPT ![q] = None] /\ linear' = linear)
  PROVE  /\ tx' \in [Requests -> Txs \cup {None}] /\ RowLocks' /\ OneAppends' /\ AuditChainIsLinear'
         /\ \A r \in Requests : Busy(r)' =>
              /\ r # q /\ Busy(r) /\ tx'[r] = tx[r] /\ tx[r] \in Txs /\ Holds(tx[r])
              /\ tx[q].locks \cap tx[r].locks = {}
<1>1. tx' = [tx EXCEPT ![q] = None] /\ linear' = TRUE
  BY CommitTx DEF Inv, AuditChainIsLinear
<1> QED
  BY <1>1, TxCloses DEF Inv, TypeOK, RowsHold, RowLocks, Busy, AuditChainIsLinear

\* The end of a transaction that has changed no row.
LEMMA QuietEnd ==
  ASSUME Inv, NEW q \in Requests, Denied(q) \/ RequestEnd(q) \/ Abort(q)
  PROVE  Inv'
<1>1. Busy(q) /\ UNCHANGED <<account, sess, links>>
      /\ (Commit(q) \/ (tx' = [tx EXCEPT ![q] = None] /\ linear' = linear))
  BY DEF Denied, RequestEnd, Abort, Audited, Running, Busy
<1>2. UNCHANGED <<failed, wrong, password, sess, token, profile, uses>>
  BY <1>1 DEF account, links
<1>3. TypeOK' /\ RowLocks' /\ OneAppends' /\ AuditChainIsLinear'
  BY <1>1, <1>2, Ends DEF Inv, TypeOK
<1>4. RowsHold'
  BY <1>1, <1>2, Ends DEF RowsHold, Holds, Usable
<1>5. Unused' /\ UsableIsOne' /\ WrongAttemptsAreCounted'
  BY <1>2 DEF Inv, Unused, UsableIsOne, Usable, WrongAttemptsAreCounted
<1> QED
  BY <1>3, <1>4, <1>5 DEF Inv

\* A refused login writes the count it has read plus one; it holds the
\* account, so that no other login has read the same count.
LEMMA RefusedStep ==
  ASSUME Inv, NEW q \in Requests, LoginRefused(q)
  PROVE  Inv'
<1>1. Busy(q) /\ Commit(q) /\ Holds(tx[q]) /\ tx[q].op = "refuse"
  BY DEF LoginRefused, Audited, Running, Busy, Inv, RowsHold
<1>2. /\ failed' = failed + 1 /\ wrong' = wrong + 1
      /\ UNCHANGED <<password, sess, token, profile, uses>>
  BY <1>1 DEF LoginRefused, Holds, links
<1>3. TypeOK' /\ RowLocks' /\ OneAppends' /\ AuditChainIsLinear'
  BY <1>1, <1>2, Ends DEF Inv, TypeOK
<1>4. RowsHold'
  <2>1. \A r \in Requests : Busy(r)' => tx[r].op # "refuse"
    BY <1>1, Ends DEF Holds
  <2> QED
    BY <1>1, <1>2, <2>1, Ends DEF RowsHold, Holds, Usable
<1>5. Unused' /\ UsableIsOne' /\ WrongAttemptsAreCounted'
  BY <1>2 DEF Inv, Unused, UsableIsOne, Usable, WrongAttemptsAreCounted
<1> QED
  BY <1>3, <1>4, <1>5 DEF Inv

\* A login resets the count, with the account locked.
LEMMA LoginStep ==
  ASSUME Inv, NEW q \in Requests, NEW s \in Sessions, LoginCommit(q, s)
  PROVE  Inv'
<1>1. Busy(q) /\ Commit(q) /\ Holds(tx[q]) /\ tx[q].op = "login" /\ tx[q] \in Txs
  BY DEF LoginCommit, Audited, Running, Busy, Inv, RowsHold, TypeOK
<1>2. /\ failed' = 0 /\ wrong' = 0 /\ sess' = [sess EXCEPT ![s] = "live"]
      /\ UNCHANGED <<token, profile, uses>>
  BY DEF LoginCommit, links
<1>3. password' \in Passwords \cup {None}
  BY <1>1 DEF Inv, TypeOK, LoginCommit, Holds
<1>4. TypeOK' /\ RowLocks' /\ OneAppends' /\ AuditChainIsLinear'
  BY <1>1, <1>2, <1>3, Ends DEF Inv, TypeOK
<1>5. RowsHold'
  <2>1. \A r \in Requests : Busy(r)' => tx[r].op # "refuse"
    BY <1>1, Ends DEF Holds
  <2> QED
    BY <1>1, <1>2, <2>1, Ends DEF RowsHold, Holds, Usable, Inv, TypeOK
<1>6. Unused' /\ UsableIsOne' /\ WrongAttemptsAreCounted'
  BY <1>2 DEF Inv, Unused, UsableIsOne, Usable, WrongAttemptsAreCounted
<1> QED
  BY <1>4, <1>5, <1>6 DEF Inv

\* The sessions a transaction revokes are at work in no other.
LEMMA RevokedAreFree ==
  ASSUME Inv, NEW q \in Requests, RevokeRows(q)
  PROVE  /\ sess' \in [Sessions -> {"absent", "live", "expired", "revoked"}]
         /\ \A r \in Requests \ {q} : Busy(r) /\ tx[r].session # None =>
              sess'[tx[r].session] # "revoked"
<1>1. sess' \in [Sessions -> {"absent", "live", "expired", "revoked"}]
  BY DEF Inv, TypeOK, RevokeRows
<1>2. ASSUME NEW r \in Requests \ {q}, Busy(r), tx[r].session # None
      PROVE  sess'[tx[r].session] # "revoked"
  <2>1. tx[r].session \in Sessions /\ Session(tx[r].session) \in tx[r].locks
        /\ sess[tx[r].session] # "revoked"
    BY <1>2 DEF Inv, TypeOK, Txs, RowsHold, Holds, Busy
  <2>2. tx[r].session \notin tx[q].rows
    BY <1>2, <2>1 DEF RevokeRows, Free, Busy
  <2> QED
    BY <2>1, <2>2 DEF RevokeRows
<1> QED
  BY <1>1, <1>2

\* A revocation and a new password.
LEMMA RevokeStep ==
  ASSUME Inv, NEW q \in Requests,
         RevokeCommit(q) \/ \E new \in Passwords : ChangeCommit(q, new)
  PROVE  Inv'
<1>1. Busy(q) /\ Commit(q) /\ RevokeRows(q) /\ UNCHANGED <<failed, wrong, token, profile, uses>>
  BY DEF RevokeCommit, ChangeCommit, Audited, Running, Busy, account, links
<1>2. password' \in Passwords \cup {None}
  BY DEF Inv, TypeOK, RevokeCommit, ChangeCommit, account
<1>3. TypeOK' /\ RowLocks' /\ OneAppends' /\ AuditChainIsLinear'
  BY <1>1, <1>2, Ends, RevokedAreFree DEF Inv, TypeOK
<1>4. RowsHold'
  BY <1>1, Ends, RevokedAreFree DEF RowsHold, Holds, Usable
<1>5. Unused' /\ UsableIsOne' /\ WrongAttemptsAreCounted'
  BY <1>1 DEF Inv, Unused, UsableIsOne, Usable, WrongAttemptsAreCounted
<1> QED
  BY <1>3, <1>4, <1>5 DEF Inv

\* A token is accepted by the transaction that has it locked.
LEMMA UseStep ==
  ASSUME Inv, NEW q \in Requests,
         VerifyCommit(q) \/ ConnectCommit(q) \/ \E new \in Passwords : ResetCommit(q, new)
  PROVE  Inv'
<1> DEFINE k == tx[q].seen
<1>1. Busy(q) /\ tx[q] \in Txs /\ tx[q].op \in {"reset", "verify", "connect"}
  BY DEF VerifyCommit, ConnectCommit, ResetCommit, Audited, Running, Busy, Inv, TypeOK
<1>2. k \in Tokens /\ Token(k) \in tx[q].locks /\ token[k].state \in {"valid", "expired"}
  BY <1>1 DEF Inv, RowsHold, Holds
<1>3. /\ token' = [token EXCEPT ![k].state = "used"] /\ uses' = [uses EXCEPT ![k] = @ + 1]
      /\ Commit(q) /\ UNCHANGED <<failed, wrong>>
      /\ sess' = sess \/ RevokeRows(q)
  BY DEF VerifyCommit, ConnectCommit, ResetCommit, Use, account
<1>4. password' \in Passwords \cup {None}
  BY DEF Inv, TypeOK, VerifyCommit, ConnectCommit, ResetCommit, account
<1>5. profile' \in [email : Addresses \cup {None}, pending : Addresses \cup {None},
                    state : {"not_set", "pending", "verified"}]
  BY <1>1
     DEF VerifyCommit, ConnectCommit, ResetCommit, Audited, Running, Inv, RowsHold, Holds,
         TypeOK
<1>6. TypeOK' /\ RowLocks' /\ OneAppends' /\ AuditChainIsLinear'
  BY <1>1, <1>2, <1>3, <1>4, <1>5, Ends, RevokedAreFree DEF Inv, TypeOK
<1>7. RowsHold'
  BY <1>1, <1>2, <1>3, Ends, RevokedAreFree, NamesDiffer DEF Inv, TypeOK, RowsHold, Holds, Usable
<1>8. Unused' /\ UsableIsOne' /\ WrongAttemptsAreCounted'
  BY <1>2, <1>3 DEF Inv, TypeOK, Unused, UsableIsOne, Usable, WrongAttemptsAreCounted
<1> QED
  BY <1>6, <1>7, <1>8 DEF Inv

\* A token is issued: with the account or the profile locked no other
\* transaction issues one of the purpose, and the rows marked invalid are
\* locked, so that none of them is being accepted.
LEMMA IssueStep ==
  ASSUME Inv, NEW q \in Requests, NEW k \in Tokens,
         RecoverCommit(q, k) \/ TicketCommit(q, k) \/ EmailCommit(q, k)
  PROVE  Inv'
<1> DEFINE o == tx[q].op
           R == tx[q].rows
<1>1. Busy(q) /\ tx[q] \in Txs /\ o \in {"recover", "ticket", "email"} /\ Holds(tx[q])
  BY DEF RecoverCommit, TicketCommit, EmailCommit, Audited, Running, Busy, Inv, TypeOK, RowsHold
<1>2. PICK p \in Purposes, target \in Addresses \cup {None} :
        /\ Issue(q, k, p, target)
        /\ p = "password_reset" <=> o = "recover"
        /\ p = "email_verify" <=> o = "email"
  BY <1>1 DEF RecoverCommit, TicketCommit, EmailCommit, Audited, Running, Holds, Purposes
<1>3. /\ Commit(q) /\ UNCHANGED <<failed, wrong, password, sess, uses>>
      /\ token[k].state = "absent"
      /\ token' = [r \in Tokens |->
           IF r = k THEN [purpose |-> p, target |-> target, state |-> "valid"]
           ELSE IF r \in R THEN [token[r] EXCEPT !.state = "invalid"] ELSE token[r]]
  <2>1. UNCHANGED <<failed, wrong, password, sess, uses>>
    BY DEF RecoverCommit, TicketCommit, EmailCommit, account
  <2>2. Commit(q) /\ token[k].state = "absent"
    BY <1>2 DEF Issue, NoToken
  <2>3. token' = [r \in Tokens |->
           CASE r = k -> [purpose |-> p, target |-> target, state |-> "valid"]
             [] r \in R -> [token[r] EXCEPT !.state = "invalid"]
             [] OTHER -> token[r]]
    BY <1>2 DEF Issue
  <2>4. k \notin R
    BY <1>1, <2>2 DEF Holds
  <2> QED
    BY <2>1, <2>2, <2>3, <2>4
<1>4. profile' \in [email : Addresses \cup {None}, pending : Addresses \cup {None},
                    state : {"not_set", "pending", "verified"}]
  BY <1>1 DEF RecoverCommit, TicketCommit, EmailCommit, Audited, Running, Inv, Holds, TypeOK
<1>5. token' \in [Tokens -> [purpose : Purposes \cup {"none"}, target : Addresses \cup {None},
                             state : {"absent", "valid", "expired", "invalid", "used"}]]
  BY <1>3 DEF Inv, TypeOK
<1>6. TypeOK' /\ RowLocks' /\ OneAppends' /\ AuditChainIsLinear'
  BY <1>1, <1>3, <1>4, <1>5, Ends DEF Inv, TypeOK
<1>7. \A r \in Tokens : /\ token'[r].state \in {"valid", "expired"} /\ r # k =>
                             token'[r] = token[r] /\ r \notin R
                        /\ r # k /\ r \notin R => token'[r] = token[r]
  BY <1>3 DEF Inv, TypeOK
<1>8. RowsHold'
  <2> SUFFICES ASSUME NEW r \in Requests, Busy(r)'
               PROVE  Holds(tx[r])'
    BY DEF RowsHold
  <2>1. /\ r # q /\ Busy(r) /\ tx'[r] = tx[r] /\ tx[r] \in Txs /\ Holds(tx[r])
        /\ tx[q].locks \cap tx[r].locks = {}
    BY <1>1, <1>3, Ends
  <2> QED
    BY <1>1, <1>2, <1>3, <1>7, <2>1 DEF Holds, Usable
<1>9. Unused'
  BY <1>1, <1>3 DEF Inv, TypeOK, Unused, Holds
<1>10. UsableIsOne' /\ WrongAttemptsAreCounted'
  BY <1>1, <1>2, <1>3 DEF Inv, TypeOK, UsableIsOne, Usable, Holds, WrongAttemptsAreCounted
<1> QED
  BY <1>6, <1>8, <1>9, <1>10 DEF Inv

-----------------------------------------------------------------------------
(***************************************************************************)
(* Steps outside of transactions                                           *)
(***************************************************************************)

\* A deployment password is set while no transaction has the account, the
\* credential or a session locked.
LEMMA SynchronizeStep ==
  ASSUME Inv, NEW new \in Passwords, Synchronize(new)
  PROVE  Inv'
<1>1. /\ failed' = 0 /\ wrong' = 0 /\ password' = new
      /\ sess' = [s \in Sessions |-> IF s \in Open({}) THEN "revoked" ELSE sess[s]]
      /\ UNCHANGED <<token, profile, uses, tx, linear>>
  BY DEF Synchronize, links
<1>2. TypeOK' /\ RowLocks' /\ OneAppends' /\ AuditChainIsLinear'
  BY <1>1 DEF Inv, TypeOK, RowLocks, OneAppends, AuditChainIsLinear, Busy
<1>3. RowsHold'
  <2> SUFFICES ASSUME NEW r \in Requests, Busy(r)
               PROVE  Holds(tx[r])'
    BY <1>1 DEF RowsHold, Busy
  <2>1. tx[r] \in Txs /\ Holds(tx[r])
    BY DEF Inv, TypeOK, RowsHold, Busy
  <2>2. Account \notin tx[r].locks /\ \A s \in Open({}) : Session(s) \notin tx[r].locks
    BY DEF Synchronize, Busy
  <2>3. tx[r].op # "refuse"
    BY <2>1, <2>2 DEF Holds
  <2>4. tx[r].session # None => sess'[tx[r].session] # "revoked"
    BY <1>1, <2>1, <2>2 DEF Holds, Txs
  <2> QED
    BY <1>1, <2>1, <2>3, <2>4 DEF Holds, Usable
<1>4. Unused' /\ UsableIsOne' /\ WrongAttemptsAreCounted'
  BY <1>1 DEF Inv, Unused, UsableIsOne, Usable, WrongAttemptsAreCounted
<1> QED
  BY <1>2, <1>3, <1>4 DEF Inv

\* The passage of time, a first start and a release with other parameters.
LEMMA OutsideStep ==
  ASSUME Inv,
         \/ \E p \in Passwords, a \in Addresses \cup {None} : Initialize(p, a)
         \/ RestrictionLapses
         \/ ParametersChange
         \/ \E s \in Sessions : SessionExpires(s)
         \/ \E t \in Tokens : TokenExpires(t)
  PROVE  Inv'
<1> USE DEF TypeOK, RowLocks, RowsHold, Holds, OneAppends, Unused, UsableIsOne, Usable,
            AuditChainIsLinear, WrongAttemptsAreCounted, Busy
<1>1. ASSUME NEW p \in Passwords, NEW a \in Addresses \cup {None}, Initialize(p, a)
      PROVE  Inv'
  BY <1>1 DEF Inv, Initialize
<1>2. ASSUME RestrictionLapses \/ ParametersChange
      PROVE  Inv'
  <2>1. UNCHANGED <<failed, wrong, password, sess, token, profile, uses, tx, linear>>
    BY <1>2 DEF RestrictionLapses, ParametersChange, links
  <2> QED
    BY <2>1 DEF Inv
<1>3. ASSUME NEW s \in Sessions, SessionExpires(s)
      PROVE  Inv'
  BY <1>3 DEF Inv, SessionExpires, account, links, Txs
<1>4. ASSUME NEW k \in Tokens, TokenExpires(k)
      PROVE  Inv'
  <2>1. /\ token[k].state = "valid" /\ token' = [token EXCEPT ![k] = [token[k] EXCEPT !.state = "expired"]]
        /\ UNCHANGED <<failed, wrong, password, sess, profile, uses, tx, linear>>
    BY <1>4 DEF Inv, TokenExpires, account
  <2>2. /\ \A u \in Tokens \ {k} : token'[u] = token[u]
        /\ token'[k].state = "expired" /\ token'[k].purpose = token[k].purpose
    BY <2>1 DEF Inv
  <2>3. TypeOK'
    BY <2>1 DEF Inv
  <2>4. RowLocks' /\ OneAppends' /\ AuditChainIsLinear' /\ WrongAttemptsAreCounted'
    BY <2>1 DEF Inv
  <2>5. RowsHold'
    BY <2>1, <2>2 DEF Inv
  <2>6. Unused' /\ UsableIsOne'
    BY <2>1, <2>2 DEF Inv
  <2> QED
    BY <2>3, <2>4, <2>5, <2>6 DEF Inv
<1> QED
  BY <1>1, <1>2, <1>3, <1>4

\* The invariant holds initially and every step keeps it.
LEMMA Invariance == Spec => []Inv
<1>1. Init => Inv
  BY
     DEF Init, Inv, TypeOK, RowLocks, RowsHold, OneAppends, Unused, UsableIsOne, Usable,
         Busy, NoToken,
     AuditChainIsLinear, WrongAttemptsAreCounted
<1>2. Inv /\ [Next]_vars => Inv'
  <2> SUFFICES ASSUME Inv, [Next]_vars
               PROVE  Inv'
    OBVIOUS
  <2>1. CASE UNCHANGED vars
    BY <2>1 DEF vars, account, links, Inv, TypeOK, RowLocks, RowsHold, Holds, OneAppends, Unused,
       UsableIsOne, Usable, Busy, AuditChainIsLinear, WrongAttemptsAreCounted
  <2>2. ASSUME NEW q \in Requests, Step(q)
        PROVE  Inv'
    BY <2>2, LockStep, QuietEnd, RefusedStep, LoginStep, RevokeStep, UseStep, IssueStep DEF Step
  <2> QED
    BY <2>1, <2>2, BeginStep, AskStep, SynchronizeStep, OutsideStep DEF Next
<1> QED
  BY <1>1, <1>2, PTL DEF Spec

-----------------------------------------------------------------------------
(***************************************************************************)
(* The properties                                                          *)
(***************************************************************************)

\* Once a session is revoked no request of it is at work.
THEOREM RevokedIsIdle == Spec => []RevokedHasNoRequest
<1>1. Inv => RevokedHasNoRequest
  BY DEF Inv, RowsHold, Holds, Busy, RevokedHasNoRequest
<1> QED
  BY <1>1, Invariance, PTL

\* Concurrent logins with wrong passwords are all counted.
THEOREM WrongCounted == Spec => []WrongAttemptsAreCounted
<1>1. Inv => WrongAttemptsAreCounted
  BY DEF Inv
<1> QED
  BY <1>1, Invariance, PTL

\* At most one link of a purpose can be used.
THEOREM OneLink == Spec => []OneUsableLink
<1>1. Inv => OneUsableLink
  <2> SUFFICES ASSUME Inv, NEW purpose \in {"password_reset", "email_verify"}
               PROVE  Cardinality(Usable(purpose)) <= 1
    BY DEF OneUsableLink
  <2>1. CASE Usable(purpose) = {}
    BY <2>1, FS_EmptySet
  <2>2. ASSUME NEW t \in Usable(purpose)
        PROVE  Cardinality(Usable(purpose)) = 1
    <3>1. Usable(purpose) = {t}
      BY <2>2 DEF Inv, UsableIsOne
    <3> QED
      BY <3>1, FS_Singleton
  <2> QED
    BY <2>1, <2>2
<1> QED
  BY <1>1, Invariance, PTL

\* A link or a ticket is accepted once.
THEOREM UsedOnce == Spec => []LinkIsUsedOnce
<1>1. Inv => LinkIsUsedOnce
  BY DEF Inv, Unused, LinkIsUsedOnce
<1> QED
  BY <1>1, Invariance, PTL

\* No two committed audit events have the same predecessor.
THEOREM LinearChain == Spec => []AuditChainIsLinear
<1>1. Inv => AuditChainIsLinear
  BY DEF Inv
<1> QED
  BY <1>1, Invariance, PTL
=============================================================================
