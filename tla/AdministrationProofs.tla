------------------------ MODULE AdministrationProofs ------------------------
(***************************************************************************)
(* Proofs about what the administrator manages, Configuration, BackupAgent *)
(* and Exports, for any number of requests, models, documents, records,    *)
(* checks, exports and workers and for every bound.                        *)
(***************************************************************************)
EXTENDS Configuration, BackupAgent, Exports, FiniteSetTheorems, TLAPS

(***************************************************************************)
(* Configuration                                                           *)
(***************************************************************************)

Rows == [config : Nat, key : Nat \cup {None}, version : Nat, verified : BOOLEAN, enabled : BOOLEAN]

Kinds == {"save", "verify", "recommend", "revoke", "update", "restore"}

\* What models.embedding_model can be set to.
Choices == Models \cup {Empty}

Transactions ==
  [kind : Kinds, step : {"calling", "applying", "staling", "done"},
   locks : SUBSET {"provider", "setting"}, key : Nat \cup {None}, offers : SUBSET Models,
   base : Rows \cup {None}, value : Choices \cup {None}, staled : SUBSET Docs]

\* The values of the rows, the transactions and the index job.
TypeOK ==
  /\ provider \in Rows
  /\ live \in SUBSET Nat
  /\ keys \in Nat
  /\ catalog \in SUBSET Models
  /\ setting \in [value : Choices, version : Nat]
  /\ revisions \in Seq(Choices)
  /\ docs \in [Docs -> [state : {"absent", "fresh", "stale"}, model : Models \cup {None}]]
  /\ tx \in [Requests -> Transactions \cup {None}]

\* An index job knows the model it has read for each of its documents.
JobType ==
  index # None =>
    /\ index = [kind |-> index.kind, docs |-> index.docs, new |-> index.new, read |-> index.read]
    /\ index.docs \in SUBSET Docs
    /\ index.new \in SUBSET index.docs
    /\ index.read \in [index.docs -> Choices \cup {None}]

Open(r) == tx[r] # None

\* Two transactions never hold the same row.
RowLocks == \A r, q \in Requests : Open(r) /\ Open(q) /\ r # q => tx[r].locks \cap tx[q].locks = {}

\* What a transaction is about to do at each of its steps.
StepOf(t) ==
  CASE t.kind \in {"save", "verify"} -> t.step \in {"calling", "applying", "done"}
    [] t.kind = "recommend" -> t.step \in {"applying", "done"}
    [] t.kind = "revoke" -> t.step = "done"
    [] OTHER -> t.step \in {"staling", "done"}

Steps == \A r \in Requests : Open(r) => StepOf(tx[r])

\* A transaction that will write the provider's row holds it, and what it
\* has read is still there.
ProviderHeld ==
  \A r \in Requests : Open(r) /\ tx[r].kind \in {"save", "verify", "revoke"} =>
    "provider" \in tx[r].locks /\ tx[r].base = provider

\* The key a provider is called with is the stored one or a new one.
KeyHeld ==
  \A r \in Requests : Open(r) /\ tx[r].kind \in {"save", "verify"} =>
    /\ tx[r].key \in Nat
    /\ tx[r].key = provider.key \/ (tx[r].kind = "save" /\ tx[r].key = keys + 1)
    /\ tx[r].step # "calling" => <<Config(tx[r]), tx[r].key>> \in passed

\* Keys are counted up.
KeysCounted == provider.key # None => provider.key <= keys

Base == TypeOK /\ JobType /\ RowLocks /\ Steps

ProviderInv == ProviderHeld /\ KeyHeld /\ KeysCounted /\ OneLiveKey /\ VerifiedIsUsable

\* A transaction that will write the setting holds its row.
SettingHeld ==
  \A r \in Requests : Open(r) =>
    /\ tx[r].value # None => "setting" \in tx[r].locks
    /\ tx[r].kind \in {"update", "restore"} => tx[r].value # None
    /\ tx[r].kind \notin {"update", "restore"} => tx[r].staled = {}

\* Once the documents are marked for a change of the model, one that exists
\* is marked or counted as missed.
AllMarked ==
  \A r \in Requests :
    Open(r) /\ tx[r].kind \in {"update", "restore"} /\ tx[r].step = "done"
            /\ tx[r].value # setting.value =>
      Present \subseteq tx[r].staled \cup missed

\* A document is locked by a change of the model or by the index job, never
\* by both, and what the job has locked exists.
DocsHeld ==
  /\ \A r \in Requests : Open(r) => tx[r].staled \cap DocLocks = {}
  /\ DocLocks \subseteq Present

\* The model an index job has read is the chosen one, unless the document is
\* counted as missed.
ReadsHold ==
  index # None =>
    \A d \in index.docs \ missed : index.read[d] \in {None, setting.value}

IndexInv == SettingHeld /\ AllMarked /\ DocsHeld /\ ReadsHold /\ FreshIsOfChosenModel
-----------------------------------------------------------------------------

\* A transaction is opened or goes on: the others do not hold what it locks.
LEMMA TxMoves ==
  ASSUME Base, NEW r \in Requests, NEW t \in Transactions,
         tx' = [tx EXCEPT ![r] = t], UNCHANGED <<configuration, docs, index>>,
         \A q \in Requests \ {r} : Open(q) => t.locks \cap tx[q].locks = {},
         StepOf(t)
  PROVE  Base'
BY DEF Base, TypeOK, JobType, RowLocks, Steps, Open, configuration

\* A transaction begins with the lock of a free row.
LEMMA TxBegins ==
  ASSUME Base, NEW r \in Requests, NEW t \in Transactions, NEW lock,
         tx' = [tx EXCEPT ![r] = t], UNCHANGED <<configuration, docs, index>>,
         Free(lock), t.locks = {lock}, StepOf(t)
  PROVE  Base'
<1>1. \A q \in Requests \ {r} : Open(q) => t.locks \cap tx[q].locks = {}
  BY DEF Free, Open
<1> QED
  BY <1>1, TxMoves

\* A transaction goes on with the locks it has.
LEMMA TxGoesOn ==
  ASSUME Base, NEW r \in Requests, NEW t \in Transactions,
         tx' = [tx EXCEPT ![r] = t], UNCHANGED <<configuration, docs, index>>,
         Open(r), t.locks = tx[r].locks, StepOf(t)
  PROVE  Base'
<1>1. \A q \in Requests \ {r} : Open(q) => t.locks \cap tx[q].locks = {}
  BY DEF Base, RowLocks
<1> QED
  BY <1>1, TxMoves

\* What the constructor of transactions returns.
LEMMA NewTx ==
  ASSUME Base, NEW kind \in Kinds, NEW first \in {"calling", "applying", "staling", "done"},
         NEW locks \in SUBSET {"provider", "setting"}
  PROVE  /\ Tx(kind, first, locks) \in Transactions
         /\ Tx(kind, first, locks).kind = kind
         /\ Tx(kind, first, locks).step = first
         /\ Tx(kind, first, locks).locks = locks
         /\ Tx(kind, first, locks).key = None
         /\ Tx(kind, first, locks).offers = {}
         /\ Tx(kind, first, locks).value = None
         /\ Tx(kind, first, locks).staled = {}
         /\ kind \in {"save", "verify", "revoke"} => Tx(kind, first, locks).base = provider
BY DEF Base, TypeOK, Transactions, Tx

\* Every step keeps the types, the row locks and the order of the steps.
LEMMA BaseStep ==
  ASSUME Base, ProviderInv, [Next]_vars
  PROVE  Base'
<1> USE ConstantsAssumption
<1>1. ASSUME NEW r \in Requests, NEW replace \in BOOLEAN, SaveBegin(r, replace)
      PROVE  Base'
  <2> DEFINE k == IF replace THEN keys + 1 ELSE provider.key
             t == [Tx("save", "calling", {"provider"}) EXCEPT !.key = k]
  <2>1. k \in Nat \cup {None}
    BY DEF Base, TypeOK, Rows
  <2> HIDE DEF k
  <2>2. t \in Transactions /\ t.locks = {"provider"} /\ t.kind = "save" /\ t.step = "calling"
    BY <2>1, NewTx DEF Transactions, Kinds
  <2> HIDE DEF t
  <2>3. Free("provider") /\ tx' = [tx EXCEPT ![r] = t] /\ UNCHANGED <<configuration, docs, index>>
    BY <1>1 DEF SaveBegin, SaveLocks, Begin, t, k
  <2>4. StepOf(t)
    BY <2>2 DEF StepOf
  <2> QED
    BY <2>2, <2>3, <2>4, TxBegins
<1>2. ASSUME NEW r \in Requests, VerifyBegin(r)
      PROVE  Base'
  <2> DEFINE t == [Tx("verify", "calling", {"provider"}) EXCEPT !.key = provider.key]
  <2>1. t \in Transactions /\ t.locks = {"provider"} /\ t.kind = "verify" /\ t.step = "calling"
    BY NewTx DEF Base, TypeOK, Rows, Transactions, Kinds
  <2> HIDE DEF t
  <2>2. Free("provider") /\ tx' = [tx EXCEPT ![r] = t] /\ UNCHANGED <<configuration, docs, index>>
    BY <1>2 DEF VerifyBegin, VerifyLocks, Begin, t
  <2>4. StepOf(t)
    BY <2>1 DEF StepOf
  <2> QED
    BY <2>1, <2>2, <2>4, TxBegins
<1>3. ASSUME NEW r \in Requests, NEW S \in SUBSET Models, CatalogAnswers(r, S)
      PROVE  Base'
  <2> DEFINE t == [tx[r] EXCEPT !.step = "applying", !.offers = S]
  <2>1. Open(r) /\ tx[r] \in Transactions /\ tx' = [tx EXCEPT ![r] = t]
    BY <1>3 DEF Base, TypeOK, Open, CatalogAnswers
  <2>2. t \in Transactions /\ t.locks = tx[r].locks /\ t.kind = tx[r].kind /\ t.step = "applying"
    BY <2>1 DEF Transactions, Present
  <2> HIDE DEF t
  <2>3. StepOf(t)
    BY <1>3, <2>1, <2>2 DEF Base, Steps, StepOf, CatalogAnswers, Transactions, Kinds
  <2> QED
    BY <1>3, <2>1, <2>2, <2>3, TxGoesOn DEF CatalogAnswers
<1>4. ASSUME NEW r \in Requests, CatalogFails(r)
      PROVE  Base'
  BY <1>4 DEF Base, CatalogFails, configuration, TypeOK, JobType, RowLocks, Steps, Open
<1>5. ASSUME NEW r \in Requests, RecommendBegin(r)
      PROVE  Base'
  <2> DEFINE u == Tx("recommend", "applying", {})
             t == [u EXCEPT !.offers = catalog]
  <2>3. u \in Transactions /\ u.locks = {} /\ u.kind = "recommend" /\ u.step = "applying"
    BY NewTx DEF Kinds
  <2> HIDE DEF u
  <2>1. t \in Transactions /\ t.locks = {} /\ t.kind = "recommend" /\ t.step = "applying"
    BY <2>3 DEF Base, TypeOK, Transactions
  <2> HIDE DEF t
  <2>2. tx' = [tx EXCEPT ![r] = t] /\ UNCHANGED <<configuration, docs, index>>
    BY <1>5 DEF RecommendBegin, Begin, t, u
  <2>4. StepOf(t)
    BY <2>1 DEF StepOf
  <2> QED
    BY <2>1, <2>2, <2>4, TxMoves
<1>6. ASSUME NEW r \in Requests, ApplyRecommended(r)
      PROVE  Base'
  <2>1. Open(r) /\ tx[r] \in Transactions /\ tx[r].step = "applying"
    BY <1>6 DEF Base, TypeOK, Open, ApplyRecommended
  <2>2. CASE tx' = [tx EXCEPT ![r].step = "done"]
    <3> DEFINE t == [tx[r] EXCEPT !.step = "done"]
    <3>1. t \in Transactions /\ t.locks = tx[r].locks /\ t.kind = tx[r].kind /\ t.step = "done"
      BY <2>1 DEF Transactions
    <3>2. tx' = [tx EXCEPT ![r] = t]
      BY <2>2 DEF Base, TypeOK
    <3> HIDE DEF t
    <3>3. StepOf(t)
      BY <2>1, <3>1 DEF Base, Steps, StepOf, Transactions, Kinds
    <3> QED
      BY <1>6, <2>1, <3>1, <3>2, <3>3, TxGoesOn DEF ApplyRecommended
  <2>3. ASSUME Free("setting"), NEW m \in tx[r].offers,
               tx' = [tx EXCEPT ![r].step = "done", ![r].value = m, ![r].locks = @ \cup {"setting"}]
        PROVE  Base'
    <3> DEFINE t == [tx[r] EXCEPT !.step = "done", !.value = m, !.locks = @ \cup {"setting"}]
    <3>1. /\ t \in Transactions
          /\ t.locks = tx[r].locks \cup {"setting"} /\ t.kind = tx[r].kind /\ t.step = "done"
      BY <2>1 DEF Transactions, Choices
    <3>2. tx' = [tx EXCEPT ![r] = t]
      BY <2>3 DEF Base, TypeOK
    <3> HIDE DEF t
    <3>3. StepOf(t)
      BY <2>1, <3>1 DEF Base, Steps, StepOf, Transactions, Kinds
    <3>4. \A q \in Requests \ {r} : Open(q) => t.locks \cap tx[q].locks = {}
      BY <2>1, <2>3, <3>1 DEF Base, RowLocks, Free, Open
    <3> QED
      BY <1>6, <3>1, <3>2, <3>3, <3>4, TxMoves DEF ApplyRecommended
  <2> QED
    BY <1>6, <2>2, <2>3 DEF ApplyRecommended
<1>7. ASSUME NEW r \in Requests, RevokeBegin(r)
      PROVE  Base'
  <2> DEFINE t == Tx("revoke", "done", {"provider"})
  <2>1. t \in Transactions /\ t.locks = {"provider"} /\ t.kind = "revoke" /\ t.step = "done"
    BY NewTx DEF Kinds
  <2> HIDE DEF t
  <2>2. Free("provider") /\ tx' = [tx EXCEPT ![r] = t] /\ UNCHANGED <<configuration, docs, index>>
    BY <1>7 DEF RevokeBegin, Begin, t
  <2>4. StepOf(t)
    BY <2>1 DEF StepOf
  <2> QED
    BY <2>1, <2>2, <2>4, TxBegins
<1>8. ASSUME NEW r \in Requests, NEW m \in Choices, UpdateBegin(r, m)
      PROVE  Base'
  <2> DEFINE s == IF m = setting.value THEN "done" ELSE "staling"
             t == [Tx("update", s, {"setting"}) EXCEPT !.value = m]
  <2>1. t \in Transactions /\ t.locks = {"setting"} /\ t.kind = "update" /\ t.step \in {"staling", "done"}
    BY NewTx DEF Transactions, Kinds
  <2> HIDE DEF t
  <2>2. Free("setting") /\ tx' = [tx EXCEPT ![r] = t] /\ UNCHANGED <<configuration, docs, index>>
    BY <1>8 DEF UpdateBegin, Begin, t
  <2>4. StepOf(t)
    BY <2>1 DEF StepOf
  <2> QED
    BY <2>1, <2>2, <2>4, TxBegins
<1>9. ASSUME NEW r \in Requests, NEW n \in 1..MaxChanges, RestoreBegin(r, n)
      PROVE  Base'
  <2> DEFINE t == [Tx("restore", "staling", {"setting"}) EXCEPT !.value = revisions[n]]
  <2>1. revisions[n] \in Choices
    BY <1>9 DEF RestoreBegin, Base, TypeOK
  <2>2. t \in Transactions /\ t.locks = {"setting"} /\ t.kind = "restore" /\ t.step = "staling"
    BY <2>1, NewTx DEF Transactions, Kinds
  <2> HIDE DEF t
  <2>3. Free("setting") /\ tx' = [tx EXCEPT ![r] = t] /\ UNCHANGED <<configuration, docs, index>>
    BY <1>9 DEF RestoreBegin, Begin, t
  <2>4. StepOf(t)
    BY <2>2 DEF StepOf
  <2> QED
    BY <2>2, <2>3, <2>4, TxBegins
<1>10. ASSUME NEW r \in Requests, MarkStale(r)
      PROVE  Base'
  <2> DEFINE t == [tx[r] EXCEPT !.step = "done", !.staled = Present]
  <2>1. Open(r) /\ tx[r] \in Transactions /\ tx' = [tx EXCEPT ![r] = t]
    BY <1>10 DEF Base, TypeOK, Open, MarkStale
  <2>2. t \in Transactions /\ t.locks = tx[r].locks /\ t.kind = tx[r].kind /\ t.step = "done"
    BY <2>1 DEF Transactions, Present
  <2> HIDE DEF t
  <2>3. StepOf(t)
    BY <1>10, <2>1, <2>2 DEF Base, Steps, StepOf, MarkStale, Transactions, Kinds
  <2> QED
    BY <1>10, <2>1, <2>2, <2>3, TxGoesOn DEF MarkStale
<1>11. ASSUME NEW r \in Requests, Commit(r)
      PROVE  Base'
  <2>1. tx[r] \in Transactions /\ Open(r)
    BY <1>11 DEF Base, TypeOK, Open, Commit
  <2>2. tx[r].kind \in {"save", "verify", "revoke"} => tx[r].base = provider
    BY <2>1 DEF ProviderInv, ProviderHeld
  <2>3. tx[r].kind = "save" => tx[r].key \in Nat
    BY <2>1 DEF ProviderInv, KeyHeld
  <2>4. provider' \in Rows
    <3>1. provider \in Rows /\ provider' = ProviderAfter(tx[r]) /\ tx[r].kind \in Kinds
      BY <1>11, <2>1 DEF Base, TypeOK, Commit, Transactions
    <3>2. CASE tx[r].kind = "save"
      BY <2>2, <2>3, <3>1, <3>2 DEF ProviderAfter, Config, Rows
    <3>3. CASE tx[r].kind = "verify"
      BY <3>1, <3>3 DEF ProviderAfter, Rows
    <3>4. CASE tx[r].kind = "revoke"
      <4>1. provider' = [provider EXCEPT !.key = None, !.version = provider.version + 1,
                                         !.verified = FALSE, !.enabled = FALSE]
        BY <2>2, <3>1, <3>4 DEF ProviderAfter
      <4>2. provider' = [config |-> provider.config, key |-> None, version |-> provider.version + 1,
                         verified |-> FALSE, enabled |-> FALSE]
        BY <3>1, <4>1 DEF Rows
      <4> QED
        BY <3>1, <4>2 DEF Rows
    <3>5. CASE tx[r].kind \in {"recommend", "update", "restore"}
      BY <3>1, <3>5 DEF ProviderAfter
    <3> QED
      BY <3>1, <3>2, <3>3, <3>4, <3>5 DEF Kinds
  <2>5. live' \in SUBSET Nat /\ keys' \in Nat
    BY <1>11, <2>1, <2>3 DEF Base, TypeOK, Commit, LiveAfter, Transactions
  <2>6. setting' \in [value : Choices, version : Nat] /\ revisions' \in Seq(Choices)
    <3>1. CASE tx[r].value = None
      BY <1>11, <3>1 DEF Base, TypeOK, Commit
    <3>2. CASE tx[r].value \in Choices
      <4>1. /\ setting' = [value |-> tx[r].value, version |-> setting.version + 1]
            /\ revisions' = Append(revisions, tx[r].value)
        BY <1>11, <3>2, ConstantsAssumption DEF Commit, Choices
      <4> QED
        BY <3>2, <4>1 DEF Base, TypeOK
    <3> QED
      BY <2>1, <3>1, <3>2 DEF Transactions
  <2>7. docs' \in [Docs -> [state : {"absent", "fresh", "stale"}, model : Models \cup {None}]]
    BY <1>11 DEF Base, TypeOK, Commit
  <2>8. catalog' \in SUBSET Models
    BY <1>11, <2>1 DEF Base, TypeOK, Commit, Transactions
  <2>9. tx' = [tx EXCEPT ![r] = None] /\ index' = index
    BY <1>11 DEF Commit
  <2> QED
    BY <2>4, <2>5, <2>6, <2>7, <2>8, <2>9 DEF Base, TypeOK, JobType, RowLocks, Steps, Open
<1>12. ASSUME NEW d \in Docs, IndexBegin(d)
      PROVE  Base'
  BY <1>12 DEF Base, IndexBegin, Job, configuration, TypeOK, JobType, RowLocks, Steps, Open
<1>13. ASSUME ReindexBegin
      PROVE  Base'
  BY <1>13 DEF Base, ReindexBegin, Job, configuration, TypeOK, JobType, RowLocks, Steps, Open
<1>14. ASSUME NEW d \in Docs, IndexRead(d)
      PROVE  Base'
  BY <1>14 DEF Base, IndexRead, configuration, TypeOK, JobType, RowLocks, Steps, Open
<1>15. ASSUME IndexCommit
      PROVE  Base'
  BY <1>15 DEF Base, IndexCommit, Indexed, Choices, configuration, TypeOK, JobType, RowLocks, Steps, Open
<1>16. ASSUME IndexFails
      PROVE  Base'
  BY <1>16 DEF Base, IndexFails, configuration, TypeOK, JobType, RowLocks, Steps, Open
<1>17. CASE UNCHANGED vars
  BY <1>17 DEF Base, TypeOK, JobType, RowLocks, Steps, Open, vars, configuration
<1> QED
  BY <1>1, <1>2, <1>3, <1>4, <1>5, <1>6, <1>7, <1>8, <1>9, <1>10, <1>11, <1>12, <1>13, <1>14,
     <1>15, <1>16, <1>17
     DEF Next, Choices

\* What apply_recommended changes in its transaction.
LEMMA ApplyRecommendedTx ==
  ASSUME Base, NEW r \in Requests, ApplyRecommended(r)
  PROVE  /\ Open(r) /\ tx[r].step = "applying"
         /\ \A q \in Requests \ {r} : tx'[q] = tx[q]
         /\ tx'[r].kind = tx[r].kind /\ tx'[r].base = tx[r].base /\ tx'[r].key = tx[r].key
         /\ tx'[r].staled = tx[r].staled /\ tx'[r].step = "done"
         /\ \/ tx'[r].value = tx[r].value /\ tx'[r].locks = tx[r].locks
            \/ tx'[r].value # None /\ tx'[r].locks = tx[r].locks \cup {"setting"}
         /\ UNCHANGED <<configuration, docs, index, passed, missed>>
<1>1. tx[r] \in Transactions /\ tx \in [Requests -> Transactions \cup {None}]
  BY DEF ApplyRecommended, Base, TypeOK
<1>2. Open(r) /\ tx[r].step = "applying" /\ UNCHANGED <<configuration, docs, index, passed, missed>>
  BY DEF ApplyRecommended, Open
<1>3. CASE tx' = [tx EXCEPT ![r].step = "done"]
  <2>1. tx' = [tx EXCEPT ![r] = [tx[r] EXCEPT !.step = "done"]]
    BY <1>1, <1>3
  <2> QED
    BY <1>1, <1>2, <2>1 DEF Transactions
<1>4. CASE \E m \in tx[r].offers :
             tx' = [tx EXCEPT ![r].step = "done", ![r].value = m, ![r].locks = @ \cup {"setting"}]
  <2>1. PICK m \in tx[r].offers :
               tx' = [tx EXCEPT ![r].step = "done", ![r].value = m, ![r].locks = @ \cup {"setting"}]
    BY <1>4
  <2> DEFINE t == [tx[r] EXCEPT !.step = "done", !.value = m, !.locks = @ \cup {"setting"}]
  <2>2. tx' = [tx EXCEPT ![r] = t]
    BY <1>1, <2>1
  <2>3. /\ t.kind = tx[r].kind /\ t.base = tx[r].base /\ t.key = tx[r].key
        /\ t.staled = tx[r].staled /\ t.step = "done" /\ t.value = m
        /\ t.locks = tx[r].locks \cup {"setting"}
    BY <1>1 DEF Transactions
  <2>4. m # None
    BY <1>1, ConstantsAssumption DEF Transactions
  <2> HIDE DEF t
  <2> QED
    BY <1>1, <1>2, <2>2, <2>3, <2>4
<1> QED
  BY <1>3, <1>4 DEF ApplyRecommended

\* Every step keeps what is known of the provider's row.
LEMMA ProviderStep ==
  ASSUME Base, ProviderInv, [Next]_vars
  PROVE  ProviderInv'
<1> USE ConstantsAssumption
    DEF Base, TypeOK, RowLocks, Steps, StepOf, Rows, Kinds, Transactions, Open, ProviderHeld,
        KeyHeld, KeysCounted, OneLiveKey, VerifiedIsUsable, Config
<1>1. ASSUME NEW r \in Requests, NEW replace \in BOOLEAN, SaveBegin(r, replace)
      PROVE  ProviderInv'
  BY <1>1 DEF ProviderInv, SaveBegin, SaveLocks, Tx, Free, Begin, configuration
<1>2. ASSUME NEW r \in Requests, VerifyBegin(r)
      PROVE  ProviderInv'
  BY <1>2 DEF ProviderInv, VerifyBegin, VerifyLocks, Tx, Free, Begin, configuration
<1>3. ASSUME NEW r \in Requests, NEW S \in SUBSET Models, CatalogAnswers(r, S)
      PROVE  ProviderInv'
  BY <1>3 DEF ProviderInv, CatalogAnswers, configuration
<1>4. ASSUME NEW r \in Requests, CatalogFails(r)
      PROVE  ProviderInv'
  BY <1>4 DEF ProviderInv, CatalogFails, configuration
<1>5. ASSUME NEW r \in Requests, RecommendBegin(r)
      PROVE  ProviderInv'
  BY <1>5 DEF ProviderInv, RecommendBegin, Tx, Begin, configuration
<1>6. ASSUME NEW r \in Requests, ApplyRecommended(r)
      PROVE  ProviderInv'
  <2>1. tx[r] \in Transactions /\ tx[r].step = "applying" /\ Open(r)
    BY <1>6, ApplyRecommendedTx
  <2>2. \A q \in Requests : Open(q)' => /\ Open(q)
                                      /\ tx'[q].kind = tx[q].kind /\ tx'[q].base = tx[q].base
                                      /\ tx'[q].key = tx[q].key
                                      /\ tx[q].locks \subseteq tx'[q].locks
    BY <1>6, ApplyRecommendedTx
  <2>3. \A q \in Requests : Open(q)' => Config(tx'[q]) = Config(tx[q])
                                      /\ (tx[q].step = "calling" => tx'[q].step = "calling")
    BY <1>6, <2>1, <2>2, ApplyRecommendedTx
  <2>4. UNCHANGED <<provider, live, keys, passed>>
    BY <1>6 DEF ApplyRecommended, configuration
  <2> HIDE DEF Transactions, Steps, RowLocks, Config
  <2> QED
    BY <2>2, <2>3, <2>4 DEF ProviderInv
<1>7. ASSUME NEW r \in Requests, RevokeBegin(r)
      PROVE  ProviderInv'
  BY <1>7 DEF ProviderInv, RevokeBegin, Tx, Free, Begin, configuration
<1>8. ASSUME NEW r \in Requests, NEW m \in Choices, UpdateBegin(r, m)
      PROVE  ProviderInv'
  BY <1>8 DEF ProviderInv, UpdateBegin, Tx, Free, Begin, configuration
<1>9. ASSUME NEW r \in Requests, NEW n \in 1..MaxChanges, RestoreBegin(r, n)
      PROVE  ProviderInv'
  BY <1>9 DEF ProviderInv, RestoreBegin, Tx, Free, Begin, configuration
<1>10. ASSUME NEW r \in Requests, MarkStale(r)
      PROVE  ProviderInv'
  BY <1>10 DEF ProviderInv, MarkStale, configuration
<1>11. ASSUME NEW r \in Requests, Commit(r)
      PROVE  ProviderInv'
  <2> DEFINE t == tx[r]
  <2>1. Open(r) /\ t \in Transactions /\ t.step = "done" /\ tx' = [tx EXCEPT ![r] = None]
        /\ provider' = ProviderAfter(t) /\ live' = LiveAfter(t) /\ passed' = passed
        /\ keys' = IF t.kind = "save" /\ t.key > keys THEN t.key ELSE keys
    BY <1>11 DEF Commit
  <2>2. CASE t.kind \in {"save", "verify", "revoke"}
    <3>1. \A q \in Requests : Open(q)' => tx'[q].kind \notin {"save", "verify", "revoke"}
      BY <2>1, <2>2 DEF ProviderInv
    <3>2. t.base = provider /\ provider \in Rows
      BY <2>1, <2>2 DEF ProviderInv
    <3>3. CASE t.kind = "save"
      BY <2>1, <3>1, <3>2, <3>3 DEF ProviderInv, ProviderAfter, LiveAfter
    <3>4. CASE t.kind = "verify"
      <4>1. provider' = [provider EXCEPT !.verified = TRUE, !.enabled = TRUE]
            /\ live' = live /\ keys' = keys
        BY <2>1, <3>4 DEF ProviderAfter, LiveAfter
      <4>2. <<provider.config, provider.key>> \in passed /\ provider.key \in Nat
        BY <2>1, <3>2, <3>4 DEF ProviderInv
      <4> QED
        BY <2>1, <3>1, <3>2, <4>1, <4>2 DEF ProviderInv
    <3>5. CASE t.kind = "revoke"
      <4>1. /\ provider' = [provider EXCEPT !.key = None, !.version = provider.version + 1,
                                            !.verified = FALSE, !.enabled = FALSE]
            /\ live' = live \ {provider.key} /\ keys' = keys
        BY <2>1, <3>2, <3>5 DEF ProviderAfter, LiveAfter
      <4> QED
        BY <2>1, <3>1, <3>2, <4>1 DEF ProviderInv
    <3> QED
      BY <2>2, <3>3, <3>4, <3>5
  <2>3. CASE t.kind \notin {"save", "verify", "revoke"}
    <3>1. provider' = provider /\ live' = live /\ keys' = keys
      BY <2>1, <2>3 DEF ProviderAfter, LiveAfter
    <3> QED
      BY <2>1, <3>1 DEF ProviderInv
  <2> QED
    BY <2>2, <2>3
<1>12. ASSUME NEW d \in Docs, IndexBegin(d)
      PROVE  ProviderInv'
  BY <1>12 DEF ProviderInv, IndexBegin, Job, configuration
<1>13. ASSUME ReindexBegin
      PROVE  ProviderInv'
  BY <1>13 DEF ProviderInv, ReindexBegin, Job, configuration
<1>14. ASSUME NEW d \in Docs, IndexRead(d)
      PROVE  ProviderInv'
  BY <1>14 DEF ProviderInv, IndexRead, configuration
<1>15. ASSUME IndexCommit
      PROVE  ProviderInv'
  BY <1>15 DEF ProviderInv, IndexCommit, configuration
<1>16. ASSUME IndexFails
      PROVE  ProviderInv'
  BY <1>16 DEF ProviderInv, IndexFails, configuration
<1>17. CASE UNCHANGED vars
  BY <1>17 DEF ProviderInv, vars, configuration
<1> QED
  BY <1>1, <1>2, <1>3, <1>4, <1>5, <1>6, <1>7, <1>8, <1>9, <1>10, <1>11, <1>12, <1>13, <1>14,
     <1>15, <1>16, <1>17
     DEF Next, Choices

\* Every step keeps what is known of the documents.
LEMMA IndexStep ==
  ASSUME Base, IndexInv, [Next]_vars
  PROVE  IndexInv'
<1> USE ConstantsAssumption
    DEF Base, TypeOK, RowLocks, Steps, StepOf, Rows, Kinds, Transactions, Open, SettingHeld,
        JobType, AllMarked, DocsHeld, ReadsHold, FreshIsOfChosenModel, Present, DocLocks
<1>1. ASSUME NEW r \in Requests, NEW replace \in BOOLEAN, SaveBegin(r, replace)
      PROVE  IndexInv'
  BY <1>1 DEF IndexInv, SaveBegin, SaveLocks, Tx, Free, Begin, configuration
<1>2. ASSUME NEW r \in Requests, VerifyBegin(r)
      PROVE  IndexInv'
  BY <1>2 DEF IndexInv, VerifyBegin, VerifyLocks, Tx, Free, Begin, configuration
<1>3. ASSUME NEW r \in Requests, NEW S \in SUBSET Models, CatalogAnswers(r, S)
      PROVE  IndexInv'
  BY <1>3 DEF IndexInv, CatalogAnswers, configuration
<1>4. ASSUME NEW r \in Requests, CatalogFails(r)
      PROVE  IndexInv'
  BY <1>4 DEF IndexInv, CatalogFails, configuration
<1>5. ASSUME NEW r \in Requests, RecommendBegin(r)
      PROVE  IndexInv'
  BY <1>5 DEF IndexInv, RecommendBegin, Tx, Begin, configuration
<1>6. ASSUME NEW r \in Requests, ApplyRecommended(r)
      PROVE  IndexInv'
  <2>1. /\ Open(r) /\ tx[r].step = "applying"
        /\ \A q \in Requests \ {r} : tx'[q] = tx[q]
        /\ tx'[r].kind = tx[r].kind /\ tx'[r].staled = tx[r].staled
        /\ \/ tx'[r].value = tx[r].value /\ tx'[r].locks = tx[r].locks
           \/ tx'[r].value # None /\ "setting" \in tx'[r].locks
    BY <1>6, ApplyRecommendedTx
  <2>2. tx[r].kind \notin {"update", "restore"}
    BY <2>1
  <2>3. UNCHANGED <<setting, docs, index, missed>>
    BY <1>6 DEF ApplyRecommended, configuration
  <2> HIDE DEF Transactions, Steps, RowLocks
  <2> QED
    BY <2>1, <2>2, <2>3 DEF IndexInv
<1>7. ASSUME NEW r \in Requests, RevokeBegin(r)
      PROVE  IndexInv'
  BY <1>7 DEF IndexInv, RevokeBegin, Tx, Free, Begin, configuration
<1>8. ASSUME NEW r \in Requests, NEW m \in Choices, UpdateBegin(r, m)
      PROVE  IndexInv'
  BY <1>8 DEF IndexInv, UpdateBegin, Choices, Tx, Free, Begin, configuration
<1>9. ASSUME NEW r \in Requests, NEW n \in 1..MaxChanges, RestoreBegin(r, n)
      PROVE  IndexInv'
  BY <1>9 DEF IndexInv, RestoreBegin, Choices, Tx, Free, Begin, configuration
<1>10. ASSUME NEW r \in Requests, MarkStale(r)
      PROVE  IndexInv'
  BY <1>10 DEF IndexInv, MarkStale, configuration
<1>11. ASSUME NEW r \in Requests, Commit(r)
      PROVE  IndexInv'
  BY <1>11 DEF IndexInv, Commit, ProviderAfter, LiveAfter, Config, Missed
<1>12. ASSUME NEW d \in Docs, IndexBegin(d)
      PROVE  IndexInv'
  BY <1>12 DEF IndexInv, IndexBegin, Job, configuration, Staling
<1>13. ASSUME ReindexBegin
      PROVE  IndexInv'
  BY <1>13 DEF IndexInv, ReindexBegin, Job, configuration, Staling
<1>14. ASSUME NEW d \in Docs, IndexRead(d)
      PROVE  IndexInv'
  BY <1>14 DEF IndexInv, IndexRead, configuration
<1>15. ASSUME IndexCommit
      PROVE  IndexInv'
  BY <1>15 DEF IndexInv, IndexCommit, Indexed, configuration, ChangeMarked
<1>16. ASSUME IndexFails
      PROVE  IndexInv'
  BY <1>16 DEF IndexInv, IndexFails, configuration
<1>17. CASE UNCHANGED vars
  BY <1>17 DEF IndexInv, vars, configuration
<1> QED
  BY <1>1, <1>2, <1>3, <1>4, <1>5, <1>6, <1>7, <1>8, <1>9, <1>10, <1>11, <1>12, <1>13, <1>14,
     <1>15, <1>16, <1>17
     DEF Next, Choices

-----------------------------------------------------------------------------
Inv == Base /\ ProviderInv /\ IndexInv

\* The three parts together are an invariant.
LEMMA Invariance == Spec => []Inv
<1>1. Init => Inv
  <2> SUFFICES ASSUME Init
               PROVE  Inv
    OBVIOUS
  <2>1. Base
    BY ConstantsAssumption DEF Init, Base, TypeOK, Choices, JobType, RowLocks, Steps, Open, Rows
  <2>2. ProviderInv
    BY ConstantsAssumption
       DEF Init, ProviderInv, ProviderHeld, KeyHeld, KeysCounted, OneLiveKey,
           VerifiedIsUsable, Open
  <2>3. IndexInv
    BY
       DEF Init, IndexInv, SettingHeld, AllMarked, DocsHeld, ReadsHold,
           FreshIsOfChosenModel, DocLocks, Open
  <2> QED
    BY <2>1, <2>2, <2>3 DEF Inv
<1>2. Inv /\ [Next]_vars => Inv'
  BY BaseStep, ProviderStep, IndexStep DEF Inv
<1> QED
  BY <1>1, <1>2, PTL DEF Spec

\* A provider is verified only with the address and the key it has accepted,
\* and with a key that is not revoked, however late its answer comes.
THEOREM VerifiedUsable == Spec => []VerifiedIsUsable
<1>1. Inv => VerifiedIsUsable
  BY DEF Inv, ProviderInv
<1> QED
  BY <1>1, Invariance, PTL

\* No save or revocation leaves a second key that is not revoked.
THEOREM SingleLiveKey == Spec => []OneLiveKey
<1>1. Inv => OneLiveKey
  BY DEF Inv, ProviderInv
<1> QED
  BY <1>1, Invariance, PTL

\* The vector of a fresh document is of the chosen model: the mark of a
\* change and the index jobs exclude each other, but for the documents that
\* are counted as missed.
THEOREM FreshVectors == Spec => []FreshIsOfChosenModel
<1>1. Inv => FreshIsOfChosenModel
  BY DEF Inv, IndexInv
<1> QED
  BY <1>1, Invariance, PTL

-----------------------------------------------------------------------------
(***************************************************************************)
(* BackupAgent                                                             *)
(***************************************************************************)

RowStates == {"absent", "queued", "running", "completed", "failed"}

\* The values of the rows and of the agent.
AgentTypeOK ==
  /\ record \in [Records -> RowStates]
  /\ version \in [Records -> Nat]
  /\ job \in [Jobs -> RowStates]
  /\ attempts \in [Jobs -> Nat]
  /\ agent \in Jobs \cup {NoJob}
  /\ step \in {"idle", "claimed", "started", "backed_up"}
  /\ fresh \in SUBSET Records
  /\ backups \in Nat

\* The agent works on a job it has marked running; past the claim it creates
\* a backup, and past pgbackrest that backup is in the repository.
AtWork ==
  step # "idle" =>
    /\ agent \in Jobs /\ job[agent] = "running"
    /\ step # "claimed" => agent \in Records
    /\ step = "backed_up" => agent \in fresh

\* A record and its job are inserted together.
InsertedTogether == \A r \in Records : record[r] = "absent" <=> job[r] = "absent"

\* A check is requested of a completed record, which then stays completed.
CheckedIsCompleted == \A c \in Checks : job[c] # "absent" => record[RecordOf[c]] = "completed"

RequestedRecords == {r \in Records : record[r] # "absent"}

\* Every full backup is the first one newer than some requested record.
BackupsCounted ==
  /\ IsFiniteSet(RequestedRecords)
  /\ fresh \subseteq RequestedRecords
  /\ backups <= Cardinality(fresh)
  /\ \A r \in Records : record[r] = "completed" => r \in fresh

AgentInv ==
  /\ AgentTypeOK /\ AtWork /\ InsertedTogether /\ CheckedIsCompleted
  /\ BackupsCounted /\ RecordEndsWithItsJob

-----------------------------------------------------------------------------
\* The inductive invariant bounds the backups by the requested records.
LEMMA AgentInvImplies == ASSUME AgentInv PROVE BackupsNotRepeated
<1>1. /\ IsFiniteSet(RequestedRecords) /\ fresh \subseteq RequestedRecords
      /\ backups <= Cardinality(fresh) /\ backups \in Nat
      /\ \A r \in Records : record[r] = "completed" => r \in fresh
  BY DEF AgentInv, BackupsCounted, AgentTypeOK
<1>2. IsFiniteSet(fresh) /\ Cardinality(fresh) <= Cardinality(RequestedRecords)
  BY <1>1, FS_Subset
<1>3. Cardinality(fresh) \in Nat /\ Cardinality(RequestedRecords) \in Nat
  BY <1>1, <1>2, FS_CardinalityType
<1> QED  BY <1>1, <1>2, <1>3 DEF BackupsNotRepeated, RequestedRecords

\* Nothing is requested at first.
LEMMA AgentInvInit == AgentInit => AgentInv
<1> SUFFICES ASSUME AgentInit PROVE AgentInv
  OBVIOUS
<1>1. AgentTypeOK  BY AgentAssumption DEF AgentInit, AgentTypeOK, RowStates
<1>2. AtWork /\ InsertedTogether /\ CheckedIsCompleted /\ RecordEndsWithItsJob
  BY AgentAssumption
  DEF AgentInit, AtWork, InsertedTogether, CheckedIsCompleted, RecordEndsWithItsJob, Jobs
<1>3. RequestedRecords = {} /\ fresh = {} /\ backups = 0
  BY DEF AgentInit, RequestedRecords
<1>4. BackupsCounted  BY <1>3, FS_EmptySet DEF BackupsCounted, AgentInit
<1> QED  BY <1>1, <1>2, <1>4 DEF AgentInv

\* A request adds a record that no backup is newer than.
LEMMA RequestBackupInv ==
  ASSUME AgentInv, NEW r \in Records, RequestBackup(r) PROVE AgentInv'
<1>1. /\ job[r] = "absent"
      /\ record' = [record EXCEPT ![r] = "queued"] /\ job' = [job EXCEPT ![r] = "queued"]
      /\ UNCHANGED <<version, attempts, agent, step, fresh, backups>>
  BY DEF RequestBackup
<1>2. AgentTypeOK /\ r \in Jobs /\ Records \subseteq Jobs /\ Checks \subseteq Jobs /\ r \notin Checks
  BY AgentAssumption DEF AgentInv, Jobs
<1>3. AgentTypeOK'  BY <1>1, <1>2 DEF AgentTypeOK, RowStates
<1>4. AtWork'  BY <1>1, <1>2 DEF AgentInv, AtWork, AgentTypeOK
<1>5. InsertedTogether'  BY <1>1, <1>2 DEF AgentInv, InsertedTogether, AgentTypeOK
<1>6. RecordEndsWithItsJob'  BY <1>1, <1>2 DEF AgentInv, RecordEndsWithItsJob, AgentTypeOK
<1>7. record[r] = "absent"  BY <1>1 DEF AgentInv, InsertedTogether
<1>8. CheckedIsCompleted'
  BY <1>1, <1>2, <1>7, AgentAssumption DEF AgentInv, CheckedIsCompleted, AgentTypeOK
<1>9. RequestedRecords' = RequestedRecords \cup {r}
  BY <1>1, <1>2 DEF RequestedRecords, AgentTypeOK
<1>10. IsFiniteSet(RequestedRecords')
  BY <1>9, FS_AddElement DEF AgentInv, BackupsCounted
<1>11. \A q \in Records : record'[q] = "completed" => record[q] = "completed"
  BY <1>1, <1>2 DEF AgentTypeOK
<1>12. BackupsCounted'  BY <1>1, <1>9, <1>10, <1>11 DEF AgentInv, BackupsCounted
<1> QED  BY <1>3, <1>4, <1>5, <1>6, <1>8, <1>12 DEF AgentInv

\* A step that keeps the records and the backups keeps their count.
LEMMA BackupsKept ==
  ASSUME BackupsCounted, UNCHANGED <<fresh, backups>>, RequestedRecords' = RequestedRecords,
         \A r \in Records : record'[r] = "completed" => record[r] = "completed" \/ r \in fresh
  PROVE  BackupsCounted'
BY DEF BackupsCounted

\* A check is added for a completed record.
LEMMA RequestCheckInv ==
  ASSUME AgentInv, NEW c \in Checks, NEW v, RequestCheck(c, v) PROVE AgentInv'
<1>1. /\ job[c] = "absent" /\ record[RecordOf[c]] = "completed"
      /\ job' = [job EXCEPT ![c] = "queued"]
      /\ UNCHANGED <<record, version, attempts, agent, step, fresh, backups>>
  BY DEF RequestCheck
<1>2. AgentTypeOK /\ c \in Jobs /\ Records \subseteq Jobs /\ Checks \subseteq Jobs /\ c \notin Records
  BY AgentAssumption DEF AgentInv, Jobs
<1>3. AgentTypeOK'  BY <1>1, <1>2 DEF AgentTypeOK, RowStates
<1>4. AtWork'  BY <1>1, <1>2 DEF AgentInv, AtWork, AgentTypeOK
<1>5. \A r \in Records : job'[r] = job[r]  BY <1>1, <1>2 DEF AgentTypeOK
<1>6. InsertedTogether' /\ RecordEndsWithItsJob'
  BY <1>1, <1>5 DEF AgentInv, InsertedTogether, RecordEndsWithItsJob
<1>7. CheckedIsCompleted'
  BY <1>1, <1>2 DEF AgentInv, CheckedIsCompleted, AgentTypeOK
<1>8. RequestedRecords' = RequestedRecords  BY <1>1 DEF RequestedRecords
<1>9. BackupsCounted'  BY <1>1, <1>8, BackupsKept DEF AgentInv
<1> QED  BY <1>3, <1>4, <1>6, <1>7, <1>9 DEF AgentInv

\* A claim changes the job, not its record.
LEMMA ClaimInv ==
  ASSUME AgentInv, NEW j \in Jobs, Claim(j) PROVE AgentInv'
<1>1. /\ job[j] = "queued" /\ job' = [job EXCEPT ![j] = "running"]
      /\ attempts' = [attempts EXCEPT ![j] = @ + 1]
      /\ agent' = j /\ step' = "claimed"
      /\ UNCHANGED <<record, version, fresh, backups>>
  BY DEF Claim
<1>2. AgentTypeOK /\ Records \subseteq Jobs /\ Checks \subseteq Jobs  BY DEF AgentInv, Jobs
<1>3. AgentTypeOK'  BY <1>1, <1>2 DEF AgentTypeOK, RowStates
<1>4. AtWork'  BY <1>1, <1>2 DEF AtWork, AgentTypeOK
<1>5. InsertedTogether'  BY <1>1, <1>2 DEF AgentInv, InsertedTogether, AgentTypeOK
<1>6. RecordEndsWithItsJob'  BY <1>1, <1>2 DEF AgentInv, RecordEndsWithItsJob, AgentTypeOK
<1>7. CheckedIsCompleted'  BY <1>1, <1>2 DEF AgentInv, CheckedIsCompleted, AgentTypeOK
<1>8. RequestedRecords' = RequestedRecords  BY <1>1 DEF RequestedRecords
<1>9. BackupsCounted'  BY <1>1, <1>8, BackupsKept DEF AgentInv
<1> QED  BY <1>3, <1>4, <1>5, <1>6, <1>7, <1>9 DEF AgentInv

\* The record of a running job is neither absent nor ended.
LEMMA MarkRunningInv == ASSUME AgentInv, MarkRunning PROVE AgentInv'
<1>1. /\ step = "claimed" /\ agent \in Records
      /\ record' = [record EXCEPT ![agent] = "running"] /\ step' = "started"
      /\ UNCHANGED <<version, job, attempts, agent, fresh, backups>>
  BY DEF MarkRunning
<1>2. AgentTypeOK /\ job[agent] = "running"  BY <1>1 DEF AgentInv, AtWork
<1>3. record[agent] \notin {"absent", "completed", "failed"}
  BY <1>1, <1>2 DEF AgentInv, InsertedTogether, RecordEndsWithItsJob
<1>4. AgentTypeOK'  BY <1>1, <1>2 DEF AgentTypeOK, RowStates
<1>5. AtWork'  BY <1>1, <1>2 DEF AgentInv, AtWork
<1>6. InsertedTogether'  BY <1>1, <1>2 DEF AgentInv, InsertedTogether, AgentTypeOK
<1>7. RecordEndsWithItsJob'  BY <1>1, <1>2 DEF AgentInv, RecordEndsWithItsJob, AgentTypeOK
<1>8. CheckedIsCompleted'
  BY <1>1, <1>2, <1>3, AgentAssumption DEF AgentInv, CheckedIsCompleted, AgentTypeOK
<1>9. RequestedRecords' = RequestedRecords
  BY <1>1, <1>2, <1>3 DEF RequestedRecords, AgentTypeOK
<1>10. \A r \in Records : record'[r] = "completed" => record[r] = "completed"
  BY <1>1, <1>2 DEF AgentTypeOK
<1>11. BackupsCounted'  BY <1>1, <1>9, <1>10, BackupsKept DEF AgentInv
<1> QED  BY <1>4, <1>5, <1>6, <1>7, <1>8, <1>11 DEF AgentInv

\* A new backup is taken only when the record at work has none, so that it is
\* the first one newer than that record.
LEMMA TakeBackupInv == ASSUME AgentInv, TakeBackup PROVE AgentInv'
<1>1. /\ step = "started" /\ step' = "backed_up"
      /\ UNCHANGED <<record, version, job, attempts, agent>>
  BY DEF TakeBackup, tables
<1>2. agent \in Records /\ job[agent] = "running"  BY <1>1 DEF AgentInv, AtWork
<1>3. agent \in RequestedRecords
  BY <1>2 DEF AgentInv, InsertedTogether, RequestedRecords
<1>4. RequestedRecords' = RequestedRecords  BY <1>1 DEF RequestedRecords
<1>5. /\ IsFiniteSet(RequestedRecords) /\ fresh \subseteq RequestedRecords
      /\ backups <= Cardinality(fresh) /\ backups \in Nat
      /\ \A r \in Records : record[r] = "completed" => r \in fresh
  BY DEF AgentInv, BackupsCounted, AgentTypeOK
<1>6. /\ agent \in fresh' /\ fresh \subseteq fresh' /\ fresh' \subseteq RequestedRecords
      /\ backups' \in Nat /\ backups' <= Cardinality(fresh')
  <2>1. CASE agent \in fresh
    <3>1. fresh' = fresh /\ backups' = backups  BY <2>1 DEF TakeBackup
    <3> QED  BY <2>1, <3>1, <1>5
  <2>2. CASE agent \notin fresh
    <3>1. fresh' = fresh \cup RequestedRecords /\ backups' = backups + 1
      BY <2>2 DEF TakeBackup, RequestedRecords
    <3>2. fresh' = RequestedRecords  BY <3>1, <1>5
    <3>3. IsFiniteSet(fresh)  BY <1>5, FS_Subset
    <3>4. /\ IsFiniteSet(fresh \cup {agent})
          /\ Cardinality(fresh \cup {agent}) = Cardinality(fresh) + 1
      BY <3>3, <2>2, FS_AddElement
    <3>5. fresh \cup {agent} \subseteq RequestedRecords  BY <1>3, <1>5
    <3>6. Cardinality(fresh \cup {agent}) <= Cardinality(fresh')
      BY <3>2, <3>5, <1>5, FS_Subset
    <3>7. Cardinality(fresh) \in Nat /\ Cardinality(fresh') \in Nat
      BY <3>2, <3>3, <1>5, FS_CardinalityType
    <3>8. backups' \in Nat /\ backups' <= Cardinality(fresh')
      BY <3>1, <3>4, <3>6, <3>7, <1>5
    <3> QED  BY <3>2, <3>8, <1>3, <1>5
  <2> QED  BY <2>1, <2>2
<1>7. fresh' \in SUBSET Records  BY <1>6 DEF RequestedRecords
<1>8. AgentTypeOK'  BY <1>1, <1>6, <1>7 DEF AgentInv, AgentTypeOK
<1>9. AtWork'  BY <1>1, <1>2, <1>6 DEF AgentInv, AtWork
<1>10. InsertedTogether' /\ RecordEndsWithItsJob' /\ CheckedIsCompleted'
  BY <1>1 DEF AgentInv, InsertedTogether, RecordEndsWithItsJob, CheckedIsCompleted
<1>11. BackupsCounted'  BY <1>1, <1>4, <1>5, <1>6 DEF BackupsCounted
<1> QED  BY <1>8, <1>9, <1>10, <1>11 DEF AgentInv

\* What a job that ends leaves in its record: the job of a backup takes the
\* record with it, a check leaves it completed.
LEMMA EndOfWork ==
  ASSUME AgentInv, step # "idle", NEW s \in {"queued", "completed", "failed"},
         NEW k \in RowStates,
         agent \in Records => k = s,
         agent \notin Records => k = "completed",
         s = "completed" => agent \in Checks \/ agent \in fresh,
         job' = [job EXCEPT ![agent] = s],
         record' = [record EXCEPT ![Target(agent)] = k],
         version' = [version EXCEPT ![Target(agent)] = @ + 1],
         agent' = NoJob, step' = "idle",
         UNCHANGED <<attempts, fresh, backups>>
  PROVE  AgentInv'
<1>1. /\ AgentTypeOK /\ agent \in Jobs /\ job[agent] = "running"
      /\ Records \subseteq Jobs /\ Checks \subseteq Jobs
  BY DEF AgentInv, AtWork, Jobs
<1>2. Target(agent) \in Records /\ k # "absent"
  BY <1>1, AgentAssumption DEF Target, Jobs
<1>3. AgentTypeOK'
  <2>1. version' \in [Records -> Nat]  BY <1>1, <1>2 DEF AgentTypeOK
  <2>2. record' \in [Records -> RowStates]  BY <1>1, <1>2 DEF AgentTypeOK
  <2>3. job' \in [Jobs -> RowStates]  BY <1>1 DEF AgentTypeOK, RowStates
  <2> QED  BY <1>1, <2>1, <2>2, <2>3 DEF AgentTypeOK
<1>4. AtWork'  BY DEF AtWork
<1>5. record[Target(agent)] # "absent"
  <2>1. CASE agent \in Records
    BY <1>1, <2>1 DEF AgentInv, InsertedTogether, Target
  <2>2. CASE agent \notin Records
    BY <1>1, <2>2 DEF AgentInv, CheckedIsCompleted, Target, Jobs
  <2> QED  BY <2>1, <2>2
<1>6. RequestedRecords' = RequestedRecords
  BY <1>1, <1>2, <1>5 DEF RequestedRecords, AgentTypeOK
<1>7. CASE agent \in Records
  <2>1. /\ Target(agent) = agent /\ k = s /\ agent \notin Checks
        /\ record' = [record EXCEPT ![agent] = s]
    BY <1>7, AgentAssumption DEF Target
  <2>2. record[agent] # "completed"  BY <1>1, <1>7 DEF AgentInv, RecordEndsWithItsJob
  <2>3. InsertedTogether'  BY <1>1, <1>7, <2>1 DEF AgentInv, InsertedTogether, AgentTypeOK
  <2>4. RecordEndsWithItsJob'
    BY <1>1, <1>7, <2>1 DEF AgentInv, RecordEndsWithItsJob, AgentTypeOK
  <2>5. CheckedIsCompleted'
    BY <1>1, <1>7, <2>1, <2>2, AgentAssumption DEF AgentInv, CheckedIsCompleted, AgentTypeOK
  <2>6. \A r \in Records : record'[r] = "completed" => record[r] = "completed" \/ r \in fresh
    BY <1>1, <1>7, <2>1 DEF AgentTypeOK
  <2>7. BackupsCounted'  BY <1>6, <2>6, BackupsKept DEF AgentInv
  <2> QED  BY <1>3, <1>4, <2>3, <2>4, <2>5, <2>7 DEF AgentInv
<1>8. CASE agent \notin Records
  <2>1. /\ agent \in Checks /\ Target(agent) = RecordOf[agent] /\ k = "completed"
        /\ record[RecordOf[agent]] = "completed"
    BY <1>1, <1>8 DEF AgentInv, CheckedIsCompleted, Target, Jobs
  <2>2. record' = record  BY <1>1, <1>2, <2>1 DEF AgentTypeOK
  <2>3. \A r \in Records : job'[r] = job[r]  BY <1>1, <1>8 DEF AgentTypeOK
  <2>4. InsertedTogether' /\ RecordEndsWithItsJob'
    BY <2>2, <2>3 DEF AgentInv, InsertedTogether, RecordEndsWithItsJob
  <2>5. CheckedIsCompleted'
    BY <1>1, <2>1, <2>2 DEF AgentInv, CheckedIsCompleted, AgentTypeOK
  <2>6. BackupsCounted'  BY <1>6, <2>2, BackupsKept DEF AgentInv
  <2> QED  BY <1>3, <1>4, <2>4, <2>5, <2>6 DEF AgentInv
<1> QED  BY <1>7, <1>8

\* A backup that ends has its record in the repository.
LEMMA CompleteInv == ASSUME AgentInv, Complete PROVE AgentInv'
<1>1. step # "idle" /\ (agent \in Checks \/ agent \in fresh)
  BY DEF AgentInv, AtWork, Complete
<1>2. "completed" \in RowStates  BY DEF RowStates
<1> QED  BY <1>1, <1>2, EndOfWork DEF Complete

\* A failed backup fails or waits with its record, a failed check leaves it.
LEMMA FailInv == ASSUME AgentInv, Fail PROVE AgentInv'
<1>1. step # "idle"  BY DEF Fail
<1>2. agent \in Jobs /\ job[agent] = "running"  BY <1>1 DEF AgentInv, AtWork
<1>3. AfterFailure(agent) \in {"queued", "failed"}  BY DEF AfterFailure
<1>4. agent \in Records => FailedRecord(agent, AfterFailure(agent)) = AfterFailure(agent)
  BY DEF FailedRecord
<1>5. agent \notin Records => FailedRecord(agent, AfterFailure(agent)) = "completed"
  BY <1>2 DEF FailedRecord, Target, AgentInv, CheckedIsCompleted, Jobs
<1>6. FailedRecord(agent, AfterFailure(agent)) \in RowStates
  BY <1>3, <1>4, <1>5 DEF RowStates
<1> QED  BY <1>1, <1>3, <1>4, <1>5, <1>6, EndOfWork DEF Fail

\* The loss of the agent leaves the tables as they are.
LEMMA CrashInv == ASSUME AgentInv, Crash PROVE AgentInv'
<1>1. agent' = NoJob /\ step' = "idle" /\ UNCHANGED <<record, version, job, attempts, fresh, backups>>
  BY DEF Crash, tables
<1>2. AgentTypeOK' /\ AtWork'  BY <1>1 DEF AgentInv, AgentTypeOK, AtWork
<1>3. InsertedTogether' /\ CheckedIsCompleted' /\ RecordEndsWithItsJob'
  BY <1>1 DEF AgentInv, InsertedTogether, CheckedIsCompleted, RecordEndsWithItsJob
<1>4. BackupsCounted'  BY <1>1 DEF AgentInv, BackupsCounted, RequestedRecords
<1> QED  BY <1>2, <1>3, <1>4 DEF AgentInv

\* Steps outside of the tables and the work.
LEMMA AgentStutterInv ==
  ASSUME AgentInv, UNCHANGED <<record, version, job, attempts, agent, step, fresh, backups>>
  PROVE  AgentInv'
<1>1. AgentTypeOK' /\ AtWork'  BY DEF AgentInv, AgentTypeOK, AtWork
<1>2. InsertedTogether' /\ CheckedIsCompleted' /\ RecordEndsWithItsJob'
  BY DEF AgentInv, InsertedTogether, CheckedIsCompleted, RecordEndsWithItsJob
<1>3. BackupsCounted'  BY DEF AgentInv, BackupsCounted, RequestedRecords
<1> QED  BY <1>1, <1>2, <1>3 DEF AgentInv

\* Every step keeps the invariant.
LEMMA AgentNextInv == ASSUME AgentInv, [AgentNext]_agentVars PROVE AgentInv'
<1>1. ASSUME NEW r \in Records, RequestBackup(r) PROVE AgentInv'  BY <1>1, RequestBackupInv
<1>2. ASSUME NEW c \in Checks, NEW v, RequestCheck(c, v) PROVE AgentInv'  BY <1>2, RequestCheckInv
<1>3. ASSUME NEW j \in Jobs, BackoffEnds(j) PROVE AgentInv'
  BY <1>3, AgentStutterInv DEF BackoffEnds
<1>4. ASSUME NEW j \in Jobs, Claim(j) PROVE AgentInv'  BY <1>4, ClaimInv
<1>5. CASE UNCHANGED agentVars  BY <1>5, AgentStutterInv DEF agentVars, tables
<1> QED
  BY <1>1, <1>2, <1>3, <1>4, <1>5, MarkRunningInv, TakeBackupInv, CompleteInv, FailInv, CrashInv
  DEF AgentNext, Work

\* In every state of the backup agent the rows of records and jobs fit together
\* and the backups are counted.
THEOREM AgentInvariant == AgentSpec => []AgentInv
BY AgentInvInit, AgentNextInv, PTL DEF AgentSpec

\* record and job of a backup end alike, through failures, retries, losses of
\* the agent between its transactions and checks that fail later.
THEOREM RecordsEndWithTheirJobs == AgentSpec => []RecordEndsWithItsJob
<1>1. AgentInv => RecordEndsWithItsJob  BY DEF AgentInv
<1> QED  BY <1>1, AgentInvariant, PTL

\* However often create_backup is retried, there is at most one full backup for
\* each requested record, and a completed record has one.
THEOREM RetriesAddNoBackup == AgentSpec => []BackupsNotRepeated
BY AgentInvImplies, AgentInvariant, PTL
-----------------------------------------------------------------------------
\* Jobs marked running that the agent does not work on.
Stranded == {j \in Jobs : job[j] = "running" /\ agent # j}

\* claim() never takes up a running job again, but only the loss of an agent
\* leaves one behind: there are no more of them than losses.
StrandedByLosses == IsFiniteSet(Stranded) /\ Cardinality(Stranded) <= crashes

\* A job is given up after max_attempts attempts, and not before.
GivenUpAtLimit ==
  \A j \in Jobs : /\ attempts[j] <= MaxAttempts
                  /\ job[j] = "failed" => attempts[j] = MaxAttempts

StrandedInv ==
  /\ StrandedByLosses /\ crashes \in Nat
  /\ step = "idle" => agent = NoJob

BudgetInv ==
  /\ GivenUpAtLimit
  /\ \A j \in Jobs : job[j] \in {"absent", "queued"} => attempts[j] < MaxAttempts

\* At first no job is running.
LEMMA StrandedInvInit == AgentInit => StrandedInv
<1> SUFFICES ASSUME AgentInit PROVE StrandedInv
  OBVIOUS
<1>1. Stranded = {}  BY DEF AgentInit, Stranded
<1>2. IsFiniteSet({}) /\ Cardinality({}) = 0  BY FS_EmptySet
<1> QED  BY <1>1, <1>2 DEF AgentInit, StrandedInv, StrandedByLosses

\* Only the loss of the agent adds to the stranded jobs, and one at a time.
LEMMA StrandedNextInv ==
  ASSUME AgentInv, StrandedInv, [AgentNext]_agentVars PROVE StrandedInv'
<1>1. AgentTypeOK /\ Records \subseteq Jobs /\ Checks \subseteq Jobs  BY DEF AgentInv, Jobs
<1>2. CASE Stranded' = Stranded /\ crashes' = crashes /\ (step' = "idle" => agent' = NoJob)
  BY <1>2 DEF StrandedInv, StrandedByLosses
<1>3. ASSUME NEW r \in Records, RequestBackup(r) PROVE StrandedInv'
  <2>1. /\ job[r] = "absent" /\ job' = [job EXCEPT ![r] = "queued"] /\ r \in Jobs
        /\ UNCHANGED <<agent, step, crashes>>
    BY <1>1, <1>3 DEF RequestBackup
  <2>2. Stranded' = Stranded  BY <1>1, <2>1 DEF Stranded, AgentTypeOK
  <2> QED  BY <1>2, <2>1, <2>2 DEF StrandedInv
<1>4. ASSUME NEW c \in Checks, NEW v, RequestCheck(c, v) PROVE StrandedInv'
  <2>1. /\ job[c] = "absent" /\ job' = [job EXCEPT ![c] = "queued"] /\ c \in Jobs
        /\ UNCHANGED <<agent, step, crashes>>
    BY <1>1, <1>4 DEF RequestCheck
  <2>2. Stranded' = Stranded  BY <1>1, <2>1 DEF Stranded, AgentTypeOK
  <2> QED  BY <1>2, <2>1, <2>2 DEF StrandedInv
<1>5. ASSUME NEW j \in Jobs, Claim(j) PROVE StrandedInv'
  <2>1. /\ step = "idle" /\ job[j] = "queued" /\ job' = [job EXCEPT ![j] = "running"]
        /\ agent' = j /\ step' = "claimed" /\ crashes' = crashes
    BY <1>5 DEF Claim
  <2>2. agent = NoJob  BY <2>1 DEF StrandedInv
  <2>3. Stranded' = Stranded
    BY <1>1, <2>1, <2>2, AgentAssumption DEF Stranded, AgentTypeOK
  <2> QED  BY <1>2, <2>1, <2>3
<1>6. ASSUME \/ MarkRunning \/ TakeBackup
             \/ \E j \in Jobs : BackoffEnds(j)
             \/ UNCHANGED agentVars
      PROVE  StrandedInv'
  <2>1. UNCHANGED <<job, agent, crashes>>
    BY <1>6 DEF MarkRunning, TakeBackup, BackoffEnds, agentVars, tables
  <2>2. step' = "idle" => step = "idle"
    BY <1>6 DEF MarkRunning, TakeBackup, BackoffEnds, agentVars, tables
  <2>3. Stranded' = Stranded  BY <2>1 DEF Stranded
  <2> QED  BY <1>2, <2>1, <2>2, <2>3 DEF StrandedInv
<1>7. ASSUME Complete \/ Fail PROVE StrandedInv'
  <2>1. step # "idle"  BY <1>7 DEF Complete, Fail
  <2>2. agent \in Jobs /\ job[agent] = "running"  BY <2>1 DEF AgentInv, AtWork
  <2>3. PICK s \in {"completed", "queued", "failed"} : job' = [job EXCEPT ![agent] = s]
    BY <1>7 DEF Complete, Fail, AfterFailure
  <2>4. agent' = NoJob /\ step' = "idle" /\ crashes' = crashes  BY <1>7 DEF Complete, Fail
  <2>5. Stranded' = Stranded
    BY <1>1, <2>2, <2>3, <2>4, AgentAssumption DEF Stranded, AgentTypeOK
  <2> QED  BY <1>2, <2>4, <2>5
<1>8. ASSUME Crash PROVE StrandedInv'
  <2>1. /\ step # "idle" /\ agent' = NoJob /\ step' = "idle" /\ crashes' = crashes + 1
        /\ UNCHANGED job
    BY <1>8 DEF Crash, tables
  <2>2. agent \in Jobs /\ job[agent] = "running"  BY <2>1 DEF AgentInv, AtWork
  <2>3. Stranded' = Stranded \cup {agent} /\ agent \notin Stranded
    BY <2>1, <2>2, AgentAssumption DEF Stranded
  <2>4. /\ IsFiniteSet(Stranded) /\ Cardinality(Stranded) <= crashes /\ crashes \in Nat
    BY DEF StrandedInv, StrandedByLosses
  <2>5. IsFiniteSet(Stranded') /\ Cardinality(Stranded') = Cardinality(Stranded) + 1
    BY <2>3, <2>4, FS_AddElement
  <2>6. Cardinality(Stranded) \in Nat  BY <2>4, FS_CardinalityType
  <2> QED  BY <2>1, <2>4, <2>5, <2>6 DEF StrandedInv, StrandedByLosses
<1> QED
  BY <1>3, <1>4, <1>5, <1>6, <1>7, <1>8 DEF AgentNext, Work

\* Jobs that stay running for ever, because claim() looks for queued jobs only,
\* are no more than there were losses of the agent.
THEOREM StrandedOnlyByLosses == AgentSpec => []StrandedByLosses
<1>1. AgentInv /\ StrandedInv /\ [AgentNext]_agentVars => StrandedInv'  BY StrandedNextInv
<1>2. StrandedInv => StrandedByLosses  BY DEF StrandedInv
<1> QED  BY <1>1, <1>2, StrandedInvInit, AgentInvariant, PTL DEF AgentSpec

\* No attempt is counted at first.
LEMMA BudgetInvInit == AgentInit => BudgetInv
BY AgentAssumption DEF AgentInit, BudgetInv, GivenUpAtLimit

\* A job that waits has attempts left.
LEMMA BudgetNextInv ==
  ASSUME AgentInv, BudgetInv, [AgentNext]_agentVars PROVE BudgetInv'
<1>1. /\ AgentTypeOK /\ Records \subseteq Jobs /\ Checks \subseteq Jobs /\ MaxAttempts \in Nat
  BY AgentAssumption DEF AgentInv, Jobs
<1>2. ASSUME NEW j \in Jobs, job[j] = "absent", job' = [job EXCEPT ![j] = "queued"],
             UNCHANGED attempts
      PROVE  BudgetInv'
  BY <1>1, <1>2 DEF BudgetInv, GivenUpAtLimit, AgentTypeOK
<1>3. ASSUME NEW r \in Records, RequestBackup(r) PROVE BudgetInv'
  BY <1>1, <1>2, <1>3 DEF RequestBackup
<1>4. ASSUME NEW c \in Checks, NEW v, RequestCheck(c, v) PROVE BudgetInv'
  BY <1>1, <1>2, <1>4 DEF RequestCheck
<1>5. ASSUME NEW j \in Jobs, Claim(j) PROVE BudgetInv'
  <2>1. /\ job[j] = "queued" /\ job' = [job EXCEPT ![j] = "running"]
        /\ attempts' = [attempts EXCEPT ![j] = @ + 1]
    BY <1>5 DEF Claim
  <2> QED  BY <1>1, <2>1 DEF BudgetInv, GivenUpAtLimit, AgentTypeOK
<1>6. ASSUME Complete \/ Fail PROVE BudgetInv'
  <2>1. step # "idle"  BY <1>6 DEF Complete, Fail
  <2>2. agent \in Jobs  BY <2>1 DEF AgentInv, AtWork
  <2>3. PICK s \in {"completed", "queued", "failed"} :
          /\ job' = [job EXCEPT ![agent] = s]
          /\ s = "queued" => attempts[agent] < MaxAttempts
          /\ s = "failed" => attempts[agent] >= MaxAttempts
    <3>1. CASE Complete  BY <3>1 DEF Complete
    <3>2. CASE Fail
      <4>1. job' = [job EXCEPT ![agent] = AfterFailure(agent)]  BY <3>2 DEF Fail
      <4>2. attempts[agent] \in Nat  BY <1>1, <2>2 DEF AgentTypeOK
      <4>3. /\ AfterFailure(agent) \in {"queued", "failed"}
            /\ AfterFailure(agent) = "queued" => attempts[agent] < MaxAttempts
            /\ AfterFailure(agent) = "failed" => attempts[agent] >= MaxAttempts
        BY <1>1, <4>2 DEF AfterFailure
      <4> QED  BY <4>1, <4>3
    <3> QED  BY <1>6, <3>1, <3>2
  <2>4. UNCHANGED attempts  BY <1>6 DEF Complete, Fail
  <2> QED  BY <1>1, <2>2, <2>3, <2>4 DEF BudgetInv, GivenUpAtLimit, AgentTypeOK
<1>7. ASSUME \/ MarkRunning \/ TakeBackup \/ Crash
             \/ \E j \in Jobs : BackoffEnds(j)
             \/ UNCHANGED agentVars
      PROVE  BudgetInv'
  <2>1. UNCHANGED <<job, attempts>>
    BY <1>7 DEF MarkRunning, TakeBackup, Crash, BackoffEnds, agentVars, tables
  <2> QED  BY <2>1 DEF BudgetInv, GivenUpAtLimit
<1> QED
  BY <1>3, <1>4, <1>5, <1>6, <1>7 DEF AgentNext, Work

\* fail() gives a job up after max_attempts attempts and not before.
THEOREM AgentBudgetIsUsed == AgentSpec => []GivenUpAtLimit
<1>1. AgentInv /\ BudgetInv /\ [AgentNext]_agentVars => BudgetInv'  BY BudgetNextInv
<1>2. BudgetInv => GivenUpAtLimit  BY DEF BudgetInv
<1> QED  BY <1>1, <1>2, BudgetInvInit, AgentInvariant, PTL DEF AgentSpec

-----------------------------------------------------------------------------
(***************************************************************************)
(* Exports                                                                 *)
(***************************************************************************)

\* The values of the records, the files and the open iterations.
ExportTypeOK ==
  /\ row \in [Ids -> ExportRows]
  /\ expired \in SUBSET Ids
  /\ file \in [Ids -> Nat \cup {Null}]
  /\ data \in Nat
  /\ pend \in [Workers -> [Ids -> ExportRows \cup {Null}]]
  /\ purging \in [Workers -> SUBSET Ids]
  /\ known \in [Workers -> SUBSET Ids]

\* A row is written by one open iteration at a time.
OneWriter ==
  \A v, w \in Workers : \A e \in Ids : v # w => pend[v][e] = Null \/ pend[w][e] = Null

\* A purge works on exports whose time is over.
PurgesExpired == \A w \in Workers : purging[w] \subseteq expired /\ known[w] \subseteq expired

Finished == {"completed", "expired"}

\* q may follow r: a finished record is at most expired and keeps its digest.
Follows(r, q) ==
  r.state \in Finished => q.state \in {r.state, "expired"} /\ q.digest = r.digest

\* A record, committed or pending, is expired when its time is over, and
\* until then a completed one describes its file.
Honest(e, r) ==
  /\ r.state = "expired" => e \in expired
  /\ r.state = "completed" /\ e \notin expired => file[e] = r.digest

HonestRows == \A e \in Ids : Honest(e, row[e])

HonestIterations ==
  \A w \in Workers : \A e \in Ids : pend[w][e] # Null =>
    Follows(row[e], pend[w][e]) /\ Honest(e, pend[w][e])

\* The file being sent is the one of a finished record, or gone.
HonestDownload ==
  \A e \in Ids : download = e => row[e].state \in Finished /\ file[e] \in {row[e].digest, Null}

ExportInv ==
  /\ ExportTypeOK /\ OneWriter /\ PurgesExpired
  /\ HonestRows /\ HonestIterations /\ HonestDownload

-----------------------------------------------------------------------------
\* There are no records and no files at first.
LEMMA ExportInvInit == ExportInit => ExportInv
<1> SUFFICES ASSUME ExportInit PROVE ExportInv
  OBVIOUS
<1>1. ExportTypeOK  BY DEF ExportInit, ExportTypeOK, ExportRows, Row
<1>2. OneWriter /\ PurgesExpired /\ HonestIterations
  BY DEF ExportInit, OneWriter, PurgesExpired, HonestIterations
<1>3. HonestRows  BY DEF ExportInit, HonestRows, Honest, Row
<1>4. HonestDownload  BY ExportAssumption DEF ExportInit, HonestDownload
<1> QED  BY <1>1, <1>2, <1>3, <1>4 DEF ExportInv

\* What the transaction of an iteration sees of a record is a record that may
\* follow the committed one.
LEMMA ViewHonest ==
  ASSUME ExportInv, NEW w \in Workers, NEW e \in Ids
  PROVE  View(w, e) \in ExportRows /\ Follows(row[e], View(w, e)) /\ Honest(e, View(w, e))
<1>1. CASE pend[w][e] = Null
  BY <1>1 DEF ExportInv, ExportTypeOK, View, HonestRows, Follows, Finished
<1>2. CASE pend[w][e] # Null
  BY <1>2 DEF ExportInv, ExportTypeOK, View, HonestIterations
<1> QED  BY <1>1, <1>2

\* A new record is not finished.
LEMMA RequestInv == ASSUME ExportInv, NEW e \in Ids, Request(e) PROVE ExportInv'
<1> DEFINE r == [row[e] EXCEPT !.state = "queued"]
<1>1. /\ row[e].state = "absent"
      /\ row' = [row EXCEPT ![e] = r]
      /\ UNCHANGED <<expired, file, data, pend, purging, known, download>>
  BY DEF Request, open
<1>2. row \in [Ids -> ExportRows]  BY DEF ExportInv, ExportTypeOK
<1>3. r \in ExportRows /\ r.state = "queued"  BY <1>2 DEF ExportRows
<1> HIDE DEF r
<1>4. row' \in [Ids -> ExportRows] /\ row'[e] = r /\ \A d \in Ids \ {e} : row'[d] = row[d]
  BY <1>1, <1>2, <1>3
<1>5. ExportTypeOK' /\ OneWriter' /\ PurgesExpired'
  BY <1>1, <1>4 DEF ExportInv, ExportTypeOK, OneWriter, PurgesExpired
<1>6. HonestRows'  BY <1>1, <1>3, <1>4 DEF ExportInv, HonestRows, Honest
<1>7. HonestIterations'
  BY <1>1, <1>3, <1>4 DEF ExportInv, HonestIterations, Honest, Follows, Finished
<1>8. HonestDownload'  BY <1>1, <1>4 DEF ExportInv, HonestDownload, Finished
<1> QED  BY <1>5, <1>6, <1>7, <1>8 DEF ExportInv

\* A step that leaves the records, the files and the iterations alone.
LEMMA ExportStutterInv ==
  ASSUME ExportInv, UNCHANGED <<row, expired, file, pend, purging, known>>, data' \in Nat,
         HonestDownload'
  PROVE  ExportInv'
<1>1. ExportTypeOK' /\ OneWriter' /\ PurgesExpired'
  BY DEF ExportInv, ExportTypeOK, OneWriter, PurgesExpired
<1>2. HonestRows' /\ HonestIterations'
  BY DEF ExportInv, HonestRows, HonestIterations, Honest, Follows
<1> QED  BY <1>1, <1>2 DEF ExportInv

\* A download begins with the file of a completed record.
LEMMA DownloadBeginInv == ASSUME ExportInv, NEW e \in Ids, DownloadBegin(e) PROVE ExportInv'
<1>1. /\ row[e].state = "completed" /\ e \notin expired /\ download' = e
      /\ UNCHANGED <<row, expired, file, data, pend, purging, known>>
  BY DEF DownloadBegin, records, open
<1>2. file[e] = row[e].digest  BY <1>1 DEF ExportInv, HonestRows, Honest
<1>3. HonestDownload'  BY <1>1, <1>2 DEF HonestDownload, Finished
<1>4. data' \in Nat  BY <1>1 DEF ExportInv, ExportTypeOK
<1> QED  BY <1>1, <1>3, <1>4, ExportStutterInv

\* A download ends.
LEMMA DownloadEndInv == ASSUME ExportInv, DownloadEnd PROVE ExportInv'
<1>1. download' = Null /\ UNCHANGED <<row, expired, file, data, pend, purging, known>>
  BY DEF DownloadEnd, records, open
<1>2. HonestDownload'  BY <1>1, ExportAssumption DEF HonestDownload
<1>3. data' \in Nat  BY <1>1 DEF ExportInv, ExportTypeOK
<1> QED  BY <1>1, <1>2, <1>3, ExportStutterInv

\* The data change, what was written of them does not.
LEMMA DataChangeInv == ASSUME ExportInv, DataChange PROVE ExportInv'
<1>1. data' = data + 1 /\ UNCHANGED <<row, expired, file, pend, purging, known, download>>
  BY DEF DataChange, records, open
<1>2. data' \in Nat  BY <1>1 DEF ExportInv, ExportTypeOK
<1>3. HonestDownload'  BY <1>1 DEF ExportInv, HonestDownload
<1> QED  BY <1>1, <1>2, <1>3, ExportStutterInv

\* A record whose time is over promises nothing.
LEMMA ExpireInv == ASSUME ExportInv, NEW e \in Ids, Expire(e) PROVE ExportInv'
<1>1. /\ expired' = expired \cup {e}
      /\ UNCHANGED <<row, file, data, pend, purging, known, download>>
  BY DEF Expire, open
<1>2. ExportTypeOK' /\ OneWriter' /\ PurgesExpired'
  BY <1>1 DEF ExportInv, ExportTypeOK, OneWriter, PurgesExpired
<1>3. HonestRows' /\ HonestIterations'
  BY <1>1 DEF ExportInv, HonestRows, HonestIterations, Honest, Follows
<1>4. HonestDownload'  BY <1>1 DEF ExportInv, HonestDownload
<1> QED  BY <1>2, <1>3, <1>4 DEF ExportInv

\* generate writes only a file no finished record describes, and describes it.
LEMMA GenerateInv ==
  ASSUME ExportInv, NEW w \in Workers, NEW e \in Ids, Generate(w, e) PROVE ExportInv'
<1> DEFINE r == View(w, e)
           old == r.state = "completed" \/ e \in expired
           q == IF old THEN IF r.state = "completed" THEN r ELSE [r EXCEPT !.state = "expired"]
                ELSE Row("completed", TRUE, data)
<1>1. /\ Unlocked(w, e)
      /\ pend' = [pend EXCEPT ![w][e] = q]
      /\ file' = IF old THEN file ELSE [file EXCEPT ![e] = data]
      /\ UNCHANGED <<row, expired, data, purging, known, download>>
  BY DEF Generate, TooLate, Written, records
<1>2. /\ ExportTypeOK /\ r \in ExportRows
      /\ Follows(row[e], r) /\ Honest(e, r) /\ Honest(e, row[e])
  BY ViewHonest DEF ExportInv, HonestRows
<1>3. q \in ExportRows
  <2>1. Row("completed", TRUE, data) \in ExportRows
    BY <1>2 DEF ExportRows, Row, ExportTypeOK
  <2>2. [r EXCEPT !.state = "expired"] \in ExportRows  BY <1>2 DEF ExportRows
  <2> QED  BY <2>1, <2>2, <1>2
<1>4. Follows(row[e], q)
  <2>1. CASE r.state = "completed"  BY <2>1, <1>2
  <2>2. CASE r.state # "completed" /\ e \in expired
    <3>1. q.state = "expired" /\ q.digest = r.digest  BY <2>2, <1>2 DEF ExportRows
    <3> QED  BY <3>1, <1>2 DEF Follows
  <2>3. CASE r.state # "completed" /\ e \notin expired
    BY <2>3, <1>2 DEF Follows, Honest, Finished
  <2> QED  BY <2>1, <2>2, <2>3
<1>5. /\ q.state = "expired" => e \in expired
      /\ q.state = "completed" /\ e \notin expired => file'[e] = q.digest
  <2>1. CASE r.state = "completed"  BY <2>1, <1>1, <1>2 DEF Honest
  <2>2. CASE r.state # "completed" /\ e \in expired
    <3>1. q.state = "expired"  BY <2>2, <1>2 DEF ExportRows
    <3> QED  BY <3>1, <2>2
  <2>3. CASE r.state # "completed" /\ e \notin expired
    BY <2>3, <1>1, <1>2 DEF Honest, Row, ExportTypeOK
  <2> QED  BY <2>1, <2>2, <2>3
<1>6. Honest(e, row[e])'
  <2>1. CASE old  BY <2>1, <1>1, <1>2 DEF Honest
  <2>2. CASE ~old
    <3>1. row[e].state \notin Finished  BY <2>2, <1>2 DEF Follows, Honest, Finished
    <3> QED  BY <3>1, <1>1 DEF Honest, Finished
  <2> QED  BY <2>1, <2>2
<1>7. download = e => row[e].state \in Finished /\ file'[e] \in {row[e].digest, Null}
  <2>1. CASE old  BY <2>1, <1>1 DEF ExportInv, HonestDownload
  <2>2. CASE ~old
    <3>1. row[e].state \notin Finished  BY <2>2, <1>2 DEF Follows, Honest, Finished
    <3> QED  BY <3>1 DEF ExportInv, HonestDownload
  <2> QED  BY <2>1, <2>2
<1>8. /\ file' \in [Ids -> Nat \cup {Null}]
      /\ \A d \in Ids \ {e} : file'[d] = file[d]
  BY <1>1, <1>2 DEF ExportTypeOK
<1> HIDE DEF r, old, q
<1>9. /\ pend' \in [Workers -> [Ids -> ExportRows \cup {Null}]]
      /\ pend'[w][e] = q
      /\ \A v \in Workers : \A d \in Ids : v # w \/ d # e => pend'[v][d] = pend[v][d]
  BY <1>1, <1>2, <1>3 DEF ExportTypeOK
<1>10. ExportTypeOK'  BY <1>1, <1>2, <1>8, <1>9 DEF ExportTypeOK
<1>11. OneWriter'  BY <1>1, <1>9 DEF ExportInv, OneWriter, Unlocked
<1>12. PurgesExpired'  BY <1>1 DEF ExportInv, PurgesExpired
<1>13. HonestRows'  BY <1>1, <1>6, <1>8 DEF ExportInv, HonestRows, Honest
<1>14. HonestIterations'
  <2> SUFFICES ASSUME NEW v \in Workers, NEW d \in Ids, pend'[v][d] # Null
               PROVE  Follows(row'[d], pend'[v][d]) /\ Honest(d, pend[v][d])'
    BY DEF HonestIterations
  <2>1. CASE v = w /\ d = e
    BY <2>1, <1>1, <1>4, <1>5, <1>9 DEF Follows, Honest
  <2>2. CASE d # e
    BY <2>2, <1>1, <1>8, <1>9 DEF ExportInv, HonestIterations, Honest
  <2>3. CASE v # w /\ d = e
    BY <2>3, <1>1, <1>9 DEF Unlocked
  <2> QED  BY <2>1, <2>2, <2>3
<1>15. HonestDownload'  BY <1>1, <1>7, <1>8 DEF ExportInv, HonestDownload
<1> QED  BY <1>10, <1>11, <1>12, <1>13, <1>14, <1>15 DEF ExportInv

\* A handler that raises leaves rows and files alone.
LEMMA GenerateFailsInv ==
  ASSUME ExportInv, NEW w \in Workers, NEW e \in Ids, GenerateFails(w, e) PROVE ExportInv'
<1>1. UNCHANGED <<row, expired, file, data, pend, purging, known, download>>
  BY DEF GenerateFails, records
<1>2. HonestDownload' /\ data' \in Nat
  BY <1>1 DEF ExportInv, HonestDownload, ExportTypeOK
<1> QED  BY <1>1, <1>2, ExportStutterInv

\* Only files of exports whose time is over are removed.
LEMMA PurgeReadInv == ASSUME ExportInv, NEW w \in Workers, PurgeRead(w) PROVE ExportInv'
<1> DEFINE S == {e \in expired : View(w, e).state \in Purged}
           K == {e \in S : View(w, e).path}
<1>1. /\ purging' = [purging EXCEPT ![w] = S]
      /\ known' = [known EXCEPT ![w] = K]
      /\ file' = Remaining(known'[w])
      /\ UNCHANGED <<row, expired, data, pend, download>>
  BY DEF PurgeRead, records
<1>2. S \subseteq expired /\ K \subseteq expired  OBVIOUS
<1> HIDE DEF S, K
<1>3. ExportTypeOK  BY DEF ExportInv
<1>4. known'[w] = K  BY <1>1, <1>3 DEF ExportTypeOK
<1>5. file' = [e \in Ids |-> IF e \in K THEN Null ELSE file[e]]
  BY <1>1, <1>4 DEF Remaining
<1>6. ExportTypeOK'  BY <1>1, <1>2, <1>3, <1>5 DEF ExportTypeOK
<1>7. OneWriter'  BY <1>1 DEF ExportInv, OneWriter
<1>8. PurgesExpired'  BY <1>1, <1>2, <1>3 DEF ExportInv, PurgesExpired, ExportTypeOK
<1>9. HonestRows' /\ HonestIterations'
  BY <1>1, <1>2, <1>5 DEF ExportInv, HonestRows, HonestIterations, Honest, Follows
<1>10. HonestDownload'  BY <1>1, <1>5 DEF ExportInv, HonestDownload
<1> QED  BY <1>6, <1>7, <1>8, <1>9, <1>10 DEF ExportInv

\* A purge expires what it has read.
LEMMA PurgeWriteInv == ASSUME ExportInv, NEW w \in Workers, PurgeWrite(w) PROVE ExportInv'
<1> DEFINE q(e) == [View(w, e) EXCEPT !.state = "expired", !.path = @ /\ e \notin known[w]]
           p == [e \in Ids |-> IF e \notin purging[w] THEN pend[w][e] ELSE q(e)]
<1>1. /\ \A e \in purging[w] : Unlocked(w, e)
      /\ pend' = [pend EXCEPT ![w] = p]
      /\ purging' = [purging EXCEPT ![w] = {}]
      /\ known' = [known EXCEPT ![w] = {}]
      /\ UNCHANGED <<row, expired, file, data, download>>
  BY DEF PurgeWrite, records
<1>2. ExportTypeOK /\ purging[w] \subseteq expired  BY DEF ExportInv, PurgesExpired
<1>3. ASSUME NEW e \in Ids
      PROVE  /\ q(e) \in ExportRows /\ q(e).state = "expired"
             /\ q(e).digest = View(w, e).digest
  BY ViewHonest DEF ExportRows
<1>4. ASSUME NEW e \in Ids PROVE Follows(row[e], q(e))
  BY <1>3, ViewHonest DEF Follows
<1> HIDE DEF q
<1>5. p \in [Ids -> ExportRows \cup {Null}]  BY <1>2, <1>3 DEF ExportTypeOK
<1>6. \A e \in Ids : p[e] = IF e \notin purging[w] THEN pend[w][e] ELSE q(e)  OBVIOUS
<1> HIDE DEF p
<1>7. /\ pend' \in [Workers -> [Ids -> ExportRows \cup {Null}]] /\ pend'[w] = p
      /\ \A v \in Workers : v # w => pend'[v] = pend[v]
  BY <1>1, <1>2, <1>5 DEF ExportTypeOK
<1>8. ExportTypeOK'  BY <1>1, <1>2, <1>7 DEF ExportTypeOK
<1>9. OneWriter'  BY <1>1, <1>6, <1>7 DEF ExportInv, OneWriter, Unlocked
<1>10. PurgesExpired'  BY <1>1, <1>2 DEF ExportInv, PurgesExpired, ExportTypeOK
<1>11. HonestRows' /\ HonestDownload'
  BY <1>1 DEF ExportInv, HonestRows, Honest, HonestDownload
<1>12. HonestIterations'
  <2> SUFFICES ASSUME NEW v \in Workers, NEW e \in Ids, pend'[v][e] # Null
               PROVE  Follows(row'[e], pend'[v][e]) /\ Honest(e, pend[v][e])'
    BY DEF HonestIterations
  <2>1. CASE v = w /\ e \in purging[w]
    BY <2>1, <1>1, <1>2, <1>3, <1>4, <1>6, <1>7 DEF Honest
  <2>2. CASE v # w \/ e \notin purging[w]
    <3>1. pend'[v][e] = pend[v][e]  BY <2>2, <1>6, <1>7
    <3> QED  BY <3>1, <1>1 DEF ExportInv, HonestIterations, Honest
  <2> QED  BY <2>1, <2>2
<1> QED  BY <1>8, <1>9, <1>10, <1>11, <1>12 DEF ExportInv

\* An aborted purge writes nothing.
LEMMA PurgeAbortedInv == ASSUME ExportInv, NEW w \in Workers, PurgeAborted(w) PROVE ExportInv'
<1>1. /\ purging' = [purging EXCEPT ![w] = {}] /\ known' = [known EXCEPT ![w] = {}]
      /\ UNCHANGED <<row, expired, file, data, pend, download>>
  BY DEF PurgeAborted, records
<1>2. ExportTypeOK' /\ OneWriter' /\ PurgesExpired'
  BY <1>1 DEF ExportInv, ExportTypeOK, OneWriter, PurgesExpired
<1>3. HonestRows' /\ HonestIterations' /\ HonestDownload'
  BY <1>1 DEF ExportInv, HonestRows, HonestIterations, HonestDownload, Honest, Follows
<1> QED  BY <1>2, <1>3 DEF ExportInv

\* What is committed is what the iteration sees.
LEMMA CommitIterationInv ==
  ASSUME ExportInv, NEW w \in Workers, CommitIteration(w) PROVE ExportInv'
<1>1. /\ row' = [e \in Ids |-> View(w, e)]
      /\ pend' = [pend EXCEPT ![w] = [e \in Ids |-> Null]]
      /\ UNCHANGED <<expired, file, data, purging, known, download>>
  BY DEF CommitIteration, Closed
<1>2. ExportTypeOK  BY DEF ExportInv
<1>3. /\ \A e \in Ids : pend'[w][e] = Null
      /\ \A v \in Workers : v # w => pend'[v] = pend[v]
      /\ pend' \in [Workers -> [Ids -> ExportRows \cup {Null}]]
  BY <1>1, <1>2 DEF ExportTypeOK
<1>4. row' \in [Ids -> ExportRows]  BY <1>1, ViewHonest
<1>5. ExportTypeOK' /\ PurgesExpired'
  BY <1>1, <1>2, <1>3, <1>4 DEF ExportInv, ExportTypeOK, PurgesExpired
<1>6. OneWriter'  BY <1>3 DEF ExportInv, OneWriter
<1>7. HonestRows'  BY <1>1, ViewHonest DEF HonestRows, Honest
<1>8. HonestDownload'
  BY <1>1, ViewHonest DEF ExportInv, HonestDownload, Follows, Finished
<1>9. HonestIterations'
  <2> SUFFICES ASSUME NEW v \in Workers, NEW e \in Ids, pend'[v][e] # Null
               PROVE  Follows(row'[e], pend'[v][e]) /\ Honest(e, pend[v][e])'
    BY DEF HonestIterations
  <2>1. v # w /\ pend'[v][e] = pend[v][e]  BY <1>3
  <2>2. pend[w][e] = Null  BY <2>1 DEF ExportInv, OneWriter
  <2>3. row'[e] = row[e]  BY <1>1, <2>2 DEF View
  <2> QED  BY <1>1, <2>1, <2>3 DEF ExportInv, HonestIterations, Honest
<1> QED  BY <1>5, <1>6, <1>7, <1>8, <1>9 DEF ExportInv

\* What is rolled back was described by no committed record.
LEMMA RollbackIterationInv ==
  ASSUME ExportInv, NEW w \in Workers, RollbackIteration(w) PROVE ExportInv'
<1>1. /\ pend' = [pend EXCEPT ![w] = [e \in Ids |-> Null]]
      /\ purging' = [purging EXCEPT ![w] = {}] /\ known' = [known EXCEPT ![w] = {}]
      /\ UNCHANGED <<row, expired, file, data, download>>
  BY DEF RollbackIteration, Closed, records
<1>2. ExportTypeOK  BY DEF ExportInv
<1>3. /\ \A e \in Ids : pend'[w][e] = Null
      /\ \A v \in Workers : v # w => pend'[v] = pend[v]
      /\ pend' \in [Workers -> [Ids -> ExportRows \cup {Null}]]
  BY <1>1, <1>2 DEF ExportTypeOK
<1>4. ExportTypeOK' /\ PurgesExpired'
  BY <1>1, <1>2, <1>3 DEF ExportInv, ExportTypeOK, PurgesExpired
<1>5. OneWriter'  BY <1>3 DEF ExportInv, OneWriter
<1>6. HonestRows' /\ HonestDownload'
  BY <1>1 DEF ExportInv, HonestRows, Honest, HonestDownload
<1>7. HonestIterations'  BY <1>1, <1>3 DEF ExportInv, HonestIterations, Honest
<1> QED  BY <1>4, <1>5, <1>6, <1>7 DEF ExportInv

\* Every step keeps the invariant.
LEMMA ExportNextInv == ASSUME ExportInv, [ExportNext]_exportVars PROVE ExportInv'
<1>1. CASE UNCHANGED exportVars
  <2>1. UNCHANGED <<row, expired, file, data, pend, purging, known, download>>
    BY <1>1 DEF exportVars, records, open
  <2>2. HonestDownload' /\ data' \in Nat
    BY <2>1 DEF ExportInv, HonestDownload, ExportTypeOK
  <2> QED  BY <2>1, <2>2, ExportStutterInv
<1>2. CASE ExportNext
  BY <1>2, RequestInv, DownloadBeginInv, DownloadEndInv, DataChangeInv, ExpireInv, GenerateInv,
     GenerateFailsInv, PurgeReadInv, PurgeWriteInv, PurgeAbortedInv, CommitIterationInv,
     RollbackIterationInv
  DEF ExportNext
<1> QED  BY <1>1, <1>2

\* In every state of the exports the records, committed or pending, describe
\* their files honestly.
THEOREM ExportInvariant == ExportSpec => []ExportInv
BY ExportInvInit, ExportNextInv, PTL DEF ExportSpec

\* download_export sends what the digest of the record was computed from, or
\* nothing, for any number of workers, retries and rollbacks.
THEOREM DownloadsMatchTheirDigest == ExportSpec => []DownloadMatchesDigest
<1>1. ExportInv => DownloadMatchesDigest
  BY DEF ExportInv, DownloadMatchesDigest, HonestRows, Honest, HonestDownload
<1> QED  BY <1>1, ExportInvariant, PTL

\* A committed row is written by a request, while it is absent, and by commits.
LEMMA ExpiredStays ==
  ASSUME ExportInv, [ExportNext]_exportVars, NEW e \in Ids, row[e].state = "expired"
  PROVE  row'[e].state = "expired"
<1>1. ASSUME NEW d \in Ids, Request(d) PROVE row'[e].state = "expired"
  <2>1. row[d].state = "absent" /\ row' = [row EXCEPT ![d].state = "queued"]  BY <1>1 DEF Request
  <2>2. row'[e] = row[e]  BY <2>1 DEF ExportInv, ExportTypeOK
  <2> QED  BY <2>2
<1>2. ASSUME NEW w \in Workers, CommitIteration(w) PROVE row'[e].state = "expired"
  <2>1. row'[e] = View(w, e)  BY <1>2 DEF CommitIteration
  <2> QED  BY <2>1, ViewHonest DEF Follows, Finished
<1>3. CASE UNCHANGED row  BY <1>3
<1> QED
  BY <1>1, <1>2, <1>3
  DEF ExportNext, exportVars, records, DownloadBegin, DownloadEnd, DataChange, Expire, Generate,
      GenerateFails, PurgeRead, PurgeWrite, PurgeAborted, RollbackIteration

\* No iteration, whatever it has read before, brings an expired export back.
THEOREM ExpiredExportsStay == ExportSpec => ExpiredIsFinal
<1>1. ASSUME ExportInv, [ExportNext]_exportVars
      PROVE  [\A e \in Ids : row[e].state = "expired" => row'[e].state = "expired"]_exportVars
  BY <1>1, ExpiredStays
<1> QED  BY <1>1, ExportInvariant, PTL DEF ExportSpec, ExpiredIsFinal
-----------------------------------------------------------------------------
\* A file belongs to a record with a path, committed or pending, or to an
\* iteration that was rolled back.
FileHasOwner ==
  \A e \in Ids : file[e] # Null =>
    \/ row[e].path \/ e \in orphaned
    \/ \E w \in Workers : pend[w][e] # Null /\ pend[w][e].path

\* A file is removed before its path is.
RemovedFirst ==
  \A w \in Workers : \A e \in Ids :
    /\ e \in known[w] => file[e] = Null
    /\ pend[w][e] # Null /\ row[e].path /\ ~pend[w][e].path => file[e] = Null

\* Of records that have a path, the completed ones may be purged, the expired
\* ones were written by a purge that did not know of the path.
PathKnown(e, r) == r.path => r.state = "completed" \/ (r.state = "expired" /\ e \in raced)

PathsKnown ==
  \A e \in Ids : /\ PathKnown(e, row[e])
                 /\ \A w \in Workers : pend[w][e] # Null => PathKnown(e, pend[w][e])

FileInv == FileHasOwner /\ RemovedFirst /\ PathsKnown

\* The file of an expired export is gone, but for those an iteration that was
\* rolled back has written or a racing purge has not known of.
ExpiredHasNoFile ==
  \A e \in Ids : row[e].state = "expired" /\ file[e] # Null => e \in orphaned \cup raced

\* There are no files at first.
LEMMA FileInvInit == ExportInit => FileInv
BY DEF ExportInit, FileInv, FileHasOwner, RemovedFirst, PathsKnown, PathKnown, Row

\* A step that leaves the paths, the files and the purges alone.
LEMMA FilesUnchanged ==
  ASSUME FileInv, UNCHANGED <<file, pend, known, orphaned, raced>>,
         \A e \in Ids : row'[e] = row[e] \/ (row'[e].path = row[e].path /\ ~row[e].path)
  PROVE  FileInv'
BY DEF FileInv, FileHasOwner, RemovedFirst, PathsKnown, PathKnown

\* A new record has no path.
LEMMA RequestFiles == ASSUME ExportInv, FileInv, NEW e \in Ids, Request(e) PROVE FileInv'
<1>1. /\ row[e].state = "absent" /\ row' = [row EXCEPT ![e].state = "queued"]
      /\ UNCHANGED <<file, pend, known, orphaned, raced>>
  BY DEF Request, open, history
<1>2. row \in [Ids -> ExportRows]  BY DEF ExportInv, ExportTypeOK
<1>3. ~row[e].path  BY <1>1 DEF FileInv, PathsKnown, PathKnown
<1>4. row'[e].path = row[e].path /\ \A d \in Ids \ {e} : row'[d] = row[d]
  BY <1>1, <1>2 DEF ExportRows
<1> QED  BY <1>1, <1>3, <1>4, FilesUnchanged

\* What an iteration sees of a record has a known path, and a path it has
\* dropped is that of a removed file.
LEMMA ViewPath ==
  ASSUME ExportInv, FileInv, NEW w \in Workers, NEW e \in Ids
  PROVE  /\ PathKnown(e, View(w, e))
         /\ row[e].path /\ ~View(w, e).path => file[e] = Null
<1>1. CASE pend[w][e] = Null  BY <1>1 DEF View, FileInv, PathsKnown
<1>2. CASE pend[w][e] # Null  BY <1>2 DEF View, FileInv, PathsKnown, RemovedFirst
<1> QED  BY <1>1, <1>2

\* A file that is written has its path in the same iteration.
LEMMA GenerateFiles ==
  ASSUME ExportInv, FileInv, NEW w \in Workers, NEW e \in Ids, Generate(w, e) PROVE FileInv'
<1> DEFINE r == View(w, e)
           old == r.state = "completed" \/ e \in expired
           q == IF old THEN IF r.state = "completed" THEN r ELSE [r EXCEPT !.state = "expired"]
                ELSE Row("completed", TRUE, data)
<1>1. /\ Unlocked(w, e)
      /\ pend' = [pend EXCEPT ![w][e] = q]
      /\ file' = IF old THEN file ELSE [file EXCEPT ![e] = data]
      /\ orphaned' = IF old THEN orphaned ELSE orphaned \ {e}
      /\ UNCHANGED <<row, known, raced>>
  BY DEF Generate, TooLate, Written, records
<1>2. /\ ExportTypeOK /\ r \in ExportRows /\ PurgesExpired
      /\ PathKnown(e, r) /\ (row[e].path /\ ~r.path => file[e] = Null)
  BY ViewHonest, ViewPath DEF ExportInv
<1>3. /\ q \in ExportRows /\ PathKnown(e, q)
      /\ ~old => q.path
      /\ old => q.path = r.path
  BY <1>2 DEF ExportRows, Row, PathKnown, ExportTypeOK
<1>4. q # Null  BY <1>3, ExportAssumption
<1>5. /\ \A d \in Ids : d # e \/ old => file'[d] = file[d]
      /\ \A d \in Ids : d # e \/ old => (d \in orphaned' <=> d \in orphaned)
  BY <1>1, <1>2 DEF ExportTypeOK
<1>6. ~old => \A v \in Workers : e \notin known[v]
  BY <1>2 DEF PurgesExpired
<1> HIDE DEF r, old, q
<1>7. /\ pend'[w][e] = q
      /\ \A v \in Workers : \A d \in Ids : v # w \/ d # e => pend'[v][d] = pend[v][d]
  BY <1>1, <1>2 DEF ExportTypeOK
<1>8. PathsKnown'
  BY <1>1, <1>3, <1>7 DEF FileInv, PathsKnown, PathKnown
<1>9. RemovedFirst'
  <2> SUFFICES ASSUME NEW v \in Workers, NEW d \in Ids
               PROVE  /\ d \in known[v] => file'[d] = Null
                      /\ pend'[v][d] # Null /\ row[d].path /\ ~pend'[v][d].path => file'[d] = Null
    BY <1>1 DEF RemovedFirst
  <2>1. CASE d # e
    BY <2>1, <1>5, <1>7 DEF FileInv, RemovedFirst
  <2>2. CASE d = e /\ old
    <3>1. file'[e] = file[e]  BY <2>2, <1>5
    <3>2. CASE v = w
      BY <2>2, <3>1, <3>2, <1>2, <1>3, <1>7 DEF FileInv, RemovedFirst
    <3>3. CASE v # w
      BY <2>2, <3>1, <3>3, <1>7 DEF FileInv, RemovedFirst
    <3> QED  BY <3>2, <3>3
  <2>3. CASE d = e /\ ~old
    BY <2>3, <1>1, <1>3, <1>6, <1>7 DEF Unlocked
  <2> QED  BY <2>1, <2>2, <2>3
<1>10. FileHasOwner'
  <2> SUFFICES ASSUME NEW d \in Ids, file'[d] # Null
               PROVE  \/ row[d].path \/ d \in orphaned'
                      \/ \E v \in Workers : pend'[v][d] # Null /\ pend'[v][d].path
    BY <1>1 DEF FileHasOwner
  <2>1. CASE d # e
    BY <2>1, <1>5, <1>7 DEF FileInv, FileHasOwner
  <2>2. CASE d = e /\ ~old
    BY <2>2, <1>3, <1>4, <1>7
  <2>3. CASE d = e /\ old
    <3>1. file[e] # Null /\ (e \in orphaned' <=> e \in orphaned)  BY <2>3, <1>5
    <3>2. CASE r.path  BY <2>3, <3>2, <1>3, <1>4, <1>7
    <3>3. CASE ~r.path
      <4>1. ~row[e].path  BY <3>1, <3>3, <1>2
      <4>2. \A v \in Workers : v # w => pend[v][e] = Null  BY <1>1 DEF Unlocked
      <4>3. ~(pend[w][e] # Null /\ pend[w][e].path)  BY <3>3 DEF r, View
      <4> QED  BY <2>3, <3>1, <4>1, <4>2, <4>3 DEF FileInv, FileHasOwner
    <3> QED  BY <3>2, <3>3
  <2> QED  BY <2>1, <2>2, <2>3
<1> QED  BY <1>8, <1>9, <1>10 DEF FileInv

\* Files are removed, and known to be.
LEMMA PurgeReadFiles ==
  ASSUME ExportInv, FileInv, NEW w \in Workers, PurgeRead(w) PROVE FileInv'
<1> DEFINE K == {e \in {d \in expired : View(w, d).state \in Purged} : View(w, e).path}
<1>1. /\ known' = [known EXCEPT ![w] = K]
      /\ file' = Remaining(known'[w])
      /\ UNCHANGED <<row, pend, orphaned, raced>>
  BY DEF PurgeRead, records, history
<1> HIDE DEF K
<1>2. known \in [Workers -> SUBSET Ids]  BY DEF ExportInv, ExportTypeOK
<1>3. file' = [e \in Ids |-> IF e \in K THEN Null ELSE file[e]]
  BY <1>1, <1>2 DEF Remaining
<1>4. FileHasOwner' /\ PathsKnown'
  BY <1>1, <1>3 DEF FileInv, FileHasOwner, PathsKnown, PathKnown
<1>5. RemovedFirst'  BY <1>1, <1>2, <1>3 DEF FileInv, RemovedFirst
<1> QED  BY <1>4, <1>5 DEF FileInv

\* A purge drops the paths it has known; those it has not are raced.
LEMMA PurgeWriteFiles ==
  ASSUME ExportInv, FileInv, NEW w \in Workers, PurgeWrite(w) PROVE FileInv'
<1> DEFINE q(e) == [View(w, e) EXCEPT !.state = "expired", !.path = @ /\ e \notin known[w]]
           p == [e \in Ids |-> IF e \notin purging[w] THEN pend[w][e] ELSE q(e)]
           R == {e \in purging[w] \ known[w] : View(w, e).path}
<1>1. /\ \A e \in purging[w] : Unlocked(w, e)
      /\ pend' = [pend EXCEPT ![w] = p]
      /\ known' = [known EXCEPT ![w] = {}]
      /\ raced' = raced \cup R
      /\ UNCHANGED <<row, file, orphaned>>
  BY DEF PurgeWrite, records
<1>2. ExportTypeOK  BY DEF ExportInv
<1>3. ASSUME NEW e \in Ids
      PROVE  /\ q(e) \in ExportRows /\ q(e).state = "expired"
             /\ q(e).path <=> View(w, e).path /\ e \notin known[w]
  BY ViewHonest DEF ExportRows
<1>4. ASSUME NEW e \in purging[w], q(e).path PROVE e \in raced'
  BY <1>1, <1>2, <1>3, <1>4 DEF ExportTypeOK
<1>5. ASSUME NEW e \in Ids PROVE q(e) # Null
  BY <1>3, ExportAssumption
<1>6. \A e \in Ids : p[e] = IF e \notin purging[w] THEN pend[w][e] ELSE q(e)  OBVIOUS
<1>7. raced \subseteq raced'  BY <1>1
<1> HIDE DEF q, p, R
<1>8. pend'[w] = p /\ \A v \in Workers : v # w => pend'[v] = pend[v]
  BY <1>1, <1>2 DEF ExportTypeOK
<1>9. ASSUME NEW e \in purging[w], NEW v \in Workers, v # w PROVE pend[v][e] = Null
  BY <1>1, <1>9 DEF Unlocked
<1>10. PathsKnown'
  <2>1. \A e \in Ids : PathKnown(e, row[e])'
    BY <1>1, <1>7 DEF FileInv, PathsKnown, PathKnown
  <2>2. ASSUME NEW e \in Ids, NEW v \in Workers, pend'[v][e] # Null
        PROVE  PathKnown(e, pend[v][e])'
    <3>1. CASE v = w /\ e \in purging[w]
      BY <3>1, <1>3, <1>4, <1>6, <1>8 DEF PathKnown
    <3>2. CASE v # w \/ e \notin purging[w]
      <4>1. pend'[v][e] = pend[v][e]  BY <3>2, <1>6, <1>8
      <4> QED  BY <4>1, <2>2, <1>7 DEF FileInv, PathsKnown, PathKnown
    <3> QED  BY <3>1, <3>2
  <2> QED  BY <2>1, <2>2 DEF PathsKnown
<1>11. \A e \in Ids : e \in known[w] => file[e] = Null
  BY DEF FileInv, RemovedFirst
<1>12. RemovedFirst'
  <2> SUFFICES ASSUME NEW v \in Workers, NEW e \in Ids
               PROVE  /\ e \in known'[v] => file[e] = Null
                      /\ pend'[v][e] # Null /\ row[e].path /\ ~pend'[v][e].path => file[e] = Null
    BY <1>1 DEF RemovedFirst
  <2>1. e \in known'[v] => file[e] = Null
    BY <1>1, <1>2 DEF FileInv, RemovedFirst, ExportTypeOK
  <2>2. CASE v = w /\ e \in purging[w]
    <3>1. pend'[v][e] = q(e)  BY <2>2, <1>6, <1>8
    <3> QED  BY <2>1, <3>1, <1>3, <1>11, ViewPath
  <2>3. CASE v # w \/ e \notin purging[w]
    <3>1. pend'[v][e] = pend[v][e]  BY <2>3, <1>6, <1>8
    <3> QED  BY <2>1, <3>1 DEF FileInv, RemovedFirst
  <2> QED  BY <2>2, <2>3
<1>13. FileHasOwner'
  <2> SUFFICES ASSUME NEW e \in Ids, file[e] # Null
               PROVE  \/ row[e].path \/ e \in orphaned
                      \/ \E v \in Workers : pend'[v][e] # Null /\ pend'[v][e].path
    BY <1>1 DEF FileHasOwner
  <2>1. CASE row[e].path \/ e \in orphaned  BY <2>1
  <2>2. ASSUME NEW v \in Workers, pend[v][e] # Null, pend[v][e].path
        PROVE  pend'[v][e] # Null /\ pend'[v][e].path
    <3>1. CASE e \in purging[w]
      <4>1. v = w  BY <2>2, <3>1, <1>9
      <4>2. View(w, e).path /\ e \notin known[w]  BY <2>2, <4>1, <1>11 DEF View
      <4> QED  BY <3>1, <4>1, <4>2, <1>3, <1>5, <1>6, <1>8
    <3>2. CASE e \notin purging[w]  BY <2>2, <3>2, <1>6, <1>8
    <3> QED  BY <3>1, <3>2
  <2> QED  BY <2>1, <2>2 DEF FileInv, FileHasOwner
<1> QED  BY <1>10, <1>12, <1>13 DEF FileInv

\* An aborted purge has removed files and drops no path.
LEMMA PurgeAbortedFiles ==
  ASSUME ExportInv, FileInv, NEW w \in Workers, PurgeAborted(w) PROVE FileInv'
<1>1. known' = [known EXCEPT ![w] = {}] /\ UNCHANGED <<row, file, pend, orphaned, raced>>
  BY DEF PurgeAborted, records, history
<1>2. known \in [Workers -> SUBSET Ids]  BY DEF ExportInv, ExportTypeOK
<1> QED
  BY <1>1, <1>2 DEF FileInv, FileHasOwner, RemovedFirst, PathsKnown, PathKnown

\* A commit hands the paths of the iteration to the records.
LEMMA CommitIterationFiles ==
  ASSUME ExportInv, FileInv, NEW w \in Workers, CommitIteration(w) PROVE FileInv'
<1>1. /\ row' = [e \in Ids |-> View(w, e)]
      /\ pend' = [pend EXCEPT ![w] = [e \in Ids |-> Null]]
      /\ UNCHANGED <<file, known, orphaned, raced>>
  BY DEF CommitIteration, Closed, history
<1>2. /\ \A e \in Ids : pend'[w][e] = Null /\ row'[e] = View(w, e)
      /\ \A v \in Workers : v # w => pend'[v] = pend[v]
  BY <1>1 DEF ExportInv, ExportTypeOK
<1>3. ASSUME NEW e \in Ids, NEW v \in Workers, pend'[v][e] # Null
      PROVE  v # w /\ pend'[v][e] = pend[v][e] /\ row'[e] = row[e]
  <2>1. v # w /\ pend'[v][e] = pend[v][e]  BY <1>2, <1>3
  <2>2. pend[w][e] = Null  BY <1>3, <2>1 DEF ExportInv, OneWriter
  <2> QED  BY <1>2, <2>1, <2>2 DEF View
<1>4. PathsKnown'
  <2>1. \A e \in Ids : PathKnown(e, row[e])'  BY <1>1, <1>2, ViewPath DEF PathKnown
  <2>2. ASSUME NEW e \in Ids, NEW v \in Workers, pend'[v][e] # Null
        PROVE  PathKnown(e, pend[v][e])'
    BY <1>1, <1>3, <2>2 DEF FileInv, PathsKnown, PathKnown
  <2> QED  BY <2>1, <2>2 DEF PathsKnown
<1>5. RemovedFirst'  BY <1>1, <1>3 DEF FileInv, RemovedFirst
<1>6. FileHasOwner'
  <2> SUFFICES ASSUME NEW e \in Ids, file[e] # Null
               PROVE  \/ row'[e].path \/ e \in orphaned
                      \/ \E v \in Workers : pend'[v][e] # Null /\ pend'[v][e].path
    BY <1>1 DEF FileHasOwner
  <2>1. CASE row[e].path  BY <2>1, <1>2, ViewPath
  <2>2. ASSUME NEW v \in Workers, pend[v][e] # Null, pend[v][e].path
        PROVE  row'[e].path \/ (pend'[v][e] # Null /\ pend'[v][e].path)
    <3>1. CASE v = w  BY <2>2, <3>1, <1>2 DEF View
    <3>2. CASE v # w  BY <2>2, <3>2, <1>2
    <3> QED  BY <3>1, <3>2
  <2> QED  BY <2>1, <2>2 DEF FileInv, FileHasOwner
<1> QED  BY <1>4, <1>5, <1>6 DEF FileInv

\* A rollback leaves its files without a path.
LEMMA RollbackIterationFiles ==
  ASSUME ExportInv, FileInv, NEW w \in Workers, RollbackIteration(w) PROVE FileInv'
<1> DEFINE L == {e \in Ids : pend[w][e] # Null /\ pend[w][e].path /\ ~row[e].path}
<1>1. /\ pend' = [pend EXCEPT ![w] = [e \in Ids |-> Null]]
      /\ known' = [known EXCEPT ![w] = {}]
      /\ orphaned' = orphaned \cup L
      /\ UNCHANGED <<row, file, raced>>
  BY DEF RollbackIteration, Closed, records
<1>2. \A e \in Ids : pend[w][e] # Null /\ pend[w][e].path => row[e].path \/ e \in orphaned'
  BY <1>1
<1>3. orphaned \subseteq orphaned'  BY <1>1
<1> HIDE DEF L
<1>4. /\ \A e \in Ids : pend'[w][e] = Null
      /\ \A v \in Workers : v # w => pend'[v] = pend[v]
      /\ \A v \in Workers : known'[v] \subseteq known[v]
  BY <1>1 DEF ExportInv, ExportTypeOK
<1>5. PathsKnown' /\ RemovedFirst'
  BY <1>1, <1>4 DEF FileInv, PathsKnown, PathKnown, RemovedFirst
<1>6. FileHasOwner'
  BY <1>1, <1>2, <1>3, <1>4 DEF FileInv, FileHasOwner
<1> QED  BY <1>5, <1>6 DEF FileInv

\* Every step keeps files and paths together.
LEMMA FileNextInv ==
  ASSUME ExportInv, FileInv, [ExportNext]_exportVars PROVE FileInv'
<1>1. CASE UNCHANGED <<row, file, pend, known, orphaned, raced>>  BY <1>1, FilesUnchanged
<1>2. ASSUME \/ UNCHANGED exportVars
             \/ \E e \in Ids : DownloadBegin(e) \/ Expire(e)
             \/ DownloadEnd \/ DataChange
             \/ \E w \in Workers, e \in Ids : GenerateFails(w, e)
      PROVE  UNCHANGED <<row, file, pend, known, orphaned, raced>>
  BY <1>2
  DEF exportVars, records, open, history, DownloadBegin, Expire, DownloadEnd, DataChange,
      GenerateFails
<1> QED
  BY <1>1, <1>2, RequestFiles, GenerateFiles, PurgeReadFiles, PurgeWriteFiles, PurgeAbortedFiles,
     CommitIterationFiles, RollbackIterationFiles
  DEF ExportNext

\* The safety behind FilesAreRemoved: no expired record has a file left, with
\* the two exceptions that property names.
THEOREM ExpiredFilesAreGone == ExportSpec => []ExpiredHasNoFile
<1>1. ExportInv /\ FileInv => ExpiredHasNoFile
  <2> SUFFICES ASSUME ExportInv, FileInv, NEW e \in Ids, row[e].state = "expired", file[e] # Null,
                      e \notin orphaned
               PROVE  e \in raced
    BY DEF ExpiredHasNoFile
  <2>1. CASE row[e].path  BY <2>1 DEF FileInv, PathsKnown, PathKnown
  <2>2. ASSUME NEW w \in Workers, pend[w][e] # Null, pend[w][e].path PROVE e \in raced
    <3>1. pend[w][e].state = "expired"
      BY <2>2 DEF ExportInv, HonestIterations, Follows, Finished
    <3> QED  BY <2>2, <3>1 DEF FileInv, PathsKnown, PathKnown
  <2> QED  BY <2>1, <2>2 DEF FileInv, FileHasOwner
<1>2. ExportInv /\ FileInv /\ [ExportNext]_exportVars => FileInv'  BY FileNextInv
<1> QED  BY <1>1, <1>2, FileInvInit, ExportInvariant, PTL DEF ExportSpec

-----------------------------------------------------------------------------
\* A record and its job are inserted together; the job is completed in the
\* iteration that finishes the record.
JobTypeOK ==
  /\ exportJob \in [Ids -> {"absent", "queued", "completed", "failed"}]
  /\ result \in [Workers -> [Ids -> {"none", "completed", "failed"}]]

JobOfRecord ==
  \A e \in Ids :
    /\ row[e].state = "absent" <=> exportJob[e] = "absent"
    /\ e \in expired => row[e].state # "absent"
    /\ exportJob[e] = "completed" => row[e].state \in Finished

ResultOfIteration ==
  \A w \in Workers : \A e \in Ids :
    /\ pend[w][e] # Null => row[e].state # "absent" /\ pend[w][e].state # "absent"
    /\ result[w][e] # "none" => exportJob[e] = "queued"
    /\ result[w][e] = "completed" => pend[w][e] # Null /\ pend[w][e].state \in Finished
    /\ \A v \in Workers : v # w => result[v][e] = "none" \/ result[w][e] = "none"

ExportJobInv == JobTypeOK /\ JobOfRecord /\ ResultOfIteration

\* A record that is still queued has a job that will be tried, or was given up.
QueuedHasJob == \A e \in Ids : row[e].state = "queued" => exportJob[e] \in {"queued", "failed"}

\* There are no jobs at first.
LEMMA ExportJobInvInit == ExportInit => ExportJobInv
BY DEF ExportInit, ExportJobInv, JobTypeOK, JobOfRecord, ResultOfIteration, Row, Finished

\* A step that leaves the records and the iterations alone; an export may
\* expire.
LEMMA JobsUnchanged ==
  ASSUME ExportJobInv, UNCHANGED <<row, exportJob, pend, result>>,
         \A e \in Ids : e \in expired' => e \in expired \/ row[e].state # "absent"
  PROVE  ExportJobInv'
BY DEF ExportJobInv, JobTypeOK, JobOfRecord, ResultOfIteration

\* A record comes with its job.
LEMMA RequestJobs == ASSUME ExportInv, ExportJobInv, NEW e \in Ids, Request(e) PROVE ExportJobInv'
<1>1. /\ row[e].state = "absent" /\ row' = [row EXCEPT ![e].state = "queued"]
      /\ exportJob' = [exportJob EXCEPT ![e] = "queued"]
      /\ UNCHANGED <<expired, pend, result>>
  BY DEF Request, open
<1>2. row \in [Ids -> ExportRows] /\ JobTypeOK  BY DEF ExportInv, ExportTypeOK, ExportJobInv
<1>3. row'[e].state = "queued" /\ \A d \in Ids \ {e} : row'[d] = row[d]
  BY <1>1, <1>2 DEF ExportRows
<1>4. exportJob'[e] = "queued" /\ \A d \in Ids \ {e} : exportJob'[d] = exportJob[d]
  BY <1>1, <1>2 DEF JobTypeOK
<1>5. JobTypeOK'  BY <1>1, <1>2 DEF JobTypeOK
<1>6. JobOfRecord'  BY <1>1, <1>3, <1>4 DEF ExportJobInv, JobOfRecord
<1>7. ResultOfIteration'  BY <1>1, <1>3, <1>4 DEF ExportJobInv, ResultOfIteration
<1> QED  BY <1>5, <1>6, <1>7 DEF ExportJobInv

\* The handler that succeeds has finished its record.
LEMMA GenerateJobs ==
  ASSUME ExportInv, ExportJobInv, NEW w \in Workers, NEW e \in Ids, Generate(w, e)
  PROVE  ExportJobInv'
<1> DEFINE r == View(w, e)
           old == r.state = "completed" \/ e \in expired
           q == IF old THEN IF r.state = "completed" THEN r ELSE [r EXCEPT !.state = "expired"]
                ELSE Row("completed", TRUE, data)
<1>1. /\ exportJob[e] = "queued" /\ \A v \in Workers : result[v][e] = "none"
      /\ pend' = [pend EXCEPT ![w][e] = q]
      /\ result' = [result EXCEPT ![w][e] = "completed"]
      /\ UNCHANGED <<row, expired, exportJob>>
  BY DEF Generate, Claimable, TooLate, records
<1>2. ExportTypeOK /\ r \in ExportRows /\ JobTypeOK
  BY ViewHonest DEF ExportInv, ExportJobInv
<1>3. q \in ExportRows /\ q.state \in Finished
  BY <1>2 DEF ExportRows, Row, Finished, ExportTypeOK
<1>4. q # Null /\ q.state # "absent"  BY <1>3, ExportAssumption DEF Finished
<1> HIDE DEF r, old, q
<1>5. /\ pend'[w][e] = q /\ result'[w][e] = "completed"
      /\ \A v \in Workers : \A d \in Ids : v # w \/ d # e =>
           pend'[v][d] = pend[v][d] /\ result'[v][d] = result[v][d]
  BY <1>1, <1>2 DEF ExportTypeOK, JobTypeOK
<1>6. JobTypeOK'  BY <1>1, <1>2 DEF JobTypeOK
<1>7. JobOfRecord'  BY <1>1 DEF ExportJobInv, JobOfRecord
<1>8. row[e].state # "absent"  BY <1>1 DEF ExportJobInv, JobOfRecord
<1>9. ResultOfIteration'
  BY <1>1, <1>3, <1>4, <1>5, <1>8 DEF ExportJobInv, ResultOfIteration
<1> QED  BY <1>6, <1>7, <1>9 DEF ExportJobInv

\* The handler that fails has finished nothing.
LEMMA GenerateFailsJobs ==
  ASSUME ExportInv, ExportJobInv, NEW w \in Workers, NEW e \in Ids, GenerateFails(w, e)
  PROVE  ExportJobInv'
<1>1. /\ exportJob[e] = "queued" /\ \A v \in Workers : result[v][e] = "none"
      /\ result' = [result EXCEPT ![w][e] = "failed"]
      /\ UNCHANGED <<row, expired, exportJob, pend>>
  BY DEF GenerateFails, Claimable, records
<1>2. JobTypeOK  BY DEF ExportJobInv
<1>3. /\ result'[w][e] = "failed"
      /\ \A v \in Workers : \A d \in Ids : v # w \/ d # e => result'[v][d] = result[v][d]
  BY <1>1, <1>2 DEF JobTypeOK
<1>4. JobTypeOK'  BY <1>1, <1>2 DEF JobTypeOK
<1>5. JobOfRecord'  BY <1>1 DEF ExportJobInv, JobOfRecord
<1>6. ResultOfIteration'  BY <1>1, <1>3 DEF ExportJobInv, ResultOfIteration
<1> QED  BY <1>4, <1>5, <1>6 DEF ExportJobInv

\* An expired record is finished.
LEMMA PurgeWriteJobs ==
  ASSUME ExportInv, ExportJobInv, NEW w \in Workers, PurgeWrite(w) PROVE ExportJobInv'
<1> DEFINE q(e) == [View(w, e) EXCEPT !.state = "expired", !.path = @ /\ e \notin known[w]]
           p == [e \in Ids |-> IF e \notin purging[w] THEN pend[w][e] ELSE q(e)]
<1>1. pend' = [pend EXCEPT ![w] = p] /\ UNCHANGED <<row, expired, exportJob, result>>
  BY DEF PurgeWrite, records
<1>2. ExportTypeOK /\ purging[w] \subseteq expired  BY DEF ExportInv, PurgesExpired
<1>3. ASSUME NEW e \in Ids PROVE q(e) \in ExportRows /\ q(e).state = "expired"
  BY ViewHonest DEF ExportRows
<1>4. ASSUME NEW e \in Ids PROVE q(e) # Null /\ q(e).state \in Finished /\ q(e).state # "absent"
  BY <1>3, ExportAssumption DEF Finished
<1>5. \A e \in Ids : p[e] = IF e \notin purging[w] THEN pend[w][e] ELSE q(e)  OBVIOUS
<1> HIDE DEF q, p
<1>6. pend'[w] = p /\ \A v \in Workers : v # w => pend'[v] = pend[v]
  BY <1>1, <1>2 DEF ExportTypeOK
<1>7. JobTypeOK' /\ JobOfRecord'  BY <1>1 DEF ExportJobInv, JobTypeOK, JobOfRecord
<1>8. ResultOfIteration'
  <2> SUFFICES ASSUME NEW v \in Workers, NEW e \in Ids
               PROVE  /\ pend'[v][e] # Null => row[e].state # "absent" /\ pend'[v][e].state # "absent"
                      /\ result[v][e] = "completed" =>
                           pend'[v][e] # Null /\ pend'[v][e].state \in Finished
    BY <1>1 DEF ExportJobInv, ResultOfIteration
  <2>1. CASE v = w /\ e \in purging[w]
    BY <2>1, <1>2, <1>4, <1>5, <1>6 DEF ExportJobInv, JobOfRecord
  <2>2. CASE v # w \/ e \notin purging[w]
    <3>1. pend'[v][e] = pend[v][e]  BY <2>2, <1>5, <1>6
    <3> QED  BY <3>1 DEF ExportJobInv, ResultOfIteration
  <2> QED  BY <2>1, <2>2
<1> QED  BY <1>7, <1>8 DEF ExportJobInv

\* An iteration that ends has neither rows nor results.
LEMMA ClosedIteration ==
  ASSUME ExportInv, ExportJobInv, NEW w \in Workers, Closed(w)
  PROVE  /\ \A e \in Ids : pend'[w][e] = Null /\ result'[w][e] = "none"
         /\ \A v \in Workers : v # w => pend'[v] = pend[v] /\ result'[v] = result[v]
         /\ result' \in [Workers -> [Ids -> {"none", "completed", "failed"}]]
BY DEF Closed, ExportInv, ExportTypeOK, ExportJobInv, JobTypeOK

\* Result and record are committed together.
LEMMA CommitIterationJobs ==
  ASSUME ExportInv, ExportJobInv, NEW w \in Workers, CommitIteration(w) PROVE ExportJobInv'
<1> DEFINE after(e) == IF exportAttempts'[e] >= MaxExportAttempts THEN "failed" ELSE "queued"
<1>1. /\ row' = [e \in Ids |-> View(w, e)]
      /\ exportJob' = [e \in Ids |->
           CASE result[w][e] = "none" -> exportJob[e]
             [] result[w][e] = "completed" -> "completed"
             [] OTHER -> after(e)]
      /\ Closed(w) /\ UNCHANGED expired
  BY DEF CommitIteration
<1>2. \A e \in Ids : after(e) \in {"queued", "failed"}  OBVIOUS
<1> HIDE DEF after
<1>3. JobTypeOK  BY DEF ExportJobInv
<1>4. \A e \in Ids : /\ result[w][e] \in {"none", "completed", "failed"}
                     /\ result[w][e] = "none" => exportJob'[e] = exportJob[e]
                     /\ result[w][e] = "completed" => exportJob'[e] = "completed"
                     /\ result[w][e] = "failed" => exportJob'[e] \in {"queued", "failed"}
  BY <1>1, <1>2, <1>3 DEF JobTypeOK
<1>5. JobTypeOK'
  <2>1. \A e \in Ids : exportJob'[e] \in {"absent", "queued", "completed", "failed"}
    BY <1>3, <1>4 DEF JobTypeOK
  <2> QED  BY <1>1, <2>1, ClosedIteration DEF JobTypeOK
<1>6. ASSUME NEW e \in Ids
      PROVE  /\ row'[e].state = "absent" <=> row[e].state = "absent"
             /\ row[e].state \in Finished => row'[e].state \in Finished
             /\ result[w][e] = "completed" => row'[e].state \in Finished
  <2>1. CASE pend[w][e] = Null
    BY <1>1, <2>1 DEF View, ExportJobInv, ResultOfIteration
  <2>2. CASE pend[w][e] # Null
    <3>1. row'[e] = pend[w][e]  BY <1>1, <2>2 DEF View
    <3>2. Follows(row[e], pend[w][e])  BY <2>2 DEF ExportInv, HonestIterations
    <3>3. row[e].state # "absent" /\ pend[w][e].state # "absent"
      BY <2>2 DEF ExportJobInv, ResultOfIteration
    <3> QED  BY <3>1, <3>2, <3>3 DEF Follows, Finished, ExportJobInv, ResultOfIteration
  <2> QED  BY <2>1, <2>2
<1>7. JobOfRecord'
  BY <1>1, <1>4, <1>6 DEF ExportJobInv, JobOfRecord, ResultOfIteration
<1>8. ASSUME NEW v \in Workers, NEW e \in Ids
      PROVE  /\ pend'[v][e] # Null => row'[e].state # "absent" /\ pend'[v][e].state # "absent"
             /\ result'[v][e] # "none" => exportJob'[e] = "queued"
             /\ result'[v][e] = "completed" => pend'[v][e] # Null /\ pend'[v][e].state \in Finished
  <2>1. CASE v = w  BY <1>1, <2>1, ClosedIteration
  <2>2. CASE v # w
    <3>1. pend'[v][e] = pend[v][e] /\ result'[v][e] = result[v][e]
      BY <1>1, <2>2, ClosedIteration
    <3>2. result[v][e] # "none" => exportJob'[e] = "queued"
      BY <1>4, <2>2 DEF ExportJobInv, ResultOfIteration
    <3> QED  BY <3>1, <3>2, <1>6 DEF ExportJobInv, ResultOfIteration
  <2> QED  BY <2>1, <2>2
<1>9. ASSUME NEW u \in Workers, NEW v \in Workers, u # v, NEW e \in Ids
      PROVE  result'[u][e] = "none" \/ result'[v][e] = "none"
  BY <1>1, <1>9, ClosedIteration DEF ExportJobInv, ResultOfIteration
<1>10. ResultOfIteration'  BY <1>8, <1>9 DEF ResultOfIteration
<1> QED  BY <1>5, <1>7, <1>10 DEF ExportJobInv

\* Result and record are lost together.
LEMMA RollbackIterationJobs ==
  ASSUME ExportInv, ExportJobInv, NEW w \in Workers, RollbackIteration(w) PROVE ExportJobInv'
<1>1. Closed(w) /\ UNCHANGED <<row, expired, exportJob>>
  BY DEF RollbackIteration, records
<1>2. JobTypeOK' /\ JobOfRecord'
  BY <1>1, ClosedIteration DEF ExportJobInv, JobTypeOK, JobOfRecord
<1>3. ResultOfIteration'
  BY <1>1, ClosedIteration DEF ExportJobInv, ResultOfIteration
<1> QED  BY <1>2, <1>3 DEF ExportJobInv

\* Every step keeps records and jobs together.
LEMMA ExportJobNextInv ==
  ASSUME ExportInv, ExportJobInv, [ExportNext]_exportVars PROVE ExportJobInv'
<1>1. ASSUME NEW e \in Ids, Expire(e) PROVE ExportJobInv'
  BY <1>1, JobsUnchanged DEF Expire, open
<1>2. ASSUME \/ UNCHANGED exportVars
             \/ \E e \in Ids : DownloadBegin(e)
             \/ DownloadEnd \/ DataChange
             \/ \E w \in Workers : PurgeRead(w) \/ PurgeAborted(w)
      PROVE  UNCHANGED <<row, expired, exportJob, pend, result>>
  BY <1>2
  DEF exportVars, records, open, history, DownloadBegin, DownloadEnd, DataChange, PurgeRead,
      PurgeAborted
<1>3. CASE UNCHANGED <<row, expired, exportJob, pend, result>>  BY <1>3, JobsUnchanged
<1> QED
  BY <1>1, <1>2, <1>3, RequestJobs, GenerateJobs, GenerateFailsJobs, PurgeWriteJobs,
     CommitIterationJobs, RollbackIterationJobs
  DEF ExportNext

\* The safety behind RequestSettles: no queued record is forgotten by its job,
\* whatever purges and rollbacks come between.
THEOREM QueuedExportsHaveJobs == ExportSpec => []QueuedHasJob
<1>1. ExportInv /\ ExportJobInv => QueuedHasJob
  BY DEF ExportJobInv, JobTypeOK, JobOfRecord, QueuedHasJob, Finished
<1>2. ExportInv /\ ExportJobInv /\ [ExportNext]_exportVars => ExportJobInv'  BY ExportJobNextInv
<1> QED  BY <1>1, <1>2, ExportJobInvInit, ExportInvariant, PTL DEF ExportSpec
=============================================================================
