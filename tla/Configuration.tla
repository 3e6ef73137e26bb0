--------------------------- MODULE Configuration ---------------------------
(***************************************************************************)
(* Provider configuration, the choice of the embedding model and what the  *)
(* choice does to the search index: backend/src/kajovodagmar/providers,    *)
(* settings/service.py, their API and the index jobs of worker.py.         *)
(*                                                                         *)
(* A request is one transaction.  tx[r] says what it has locked, read and  *)
(* decided; its changes become visible when it commits.  Row locks are     *)
(* held to the end, so verify keeps the provider's row while it waits for  *)
(* the answer of the provider.                                             *)
(***************************************************************************)
EXTENDS Integers, Sequences

CONSTANTS
  Requests,    \* requests of the administrator
  Models,      \* embedding models providers offer
  Docs,        \* search documents with a text
  None,        \* no key, transaction or model
  Empty,       \* the setting's value when no model is chosen
  MaxVersion,  \* bound: versions of the provider's row
  MaxChanges   \* bound: versions of the setting

ASSUME ConstantsAssumption ==
  /\ MaxVersion \in Nat \ {0} /\ MaxChanges \in Nat \ {0}
  /\ Models # {} /\ None \notin Models \cup Int \cup {Empty} /\ Empty \notin Models

VARIABLES
  provider,   \* committed row: config, key, version, verified, enabled
  live,       \* keys that are stored and not revoked
  keys,       \* keys stored so far
  catalog,    \* models that are available
  setting,    \* committed value and version of models.embedding_model
  revisions,  \* revisions[n]: the value of version n
  docs,       \* docs[d]: "absent", "fresh" or "stale", and the model of its vector
  reindex,    \* a job search_reindex_all waits
  tx,         \* open transaction of a request
  index,      \* open index job: kind, documents, those it creates, models it has read
  passed,     \* history: configurations and keys a provider has accepted
  missed      \* history: documents a change of the model has not marked

configuration == <<provider, live, keys, catalog, setting, revisions>>
vars          == <<configuration, docs, reindex, tx, index, passed, missed>>

\* The instance after its first provider was saved, which chose a model.
Init ==
  /\ provider = [config |-> 1, key |-> 1, version |-> 1, verified |-> TRUE, enabled |-> TRUE]
  /\ live = {1} /\ keys = 1
  /\ catalog = Models
  /\ \E m \in Models : setting = [value |-> m, version |-> 1] /\ revisions = <<m>>
  /\ docs = [d \in Docs |-> [state |-> "absent", model |-> None]]
  /\ reindex = FALSE
  /\ tx = [r \in Requests |-> None]
  /\ index = None
  /\ passed = {<<1, 1>>}
  /\ missed = {}

Tx(kind, step, locks) ==
  [kind |-> kind, step |-> step, locks |-> locks, key |-> None, offers |-> {},
   base |-> IF kind \in {"save", "verify", "revoke"} THEN provider ELSE None,
   value |-> None, staled |-> {}]

Free(row) == \A r \in Requests : tx[r] # None => row \notin tx[r].locks

Present == {d \in Docs : docs[d].state # "absent"}

\* Mutant: the document is read without FOR UPDATE.
DocLocksNone == {}

\* Documents the open index job has locked.
DocLocks == IF index = None THEN {} ELSE index.docs \ index.new

Begin(r, t) ==
  /\ tx[r] = None
  /\ tx' = [tx EXCEPT ![r] = t]
  /\ UNCHANGED <<configuration, docs, reindex, index, missed>>

-----------------------------------------------------------------------------
(***************************************************************************)
(* Providers                                                               *)
(***************************************************************************)

\* Mutant: save reads the row without a lock.
SaveLocksNone == {}

SaveLocks == {"provider"}

\* save with the version of the row, with a new key or the stored one; the
\* API goes on with verify in the same transaction.
SaveBegin(r, replace) ==
  /\ Free("provider") /\ provider.version < MaxVersion
  /\ replace \/ provider.key # None
  /\ Begin(r, [Tx("save", "calling", SaveLocks) EXCEPT
                 !.key = IF replace THEN keys + 1 ELSE provider.key])
  /\ UNCHANGED passed

\* Mutant: verify reads the row without a lock.
VerifyLocksNone == {}

VerifyLocks == {"provider"}

VerifyBegin(r) ==
  /\ Free("provider")
  /\ provider.key # None
  /\ Begin(r, [Tx("verify", "calling", VerifyLocks) EXCEPT !.key = provider.key])
  /\ UNCHANGED passed

Config(t) == IF t.kind = "save" THEN t.base.version + 1 ELSE t.base.config

\* The provider has answered with its models, among them the embedding
\* models S; the others are marked unavailable.
CatalogAnswers(r, S) ==
  /\ tx[r] # None /\ tx[r].step = "calling"
  /\ tx' = [tx EXCEPT ![r].step = "applying", ![r].offers = S]
  /\ passed' = passed \cup {<<Config(tx[r]), tx[r].key>>}
  /\ UNCHANGED <<configuration, docs, reindex, index, missed>>

\* The call fails or the catalog is empty: everything is rolled back.
CatalogFails(r) ==
  /\ tx[r] # None /\ tx[r].step = "calling"
  /\ tx' = [tx EXCEPT ![r] = None]
  /\ UNCHANGED <<configuration, docs, reindex, index, passed, missed>>

\* apply_recommended as a request of its own.
RecommendBegin(r) ==
  /\ Begin(r, [Tx("recommend", "applying", {}) EXCEPT !.offers = catalog])
  /\ UNCHANGED passed

\* apply_recommended: _set_setting with the model recommended for the role,
\* if the provider offers one.
ApplyRecommended(r) ==
  /\ tx[r] # None /\ tx[r].step = "applying"
  /\ \/ /\ tx[r].offers = {}
        /\ tx' = [tx EXCEPT ![r].step = "done"]
     \/ /\ Free("setting") /\ setting.version < MaxChanges
        /\ \E m \in tx[r].offers :
             tx' = [tx EXCEPT ![r].step = "done", ![r].value = m,
                              ![r].locks = @ \cup {"setting"}]
  /\ UNCHANGED <<configuration, docs, reindex, index, passed, missed>>

RevokeBegin(r) ==
  /\ Free("provider") /\ provider.version < MaxVersion
  /\ Begin(r, Tx("revoke", "done", {"provider"}))
  /\ UNCHANGED passed

-----------------------------------------------------------------------------
(***************************************************************************)
(* Settings                                                                *)
(***************************************************************************)

\* _validate_model_selection, read without a lock.
Selectable(m) == m \in catalog /\ provider.verified /\ provider.enabled

\* update_area with the version of the row.  The empty choice is not
\* validated.  A value that is chosen again is a new version and leaves the
\* index alone.
UpdateBegin(r, m) ==
  /\ m = Empty \/ Selectable(m)
  /\ Free("setting") /\ setting.version < MaxChanges
  /\ Begin(r, [Tx("update", IF m = setting.value THEN "done" ELSE "staling", {"setting"})
                 EXCEPT !.value = m])
  /\ UNCHANGED passed

\* restore_revision, which validates every value and so refuses an empty one.
RestoreBegin(r, n) ==
  /\ n \in DOMAIN revisions /\ Selectable(revisions[n])
  /\ Free("setting") /\ setting.version < MaxChanges
  /\ Begin(r, [Tx("restore", "staling", {"setting"}) EXCEPT !.value = revisions[n]])
  /\ UNCHANGED passed

\* Every document that exists is marked; the update waits for its row.
MarkStale(r) ==
  /\ tx[r] # None /\ tx[r].step = "staling"
  /\ Present \cap DocLocks = {}
  /\ tx' = [tx EXCEPT ![r].step = "done", ![r].staled = Present]
  /\ UNCHANGED <<configuration, docs, reindex, index, passed, missed>>

-----------------------------------------------------------------------------
(***************************************************************************)
(* Commit of a request                                                     *)
(***************************************************************************)

\* The columns each operation writes.
ProviderAfter(t) ==
  CASE t.kind = "save" ->
         [config |-> Config(t), key |-> t.key, version |-> t.base.version + 1,
          verified |-> TRUE, enabled |-> TRUE]
    [] t.kind = "verify" -> [provider EXCEPT !.verified = TRUE, !.enabled = TRUE]
    [] t.kind = "revoke" ->
         [provider EXCEPT !.key = None, !.version = t.base.version + 1,
                          !.verified = FALSE, !.enabled = FALSE]
    [] OTHER -> provider

\* A key that is replaced or revoked is marked revoked.
LiveAfter(t) ==
  CASE t.kind = "save" -> (live \ ({t.base.key} \ {t.key})) \cup {t.key}
    [] t.kind = "revoke" -> live \ {t.base.key}
    [] OTHER -> live

\* The vectors in use or in the making that stay unmarked: those that exist
\* when apply_recommended changes the model, and those of documents an index
\* job is creating when an update does (or creates before it commits).
Missed(t) ==
  LET creating == IF index = None THEN {} ELSE index.new IN
  IF t.value \in {None, setting.value} THEN {}
  ELSE IF t.kind \in {"update", "restore"} THEN creating
  ELSE {d \in Docs : docs[d].state = "fresh"} \cup creating \cup DocLocks

Commit(r) ==
  LET t == tx[r] IN
  /\ t # None /\ t.step = "done"
  /\ provider' = ProviderAfter(t)
  /\ live' = LiveAfter(t)
  /\ keys' = IF t.kind = "save" /\ t.key > keys THEN t.key ELSE keys
  /\ catalog' = IF t.kind \in {"save", "verify"} THEN t.offers ELSE catalog
  /\ IF t.value = None
       THEN UNCHANGED <<setting, revisions>>
       ELSE /\ setting' = [value |-> t.value, version |-> setting.version + 1]
            /\ revisions' = Append(revisions, t.value)
  /\ docs' = [d \in Docs |-> IF d \in t.staled THEN [docs[d] EXCEPT !.state = "stale"]
                             ELSE docs[d]]
  /\ reindex' = (\/ reindex
                 \/ t.kind = "restore"
                 \/ t.kind = "update" /\ t.value # setting.value)
  /\ missed' = missed \cup Missed(t)
  /\ tx' = [tx EXCEPT ![r] = None]
  /\ UNCHANGED <<index, passed>>

-----------------------------------------------------------------------------
(***************************************************************************)
(* Index jobs of the worker                                                *)
(***************************************************************************)

Staling == UNION {tx[r].staled : r \in {q \in Requests : tx[q] # None}}

Job(kind, D, N) == [kind |-> kind, docs |-> D, new |-> N, read |-> [d \in D |-> None]]

\* memory_index or conversation_index of one document, after its row could be
\* locked.
IndexBegin(d) ==
  /\ index = None
  /\ d \notin Staling
  /\ index' = Job("one", {d}, {d} \ Present)
  /\ UNCHANGED <<configuration, docs, reindex, tx, passed, missed>>

\* search_reindex_all: the stale documents nobody else has locked.
ReindexBegin ==
  /\ index = None /\ reindex
  /\ reindex' = FALSE
  /\ index' = Job("all", {d \in Docs : docs[d].state = "stale"} \ Staling, {})
  /\ UNCHANGED <<configuration, docs, tx, passed, missed>>

\* The setting is read after the lock; resolve_model refuses a model that is
\* not available, and is not asked when none is chosen.
IndexRead(d) ==
  /\ index # None /\ d \in index.docs /\ index.read[d] = None
  /\ setting.value = Empty \/ Selectable(setting.value)
  /\ index' = [index EXCEPT !.read[d] = setting.value]
  /\ UNCHANGED <<configuration, docs, reindex, tx, passed, missed>>

\* A change of the model has marked the documents and not yet committed.
ChangeMarked ==
  \E r \in Requests : /\ tx[r] # None /\ tx[r].kind \in {"update", "restore"}
                      /\ tx[r].step = "done" /\ tx[r].value # setting.value

\* Without a chosen model a document gets no vector and keeps what it had.
Indexed(d) ==
  [state |-> "fresh",
   model |-> IF index.read[d] = Empty THEN docs[d].model ELSE index.read[d]]

IndexCommit ==
  /\ index # None
  /\ \A d \in index.docs : index.read[d] # None
  /\ docs' = [d \in Docs |-> IF d \in index.docs THEN Indexed(d) ELSE docs[d]]
  /\ missed' = IF ChangeMarked THEN missed \cup index.new
               ELSE missed \ {d \in index.docs : index.read[d] = setting.value}
  /\ index' = None
  /\ UNCHANGED <<configuration, reindex, tx, passed>>

\* The job fails: its documents are as before, a reindex is tried again or
\* given up.
IndexFails ==
  /\ index # None
  /\ index' = None
  /\ reindex' \in {reindex, reindex \/ index.kind = "all"}
  /\ UNCHANGED <<configuration, docs, tx, passed, missed>>

Next ==
  \/ \E r \in Requests, replace \in BOOLEAN : SaveBegin(r, replace)
  \/ \E r \in Requests : VerifyBegin(r)
  \/ \E r \in Requests, S \in SUBSET Models : CatalogAnswers(r, S)
  \/ \E r \in Requests : CatalogFails(r)
  \/ \E r \in Requests : RecommendBegin(r)
  \/ \E r \in Requests : ApplyRecommended(r)
  \/ \E r \in Requests : RevokeBegin(r)
  \/ \E r \in Requests, m \in Models \cup {Empty} : UpdateBegin(r, m)
  \/ \E r \in Requests, n \in 1..MaxChanges : RestoreBegin(r, n)
  \/ \E r \in Requests : MarkStale(r)
  \/ \E r \in Requests : Commit(r)
  \/ \E d \in Docs : IndexBegin(d)
  \/ ReindexBegin
  \/ \E d \in Docs : IndexRead(d)
  \/ IndexCommit
  \/ IndexFails

Spec == Init /\ [][Next]_vars

-----------------------------------------------------------------------------
(***************************************************************************)
(* Properties                                                              *)
(***************************************************************************)

\* A provider is verified only with the address and the key that it has
\* accepted, and the key is not revoked: an answer that comes late does not
\* verify what was saved or revoked while verify waited for it.
VerifiedIsUsable ==
  provider.verified => /\ provider.enabled
                       /\ provider.key \in live
                       /\ <<provider.config, provider.key>> \in passed

\* The key of the row is the only one that is not revoked: of two saves at
\* the same time none leaves its key behind.
OneLiveKey == live = {provider.key} \ {None}

\* The vector of a document that is not stale is of the chosen model, so that
\* a search by meaning finds it: an index job that was open while the model
\* was changed is overtaken by the mark, also if there was no chosen model in
\* between.  missed names the exceptions.
FreshIsOfChosenModel ==
  \A d \in Docs \ missed :
    docs[d].state = "fresh" => setting.value \in {docs[d].model, Empty}
=============================================================================
