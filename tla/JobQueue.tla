------------------------------ MODULE JobQueue ------------------------------
(***************************************************************************)
(* The background worker: backend/src/kajovodagmar/worker.py on top of     *)
(* jobs/service.py.                                                        *)
(*                                                                         *)
(* One iteration of Worker.run is ONE database transaction: it turns       *)
(* waiting outbox events into jobs, claims jobs with FOR UPDATE SKIP       *)
(* LOCKED, runs every handler inside a savepoint, records each result and  *)
(* commits.  events, job, attempts and backoff are the committed rows; the *)
(* other variables belong to the open iteration of a worker and are lost   *)
(* when its process dies.                                                  *)
(***************************************************************************)
EXTENDS Integers, FiniteSets

CONSTANTS
  Workers,       \* worker processes
  Events,        \* outbox events
  Jobs,          \* identities of background jobs
  JobsOf,        \* JobsOf[e]: the jobs dispatch_outbox creates for event e
  Follows,       \* Follows[j]: the jobs the handler of j enqueues
  Purges,        \* jobs of the hourly maintenance
  None,          \* no job
  MaxAttempts,   \* BackgroundJob.max_attempts
  DispatchLimit, \* events of one iteration
  ClaimLimit,    \* jobs of one iteration
  MaxCrashes     \* bound: process deaths

\* What dispatch_outbox creates for the events E and the handlers of J enqueue.
Dispatched(E) == UNION {JobsOf[e] : e \in E}
Enqueued(J)   == UNION {Follows[j] : j \in J}

\* The jobs nothing else creates are enqueued by requests of the web process.
Requested == Jobs \ (Purges \cup Dispatched(Events) \cup Enqueued(Jobs))

ASSUME ConstantsAssumption ==
  /\ JobsOf \in [Events -> SUBSET Jobs]
  /\ Follows \in [Jobs -> SUBSET Jobs]
  /\ Purges \subseteq Jobs
  /\ \A e, f \in Events : e # f => JobsOf[e] \cap JobsOf[f] = {}
  /\ \A e \in Events, j \in Jobs : JobsOf[e] \cap (Follows[j] \cup Purges) = {}
  /\ \A i, j \in Jobs : i # j => Follows[i] \cap Follows[j] = {}
  /\ \A j \in Jobs : j \notin Follows[j] /\ Follows[j] \cap Purges = {}
  /\ None \notin Jobs
  /\ MaxAttempts \in Nat \ {0}
  /\ DispatchLimit \in Nat \ {0}
  /\ ClaimLimit \in Nat \ {0}
  /\ MaxCrashes \in Nat

VARIABLES
  events,    \* "absent", "waiting" (published_at is null) or "published"
  job,       \* BackgroundJob.state, "absent" before the row exists
  attempts,  \* BackgroundJob.attempts
  backoff,   \* jobs whose available_at lies in the future
  due,       \* workers whose last maintenance is an hour ago
  phase,     \* "idle" or "working": between iterations or inside one
  taken,     \* events the iteration has locked and dispatched
  minted,    \* maintenance jobs the iteration has enqueued
  held,      \* jobs the iteration has locked and marked running
  left,      \* held jobs whose handler has not started
  handling,  \* the job whose handler is running
  done,      \* held jobs whose handler has succeeded
  inserted,  \* history: rows committed under the identity of a job
  started,   \* history: how often the handler of a job was started
  crashes    \* history: process deaths

rows      == <<events, job, attempts, backoff>>
iteration == <<phase, taken, minted, held, left, handling, done>>
history   == <<inserted, started>>
vars      == <<rows, due, iteration, history, crashes>>

Settled == {"completed", "failed"}

Init ==
  /\ events = [e \in Events |-> "absent"]
  /\ job = [j \in Jobs |-> "absent"]
  /\ attempts = [j \in Jobs |-> 0]
  /\ backoff = {}
  /\ due = {}
  /\ phase = [w \in Workers |-> "idle"]
  /\ taken = [w \in Workers |-> {}]
  /\ minted = [w \in Workers |-> {}]
  /\ held = [w \in Workers |-> {}]
  /\ left = [w \in Workers |-> {}]
  /\ handling = [w \in Workers |-> None]
  /\ done = [w \in Workers |-> {}]
  /\ inserted = [j \in Jobs |-> 0]
  /\ started = [j \in Jobs |-> 0]
  /\ crashes = 0

-----------------------------------------------------------------------------
(***************************************************************************)
(* The web process and time                                                *)
(***************************************************************************)

\* A domain change commits together with its outbox event.
Emit(e) ==
  /\ events[e] = "absent"
  /\ events' = [events EXCEPT ![e] = "waiting"]
  /\ UNCHANGED <<job, attempts, backoff, due, iteration, history, crashes>>

\* JobService.enqueue in a request of its own: export, reset mail, reindex.
Enqueue(j) ==
  /\ job[j] = "absent"
  /\ job' = [job EXCEPT ![j] = "queued"]
  /\ inserted' = [inserted EXCEPT ![j] = @ + 1]
  /\ UNCHANGED <<events, attempts, backoff, due, iteration, started, crashes>>

\* min(3600, 2^attempts * 10) seconds after a failure the job is due again.
BackoffEnds(j) ==
  /\ j \in backoff
  /\ backoff' = backoff \ {j}
  /\ UNCHANGED <<events, job, attempts, due, iteration, history, crashes>>

\* Purges bounds the number of hours: one unused identity per due worker.
HourPasses(w) ==
  /\ w \notin due
  /\ Cardinality(due) <
       Cardinality({p \in Purges : job[p] = "absent" /\ \A v \in Workers : p \notin minted[v]})
  /\ due' = due \cup {w}
  /\ UNCHANGED <<rows, iteration, history, crashes>>

-----------------------------------------------------------------------------
(***************************************************************************)
(* One iteration of Worker.run                                             *)
(***************************************************************************)

\* At most n elements of S, and all of them when there are no more than n.
Batches(S, n) ==
  {B \in SUBSET S : Cardinality(B) = IF Cardinality(S) < n THEN Cardinality(S) ELSE n}

\* Mutant: dispatch selects the events without FOR UPDATE SKIP LOCKED.
WaitingUnlocked == {e \in Events : events[e] = "waiting"}

\* The unpublished events that no other iteration has locked.
Waiting ==
  {e \in Events : events[e] = "waiting" /\ \A v \in Workers : e \notin taken[v]}

\* Mutant: claim selects the jobs without FOR UPDATE SKIP LOCKED.
ClaimableUnlocked(E, M) ==
  {j \in Jobs : job[j] = "queued" /\ j \notin backoff} \cup M \cup Dispatched(E)

\* The due jobs nobody has locked, and those this iteration has just created
\* (enqueue flushes them): events E dispatched, maintenance jobs M enqueued.
Claimable(E, M) ==
  {j \in Jobs : /\ job[j] = "queued" /\ j \notin backoff
                /\ \A v \in Workers : j \notin held[v]}
    \cup M \cup Dispatched(E)

\* Enqueue the hourly purge, dispatch the outbox, claim jobs.  An iteration
\* that finds nothing only writes its heartbeat.
Begin(w, M) ==
  /\ phase[w] = "idle"
  /\ IF w \in due
     THEN \E p \in Purges : job[p] = "absent" /\ (\A v \in Workers : p \notin minted[v]) /\ M = {p}
     ELSE M = {}
  /\ \E E \in Batches(Waiting, DispatchLimit) : \E J \in Batches(Claimable(E, M), ClaimLimit) :
       /\ E \cup J # {}
       /\ taken' = [taken EXCEPT ![w] = E]
       /\ held' = [held EXCEPT ![w] = J]
       /\ left' = [left EXCEPT ![w] = J]
  /\ minted' = [minted EXCEPT ![w] = M]
  /\ due' = due \ {w}
  /\ phase' = [phase EXCEPT ![w] = "working"]
  /\ UNCHANGED <<rows, handling, done, history, crashes>>

\* The handler of the next claimed job starts inside a savepoint; from here
\* on it may have had an effect outside the database.
Start(w, j) ==
  /\ handling[w] = None
  /\ j \in left[w]
  /\ handling' = [handling EXCEPT ![w] = j]
  /\ left' = [left EXCEPT ![w] = @ \ {j}]
  /\ started' = [started EXCEPT ![j] = @ + 1]
  /\ UNCHANGED <<rows, due, phase, taken, minted, held, done, inserted, crashes>>

Succeed(w) ==
  /\ handling[w] # None
  /\ done' = [done EXCEPT ![w] = @ \cup {handling[w]}]
  /\ handling' = [handling EXCEPT ![w] = None]
  /\ UNCHANGED <<rows, due, phase, taken, minted, held, left, history, crashes>>

\* The handler raises: the savepoint is rolled back and the job refreshed.
\* What JobService.fail then writes is part of Commit.
Fail(w) ==
  /\ handling[w] # None
  /\ handling' = [handling EXCEPT ![w] = None]
  /\ UNCHANGED <<rows, due, phase, taken, minted, held, left, done, history, crashes>>

\* Rows the iteration inserts: the maintenance job, the jobs of its events
\* and what its successful handlers have enqueued.
Created(w) ==
  minted[w] \cup Dispatched(taken[w]) \cup Enqueued(done[w])

\* Mutant: one attempt more than max_attempts.
AfterFailureOneMore(n) == IF n > MaxAttempts THEN "failed" ELSE "queued"

\* Mutant: the job stays in the state of its claim.
AfterFailureRunning(n) == IF n >= MaxAttempts THEN "failed" ELSE "running"

\* JobService.fail, with the attempts claim has already counted.
AfterFailure(n) == IF n >= MaxAttempts THEN "failed" ELSE "queued"

\* Jobs whose attempts claim has increased.
Counted(w) == held[w]

\* The state the iteration leaves job j in.
Result(w, j) ==
  CASE j \in done[w]             -> "completed"
    [] j \in held[w] \ done[w]   -> AfterFailure(attempts[j] + 1)
    [] j \in Created(w) \ held[w] -> "queued"
    [] OTHER                     -> job[j]

EndIteration(w) ==
  /\ phase' = [phase EXCEPT ![w] = "idle"]
  /\ taken' = [taken EXCEPT ![w] = {}]
  /\ minted' = [minted EXCEPT ![w] = {}]
  /\ held' = [held EXCEPT ![w] = {}]
  /\ left' = [left EXCEPT ![w] = {}]
  /\ handling' = [handling EXCEPT ![w] = None]
  /\ done' = [done EXCEPT ![w] = {}]

Commit(w) ==
  /\ phase[w] = "working"
  /\ left[w] = {} /\ handling[w] = None
  /\ events' = [e \in Events |-> IF e \in taken[w] THEN "published" ELSE events[e]]
  /\ job' = [j \in Jobs |-> Result(w, j)]
  /\ attempts' = [j \in Jobs |-> IF j \in Counted(w) THEN attempts[j] + 1 ELSE attempts[j]]
  /\ backoff' = backoff \cup {j \in held[w] : Result(w, j) = "queued"}
  /\ EndIteration(w)
  /\ inserted' = [j \in Jobs |-> IF j \in Created(w) THEN inserted[j] + 1 ELSE inserted[j]]
  /\ UNCHANGED <<due, started, crashes>>

\* The process dies, or an exception leaves run(): the transaction is rolled
\* back with everything its handlers have not done outside the database, and
\* the restarted process counts its hour from its start.
Crash(w) ==
  /\ phase[w] = "working"
  /\ crashes < MaxCrashes
  /\ crashes' = crashes + 1
  /\ due' = due \ {w}
  /\ EndIteration(w)
  /\ UNCHANGED <<rows, history>>

Iterate(w) ==
  \/ \E M \in SUBSET Purges : Begin(w, M)
  \/ \E j \in Jobs : Start(w, j)
  \/ Succeed(w)
  \/ Fail(w)
  \/ Commit(w)

Next ==
  \/ \E e \in Events : Emit(e)
  \/ \E j \in Requested : Enqueue(j)
  \/ \E j \in Jobs : BackoffEnds(j)
  \/ \E w \in Workers : HourPasses(w) \/ Iterate(w) \/ Crash(w)

Spec == Init /\ [][Next]_vars

\* The worker loop never waits for anything but its own timers, every handler
\* call has a timeout, and docker restarts a dead process.  Time passes while
\* some job waits for its backoff.
Fairness ==
  /\ \A w \in Workers : WF_vars(Iterate(w))
  /\ WF_vars(\E j \in Jobs : BackoffEnds(j))

FairSpec == Spec /\ Fairness

-----------------------------------------------------------------------------
(***************************************************************************)
(* Properties                                                              *)
(***************************************************************************)

\* The outbox loses and repeats nothing: one row was inserted for each job of
\* an event when the event is marked published and none before, although
\* several workers dispatch and any of them may die before its commit.
OutboxAtomic ==
  \A e \in Events : \A j \in JobsOf[e] :
    inserted[j] = IF events[e] = "published" THEN 1 ELSE 0

\* The retry budget is used exactly: a job is given up after MaxAttempts
\* counted attempts and not before, and one still queued has some left.
RetryBudget ==
  \A j \in Jobs :
    /\ job[j] = "queued" => attempts[j] < MaxAttempts
    /\ job[j] = "failed" => attempts[j] = MaxAttempts
    /\ job[j] = "completed" => attempts[j] \in 1..MaxAttempts

\* How often a handler with effects outside the database (a mail, a model
\* call) can have run: once per counted attempt, once in the open iteration
\* and once more for every crash that rolled its count back.
StartsAccounted ==
  \A j \in Jobs :
    /\ started[j] <= attempts[j] + crashes + (IF \E w \in Workers : j \in held[w] THEN 1 ELSE 0)
    /\ job[j] \in Settled => started[j] >= attempts[j]

\* Every event a domain change left in the outbox is dispatched and each of
\* its jobs ends completed or given up, and so does every job requests,
\* handlers and the maintenance enqueue, although handlers fail and workers
\* crash.
WorkSettles ==
  /\ \A e \in Events :
       events[e] = "waiting" ~> events[e] = "published" /\ \A j \in JobsOf[e] : job[j] \in Settled
  /\ \A j \in Jobs : job[j] = "queued" ~> job[j] \in Settled
=============================================================================
