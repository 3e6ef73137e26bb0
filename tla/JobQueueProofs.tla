--------------------------- MODULE JobQueueProofs ---------------------------
(***************************************************************************)
(* Proofs about JobQueue for any number of workers, events and jobs and    *)
(* for every bound.                                                        *)
(***************************************************************************)
EXTENDS JobQueue, TLAPS

\* The values of the rows and of the open iterations.
TypeOK ==
  /\ events \in [Events -> {"absent", "waiting", "published"}]
  /\ job \in [Jobs -> {"absent", "queued", "completed", "failed"}]
  /\ attempts \in [Jobs -> Nat]
  /\ phase \in [Workers -> {"idle", "working"}]
  /\ taken \in [Workers -> SUBSET Events]
  /\ minted \in [Workers -> SUBSET Purges]
  /\ held \in [Workers -> SUBSET Jobs]
  /\ left \in [Workers -> SUBSET Jobs]
  /\ handling \in [Workers -> Jobs \cup {None}]
  /\ done \in [Workers -> SUBSET Jobs]
  /\ inserted \in [Jobs -> Nat]
  /\ started \in [Jobs -> Nat]
  /\ crashes \in Nat

\* Between iterations a worker holds nothing; inside one each job it holds
\* waits for its handler, is handled, or has been.
Iterations ==
  \A w \in Workers :
    /\ phase[w] = "idle" =>
         taken[w] = {} /\ minted[w] = {} /\ held[w] = {} /\ left[w] = {} /\ done[w] = {}
                       /\ handling[w] = None
    /\ left[w] \subseteq held[w] /\ done[w] \subseteq held[w] /\ left[w] \cap done[w] = {}
    /\ handling[w] # None => handling[w] \in held[w] \ (left[w] \cup done[w])

\* SKIP LOCKED: no two iterations have the same event, job or maintenance.
Exclusive ==
  \A v, w \in Workers : v # w =>
    taken[v] \cap taken[w] = {} /\ minted[v] \cap minted[w] = {} /\ held[v] \cap held[w] = {}

\* What an iteration has locked is as it was when it was locked; a job it
\* holds is queued or one of those it will insert itself.
Locked ==
  \A w \in Workers :
    /\ \A e \in taken[w] : events[e] = "waiting"
    /\ \A j \in minted[w] : job[j] = "absent"
    /\ \A j \in held[w] : job[j] = "queued" \/ j \in minted[w] \/ \E e \in taken[w] : j \in JobsOf[e]

\* The jobs of an event exist exactly when it is marked published.
JobsOfPublished ==
  \A e \in Events : \A j \in JobsOf[e] : events[e] = "published" <=> job[j] # "absent"

\* Whoever inserts a job, a request or an iteration, is the only one.
InsertedOnce == \A j \in Jobs : inserted[j] = IF job[j] = "absent" THEN 0 ELSE 1

\* What a handler enqueues exists exactly when its job is completed.
FollowsAtomic == \A j \in Jobs : \A i \in Follows[j] : job[j] = "completed" <=> job[i] # "absent"

\* A job that does not exist was not tried.
NotTried == \A j \in Jobs : job[j] = "absent" => attempts[j] = 0

\* The handler of j was started in an open iteration.
InFlight(j) == IF \E w \in Workers : j \in held[w] \ left[w] THEN 1 ELSE 0

\* The handler of a job was started once for every counted attempt, and no
\* more often than the open iteration and the crashes explain.
Starts ==
  \A j \in Jobs : /\ attempts[j] + InFlight(j) <= started[j]
                  /\ started[j] <= attempts[j] + crashes + InFlight(j)

Inv ==
  /\ TypeOK /\ Iterations /\ Exclusive /\ Locked
  /\ JobsOfPublished /\ InsertedOnce /\ FollowsAtomic /\ NotTried /\ RetryBudget /\ Starts
-----------------------------------------------------------------------------
\* A batch is a part of what was selected.
LEMMA BatchIsPart ==
  ASSUME NEW S, NEW n, NEW B \in Batches(S, n)
  PROVE  B \subseteq S
BY DEF Batches

\* An iteration of another worker holds none of the jobs of a waiting event
\* it has not taken, nor an unused maintenance job.
LEMMA NotHeld ==
  ASSUME Inv, NEW v \in Workers, NEW j \in held[v], job[j] # "queued"
  PROVE  /\ job[j] = "absent" /\ attempts[j] = 0
         /\ j \in minted[v] \/ \E e \in taken[v] : j \in JobsOf[e]
<1>1. j \in minted[v] \/ \E e \in taken[v] : j \in JobsOf[e]
  BY DEF Inv, Locked
<1>2. job[j] = "absent"
  BY <1>1 DEF Inv, TypeOK, Locked, JobsOfPublished
<1> QED
  BY <1>1, <1>2 DEF Inv, TypeOK, NotTried

\* Who creates the jobs of an iteration.
LEMMA CreatedBy ==
  ASSUME NEW w, NEW j
  PROVE  j \in Created(w) <=> \/ j \in minted[w]
                              \/ \E e \in taken[w] : j \in JobsOf[e]
                              \/ \E i \in done[w] : j \in Follows[i]
BY DEF Created, Dispatched, Enqueued

\* A job enqueued by a request is created by nobody else.
LEMMA RequestedElse ==
  ASSUME NEW j \in Requested
  PROVE  /\ j \in Jobs /\ j \notin Purges /\ \A e \in Events : j \notin JobsOf[e]
         /\ \A i \in Jobs : j \notin Follows[i]
BY DEF Requested, Dispatched, Enqueued

\* What an iteration will insert does not exist yet.
LEMMA CreatedAreNew ==
  ASSUME Inv, NEW w \in Workers, NEW j \in Created(w)
  PROVE  j \in Jobs /\ job[j] = "absent" /\ attempts[j] = 0
<1>1. CASE j \in minted[w]
  BY <1>1, ConstantsAssumption DEF Inv, TypeOK, Locked, NotTried
<1>2. ASSUME NEW e \in taken[w], j \in JobsOf[e]
      PROVE  j \in Jobs /\ job[j] = "absent"
  BY <1>2, ConstantsAssumption DEF Inv, TypeOK, Locked, JobsOfPublished
<1>3. ASSUME NEW i \in done[w], j \in Follows[i]
      PROVE  j \in Jobs /\ job[j] = "absent"
  <2>1. i \in held[w] /\ i \in Jobs
    BY <1>3 DEF Inv, TypeOK, Iterations
  <2>2. job[i] # "completed"
    BY <2>1, NotHeld DEF Inv
  <2> QED
    BY <1>3, <2>1, <2>2, ConstantsAssumption DEF Inv, FollowsAtomic
<1> QED
  BY <1>1, <1>2, <1>3, CreatedBy DEF Inv, NotTried

-----------------------------------------------------------------------------
\* Requests of the web process and the passage of time.
LEMMA OutsideStep ==
  ASSUME Inv,
         \/ \E e \in Events : Emit(e)
         \/ \E j \in Requested : Enqueue(j)
         \/ \E j \in Jobs : BackoffEnds(j)
         \/ \E w \in Workers : HourPasses(w)
  PROVE  Inv'
<1> USE DEF TypeOK, Iterations, Exclusive, Locked, JobsOfPublished, InsertedOnce, FollowsAtomic,
            NotTried, RetryBudget, Starts, InFlight, iteration, history
<1>1. ASSUME NEW e \in Events, Emit(e)
      PROVE  Inv'
  BY <1>1 DEF Inv, Emit
<1>2. ASSUME NEW j \in Requested, Enqueue(j)
      PROVE  Inv'
  BY <1>2, RequestedElse, ConstantsAssumption DEF Inv, Enqueue
<1>3. ASSUME NEW j \in Jobs, BackoffEnds(j)
      PROVE  Inv'
  BY <1>3 DEF Inv, BackoffEnds
<1>4. ASSUME NEW w \in Workers, HourPasses(w)
      PROVE  Inv'
  BY <1>4 DEF Inv, HourPasses, rows
<1> QED
  BY <1>1, <1>2, <1>3, <1>4

\* The claim of an iteration.
LEMMA BeginStep ==
  ASSUME Inv, NEW w \in Workers, NEW M \in SUBSET Purges, Begin(w, M)
  PROVE  Inv'
<1>1. PICK E \in Batches(Waiting, DispatchLimit) : \E J \in Batches(Claimable(E, M), ClaimLimit) :
        /\ taken' = [taken EXCEPT ![w] = E]
        /\ held' = [held EXCEPT ![w] = J]
        /\ left' = [left EXCEPT ![w] = J]
  BY DEF Begin
<1>2. PICK J \in Batches(Claimable(E, M), ClaimLimit) :
        /\ taken' = [taken EXCEPT ![w] = E]
        /\ held' = [held EXCEPT ![w] = J]
        /\ left' = [left EXCEPT ![w] = J]
  BY <1>1
<1>3. /\ minted' = [minted EXCEPT ![w] = M] /\ phase' = [phase EXCEPT ![w] = "working"]
      /\ UNCHANGED <<events, job, attempts, handling, done, inserted, started, crashes>>
      /\ phase[w] = "idle" /\ M \subseteq Jobs
      /\ \A p \in M : job[p] = "absent" /\ \A v \in Workers : p \notin minted[v]
  BY ConstantsAssumption DEF Begin, rows, history
<1>4. /\ E \subseteq Events
      /\ \A e \in E : events[e] = "waiting" /\ \A v \in Workers : e \notin taken[v]
  BY BatchIsPart DEF Waiting
<1>5. /\ J \subseteq Jobs
      /\ \A j \in J : \/ job[j] = "queued" /\ \A v \in Workers : j \notin held[v]
                      \/ j \in M
                      \/ \E e \in E : j \in JobsOf[e]
  BY <1>3, <1>4, BatchIsPart, ConstantsAssumption DEF Claimable, Dispatched
<1>6. \A v \in Workers : J \cap held[v] = {}
  <2> SUFFICES ASSUME NEW v \in Workers, NEW j \in J, j \in held[v]
               PROVE  FALSE
    OBVIOUS
  <2>1. CASE job[j] = "queued"
    BY <1>3, <1>4, <1>5, <2>1 DEF Inv, JobsOfPublished
  <2>2. CASE job[j] # "queued"
    <3>1. j \in minted[v] \/ \E e \in taken[v] : j \in JobsOf[e]
      BY <2>2, NotHeld
    <3>2. j \in M \/ \E e \in E : j \in JobsOf[e]
      BY <1>5, <2>2
    <3> QED
      BY <1>3, <1>4, <3>1, <3>2, ConstantsAssumption DEF Inv, TypeOK
  <2> QED
    BY <2>1, <2>2
<1> USE DEF Inv, TypeOK
<1>7. TypeOK' /\ NotTried' /\ JobsOfPublished' /\ InsertedOnce' /\ FollowsAtomic' /\ RetryBudget'
  BY <1>2, <1>3, <1>4, <1>5 DEF JobsOfPublished, InsertedOnce, FollowsAtomic, NotTried, RetryBudget
<1>8. Iterations'
  BY <1>2, <1>3 DEF Iterations
<1>9. Exclusive'
  BY <1>2, <1>3, <1>4, <1>6 DEF Exclusive
<1>10. Locked'
  BY <1>2, <1>3, <1>4, <1>5 DEF Locked
<1>11. Starts'
  <2>1. \A j \in Jobs : InFlight(j)' = InFlight(j)
    BY <1>2, <1>3 DEF InFlight, Iterations
  <2> QED
    BY <1>3, <2>1 DEF Starts
<1> QED
  BY <1>7, <1>8, <1>9, <1>10, <1>11

\* The handlers.
LEMMA HandlerStep ==
  ASSUME Inv, NEW w \in Workers, (\E j \in Jobs : Start(w, j)) \/ Succeed(w) \/ Fail(w)
  PROVE  Inv'
<1> USE DEF TypeOK
<1>1. ASSUME NEW j \in Jobs, Start(w, j)
      PROVE  Inv'
  <2>1. /\ TypeOK' /\ Exclusive' /\ Locked'
        /\ JobsOfPublished' /\ InsertedOnce' /\ FollowsAtomic' /\ NotTried' /\ RetryBudget'
    BY <1>1
       DEF Inv, Start, rows, Exclusive, Locked, JobsOfPublished, InsertedOnce, FollowsAtomic,
           NotTried, RetryBudget
  <2>2. Iterations'
    BY <1>1 DEF Inv, Start, Iterations
  <2>3. Starts'
    <3>1. j \in held[w] /\ InFlight(j) = 0 /\ InFlight(j)' = 1
      BY <1>1 DEF Inv, Start, Iterations, Exclusive, InFlight
    <3>2. \A i \in Jobs \ {j} : InFlight(i)' = InFlight(i)
      BY <1>1 DEF Inv, Start, InFlight
    <3> QED
      BY <1>1, <3>1, <3>2 DEF Inv, Start, rows, Starts
  <2> QED
    BY <2>1, <2>2, <2>3 DEF Inv
<1>2. ASSUME Succeed(w) \/ Fail(w)
      PROVE  Inv'
  <2>1. /\ TypeOK' /\ Exclusive' /\ Locked'
        /\ JobsOfPublished' /\ InsertedOnce' /\ FollowsAtomic' /\ NotTried' /\ RetryBudget'
    BY <1>2
       DEF Inv, Succeed, Fail, rows, history, Exclusive, Locked, JobsOfPublished, InsertedOnce,
           FollowsAtomic, NotTried, RetryBudget
  <2>2. Iterations'
    BY <1>2 DEF Inv, Succeed, Fail, Iterations
  <2>3. Starts'
    BY <1>2 DEF Inv, Succeed, Fail, rows, history, Starts, InFlight
  <2> QED
    BY <2>1, <2>2, <2>3 DEF Inv
<1> QED
  BY <1>1, <1>2

\* A crash forgets the iteration; its starts stay counted by the crash.
LEMMA CrashStep ==
  ASSUME Inv, NEW w \in Workers, Crash(w)
  PROVE  Inv'
<1> USE DEF TypeOK, EndIteration, history
<1>1. TypeOK' /\ Iterations' /\ Exclusive' /\ Locked'
  BY DEF Inv, Crash, rows, Iterations, Exclusive, Locked
<1>2. JobsOfPublished' /\ InsertedOnce' /\ FollowsAtomic' /\ NotTried' /\ RetryBudget'
  BY DEF Inv, Crash, rows, JobsOfPublished, InsertedOnce, FollowsAtomic, NotTried, RetryBudget
<1>3. Starts'
  <2>1. \A j \in Jobs : InFlight(j)' <= InFlight(j) /\ InFlight(j) \in {0, 1} /\ InFlight(j)' \in {0, 1}
    BY DEF Inv, Crash, InFlight
  <2> QED
    BY <2>1 DEF Inv, Crash, rows, Starts
<1> QED
  BY <1>1, <1>2, <1>3 DEF Inv

\* The states an iteration leaves its jobs in.
LEMMA ResultOf ==
  ASSUME Inv, NEW w \in Workers, NEW j \in Jobs
  PROVE  /\ j \in done[w] => Result(w, j) = "completed"
         /\ j \in held[w] \ done[w] => Result(w, j) = AfterFailure(attempts[j] + 1)
         /\ j \in Created(w) \ held[w] => Result(w, j) = "queued"
         /\ j \notin held[w] \cup Created(w) => Result(w, j) = job[j]
BY DEF Inv, Iterations, Result

\* The commit of an iteration.
LEMMA CommitStep ==
  ASSUME Inv, NEW w \in Workers, Commit(w)
  PROVE  Inv'
<1>1. /\ events' = [e \in Events |-> IF e \in taken[w] THEN "published" ELSE events[e]]
      /\ job' = [j \in Jobs |-> Result(w, j)]
      /\ attempts' = [j \in Jobs |-> IF j \in held[w] THEN attempts[j] + 1 ELSE attempts[j]]
      /\ left[w] = {} /\ handling[w] = None
      /\ UNCHANGED <<started, crashes>>
      /\ EndIteration(w)
  BY DEF Commit, Counted
<1>2. \A j \in Jobs :
        /\ j \in held[w] => /\ job'[j] \in {"completed", AfterFailure(attempts[j] + 1)}
                            /\ j \in done[w] <=> job'[j] = "completed"
        /\ j \in Created(w) \ held[w] => job'[j] = "queued"
        /\ j \notin held[w] \cup Created(w) => job'[j] = job[j]
  BY <1>1, ResultOf DEF AfterFailure, Inv, Iterations
<1>3. \A j \in held[w] : /\ job[j] \in {"queued", "absent"} /\ attempts[j] < MaxAttempts
                         /\ job[j] = "absent" => j \in Created(w)
  BY NotHeld, CreatedBy, ConstantsAssumption DEF Inv, TypeOK, RetryBudget
<1>4. \A j \in Created(w) : j \in Jobs /\ job[j] = "absent" /\ attempts[j] = 0
  BY CreatedAreNew
<1>5. \A j \in Jobs : job'[j] = "absent" <=> job[j] = "absent" /\ j \notin Created(w)
  BY <1>2, <1>3, <1>4 DEF AfterFailure
<1> USE DEF Inv, TypeOK
<1>6. TypeOK'
  <2>1. inserted' \in [Jobs -> Nat]
    BY DEF Commit
  <2> QED
    BY <1>1, <1>2, <2>1 DEF EndIteration, AfterFailure
<1>7. Iterations' /\ Exclusive'
  BY <1>1 DEF EndIteration, Iterations, Exclusive
<1>8. JobsOfPublished'
  <2> SUFFICES ASSUME NEW e \in Events, NEW j \in JobsOf[e]
               PROVE  events'[e] = "published" <=> job'[j] # "absent"
    BY DEF JobsOfPublished
  <2>1. j \in Jobs /\ (j \in Created(w) <=> e \in taken[w])
    <3>1. j \in Jobs /\ j \notin Purges /\ \A f \in Events \ {e} : j \notin JobsOf[f]
      BY ConstantsAssumption
    <3>2. \A i \in Jobs : j \notin Follows[i]
      BY ConstantsAssumption
    <3>3. minted[w] \subseteq Purges /\ taken[w] \subseteq Events /\ done[w] \subseteq Jobs
      OBVIOUS
    <3> QED
      BY <3>1, <3>2, <3>3, CreatedBy
  <2> QED
    BY <1>1, <1>5, <2>1 DEF JobsOfPublished
<1>9. FollowsAtomic'
  <2> SUFFICES ASSUME NEW j \in Jobs, NEW i \in Follows[j]
               PROVE  job'[j] = "completed" <=> job'[i] # "absent"
    BY DEF FollowsAtomic
  <2>1. i \in Jobs /\ (i \in Created(w) <=> j \in done[w])
    <3>1. i \in Jobs /\ i \notin Purges /\ \A e \in Events : i \notin JobsOf[e]
      BY ConstantsAssumption
    <3>2. \A h \in Jobs \ {j} : i \notin Follows[h]
      BY ConstantsAssumption
    <3>3. minted[w] \subseteq Purges /\ taken[w] \subseteq Events /\ done[w] \subseteq Jobs
      OBVIOUS
    <3> QED
      BY <3>1, <3>2, <3>3, CreatedBy
  <2>2. job'[j] = "completed" <=> job[j] = "completed" \/ j \in done[w]
    BY <1>2, <1>3, <1>4 DEF Iterations
  <2> QED
    BY <1>5, <2>1, <2>2 DEF FollowsAtomic
<1>10. NotTried'
  BY <1>1, <1>3, <1>5 DEF NotTried
<1>11. RetryBudget'
  <2> SUFFICES ASSUME NEW j \in Jobs
               PROVE  /\ job'[j] = "queued" => attempts'[j] < MaxAttempts
                      /\ job'[j] = "failed" => attempts'[j] = MaxAttempts
                      /\ job'[j] = "completed" => attempts'[j] \in 1..MaxAttempts
    BY DEF RetryBudget
  <2>1. CASE j \in held[w]
    <3>1. attempts'[j] = attempts[j] + 1 /\ attempts[j] \in Nat /\ attempts[j] < MaxAttempts
      BY <1>1, <1>3, <2>1
    <3>2. job'[j] = "completed" \/ job'[j] = IF attempts[j] + 1 >= MaxAttempts THEN "failed" ELSE "queued"
      BY <1>2, <2>1 DEF AfterFailure
    <3>3. MaxAttempts \in Nat
      BY ConstantsAssumption
    <3>4. CASE attempts[j] + 1 >= MaxAttempts
      <4>1. attempts'[j] = MaxAttempts /\ attempts'[j] \in 1..MaxAttempts
        BY <3>1, <3>3, <3>4
      <4> QED
        BY <3>2, <3>4, <4>1
    <3>5. CASE attempts[j] + 1 < MaxAttempts
      <4>1. attempts'[j] < MaxAttempts /\ attempts'[j] \in 1..MaxAttempts
        BY <3>1, <3>3, <3>5
      <4>2. job'[j] \in {"completed", "queued"}
        BY <3>1, <3>2, <3>3, <3>5
      <4> QED
        BY <4>1, <4>2
    <3> QED
      BY <3>1, <3>3, <3>4, <3>5
  <2>2. CASE j \in Created(w) \ held[w]
    BY <1>1, <1>2, <1>4, <2>2, ConstantsAssumption
  <2>3. CASE j \notin held[w] \cup Created(w)
    BY <1>1, <1>2, <2>3 DEF RetryBudget
  <2> QED
    BY <2>1, <2>2, <2>3
<1>12. Locked'
  <2> SUFFICES ASSUME NEW v \in Workers \ {w}
               PROVE  /\ \A e \in taken[v] : events'[e] = "waiting"
                      /\ \A j \in minted[v] : job'[j] = "absent"
                      /\ \A j \in held[v] : \/ job'[j] = "queued" \/ j \in minted[v]
                                            \/ \E e \in taken[v] : j \in JobsOf[e]
    <3>1. taken'[w] = {} /\ minted'[w] = {} /\ held'[w] = {}
      BY <1>1 DEF EndIteration
    <3>2. \A v \in Workers \ {w} : taken'[v] = taken[v] /\ minted'[v] = minted[v] /\ held'[v] = held[v]
      BY <1>1 DEF EndIteration
    <3> QED
      BY <3>1, <3>2 DEF Locked
  <2>1. \A e \in taken[v] : events'[e] = "waiting"
    BY <1>1 DEF Locked, Exclusive
  <2>2. \A j \in minted[v] : j \in Jobs /\ job[j] = "absent" /\ j \notin Created(w)
    BY CreatedBy, ConstantsAssumption DEF Locked, Exclusive
  <2>3. \A j \in held[v] : job[j] = "queued" => job'[j] = "queued"
    BY <1>2, <1>4 DEF Exclusive
  <2> QED
    BY <1>5, <2>1, <2>2, <2>3 DEF Locked
<1>13. Starts'
  <2>1. \A j \in held[w] : InFlight(j) = 1 /\ InFlight(j)' = 0
    BY <1>1 DEF InFlight, EndIteration, Exclusive
  <2>2. \A j \in Jobs \ held[w] : InFlight(j)' = InFlight(j)
    BY <1>1 DEF InFlight, EndIteration
  <2> QED
    BY <1>1, <2>1, <2>2 DEF Starts
<1>14. InsertedOnce'
  BY <1>4, <1>5 DEF InsertedOnce, Commit
<1> QED
  BY <1>6, <1>7, <1>8, <1>9, <1>10, <1>11, <1>12, <1>13, <1>14

\* The invariant holds initially and every step keeps it.
LEMMA Invariance == Spec => []Inv
<1>1. Init => Inv
  BY ConstantsAssumption
     DEF Init, Inv, TypeOK, Iterations, Exclusive, Locked, JobsOfPublished, InsertedOnce,
         FollowsAtomic, NotTried, RetryBudget, Starts, InFlight
<1>2. Inv /\ [Next]_vars => Inv'
  <2> SUFFICES ASSUME Inv, [Next]_vars
               PROVE  Inv'
    OBVIOUS
  <2>1. CASE UNCHANGED vars
    BY <2>1 DEF vars, rows, iteration, history, Inv, TypeOK, Iterations, Exclusive, Locked,
       JobsOfPublished, InsertedOnce, FollowsAtomic, NotTried, RetryBudget, Starts, InFlight
  <2> QED
    BY <2>1, OutsideStep, BeginStep, HandlerStep, CommitStep, CrashStep DEF Next, Iterate
<1> QED
  BY <1>1, <1>2, PTL DEF Spec

-----------------------------------------------------------------------------
(***************************************************************************)
(* The properties                                                          *)
(***************************************************************************)

\* dispatch_outbox inserts each job of an event once, in the transaction that
\* marks the event published, for any number of workers and crashes.
THEOREM OutboxIsAtomic == Spec => []OutboxAtomic
<1>1. Inv => OutboxAtomic
  BY ConstantsAssumption DEF Inv, JobsOfPublished, InsertedOnce, OutboxAtomic
<1> QED
  BY <1>1, Invariance, PTL

\* A job is given up after max_attempts counted attempts and not before.
THEOREM BudgetIsUsed == Spec => []RetryBudget
<1>1. Inv => RetryBudget
  BY DEF Inv
<1> QED
  BY <1>1, Invariance, PTL

\* A handler has run once per counted attempt, and more often only because of
\* a crash or in the open iteration.
THEOREM StartsAreAccounted == Spec => []StartsAccounted
<1>1. Inv => StartsAccounted
  <2> SUFFICES ASSUME Inv, NEW j \in Jobs
               PROVE  /\ started[j] <= attempts[j] + crashes
                                         + (IF \E w \in Workers : j \in held[w] THEN 1 ELSE 0)
                      /\ job[j] \in Settled => started[j] >= attempts[j]
    BY DEF StartsAccounted
  <2>1. InFlight(j) \in {0, 1} /\ (InFlight(j) = 1 => \E w \in Workers : j \in held[w])
    BY DEF InFlight
  <2>2. attempts[j] \in Nat /\ started[j] \in Nat /\ crashes \in Nat
    BY DEF Inv, TypeOK
  <2> QED
    BY <2>1, <2>2 DEF Inv, Starts
<1> QED
  BY <1>1, Invariance, PTL
=============================================================================
