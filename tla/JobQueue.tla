------------------------------ MODULE JobQueue ------------------------------
(***************************************************************************)
(* The ingest job queue: one Postgres table, ops_jobs.job_ingest, and the  *)
(* worker slots that claim rows of it, execute them and write the outcome  *)
(* back.  Every statement of the code is one short transaction, so every   *)
(* action below is one committed transaction; the claim, which holds a row *)
(* lock between its SELECT ... FOR UPDATE SKIP LOCKED and its UPDATE, is   *)
(* two.                                                                    *)
(*                                                                         *)
(* A row of the table is an element of the sequence job: its index is its  *)
(* BIGSERIAL id, which is also the created_at order.  A row that retention *)
(* deleted keeps its index with status "trimmed", because ids are not      *)
(* reused.  Timestamps are modelled by ages: the age of a running row is   *)
(* now() - started_at, of a finished row now() - finished_at.  Ages stop   *)
(* growing at AgeCap, which lies beyond every threshold they are compared  *)
(* with, so no bound on the length of a behaviour is needed.               *)
(***************************************************************************)
EXTENDS Integers, Sequences, FiniteSets

CONSTANTS
    Workers,        \* worker slots: (pod, one of its max_concurrency slots)
    Kinds,          \* job kinds
    Hashes,         \* payload hashes
    PoolKinds,      \* the kinds that the pool of each slot claims
    Priorities,     \* priorities a caller may enqueue with
    Budgets,        \* max_attempts a caller may enqueue with
    RetryBudget,    \* max_attempts of the rows that the doctor re-enqueues
    MaxJobs,        \* bound: rows inserted in one behaviour
    Fan,            \* CLAIM_FAN, the candidates one claim considers
    StaleAfter,     \* stale_running_sec
    KeepAfter,      \* keep_hours, the retention window of finished rows
    KeepMax,        \* keep_max, how many finished rows the trim leaves at most
    HandlerBound,   \* how long after started_at a live slot may still hold its claim
    AgeCap          \* ages saturate here

ASSUME QueueAssumption ==
    /\ PoolKinds \in [Workers -> SUBSET Kinds]
    /\ Priorities \subseteq Int
    /\ Budgets \subseteq Nat \ {0}
    /\ RetryBudget \in Nat \ {0}
    /\ MaxJobs \in Nat /\ Fan \in Nat \ {0}
    /\ StaleAfter \in Nat /\ KeepAfter \in Nat /\ KeepMax \in Nat
    /\ HandlerBound \in Nat
    /\ AgeCap \in Nat /\ AgeCap > StaleAfter /\ AgeCap > KeepAfter

VARIABLES
    job,    \* the table: job[id] is a row
    slot    \* what each worker slot is doing, with the snapshot its claim returned

vars == <<job, slot>>

ActiveStatus == {"pending", "running"}
Finished     == {"done", "failed"}
Status       == ActiveStatus \cup Finished \cup {"trimmed"}

Row == [status: Status, kind: Kinds, hash: Hashes, priority: Priorities,
        attempts: Nat, max: Nat \ {0}, age: 0..AgeCap]

\* "claiming": the SELECT of claim_job holds the row lock, its UPDATE has not
\* committed.  "working": process_one_job owns the row the claim returned.
Slot == [phase: {"idle", "claiming", "working"}, id: Nat, attempts: Nat,
         age: 0..AgeCap]

Holding(phase, j, n, age) == [phase |-> phase, id |-> j, attempts |-> n, age |-> age]
Idle == Holding("idle", 0, 0, 0)

Older(age) == IF age < AgeCap THEN age + 1 ELSE AgeCap

-----------------------------------------------------------------------------
Ids == DOMAIN job

Active(j) == job[j].status \in ActiveStatus

\* The partial unique index job_ingest_dedup covers pending and running rows.
HasKey(j, k, h) == job[j].kind = k /\ job[j].hash = h
Taken(k, h)     == \E j \in Ids : Active(j) /\ HasKey(j, k, h)

\* Mutant of Locked: the claim's SELECT without FOR UPDATE.
NeverLocked(j) == FALSE

\* Rows locked by a claim whose transaction is still open.
Locked(j) == \E w \in Workers : slot[w].phase = "claiming" /\ slot[w].id = j

PendingFor(w) == {j \in Ids : job[j].status = "pending" /\ job[j].kind \in PoolKinds[w]}

\* ORDER BY priority DESC, created_at ASC
Before(i, j) == \/ job[i].priority > job[j].priority
                \/ job[i].priority = job[j].priority /\ i < j

\* The first Fan pending rows of the pool.  The code takes the first Fan of
\* each kind and then the first Fan of those, which is the same set.
Candidates(w) ==
    {j \in PendingFor(w) : Cardinality({i \in PendingFor(w) : Before(i, j)}) < Fan}

\* SET status = ..., with finished_at = now() or NULL: the age starts again.
Aged(row, age)     == [row EXCEPT !.age = age]
Moved(row, status) == Aged([row EXCEPT !.status = status], 0)
Settle(j, status)  == [job EXCEPT ![j] = Moved(@, status)]

-----------------------------------------------------------------------------
Init ==
    /\ job = <<>>
    /\ slot = [w \in Workers |-> Idle]

\* Mutant of InsertJob: without the unique index.
InsertTwice(k, h, p, budget) ==
    /\ Len(job) < MaxJobs
    /\ job' = Append(job, [status |-> "pending", kind |-> k, hash |-> h, priority |-> p,
                           attempts |-> 0, max |-> budget, age |-> 0])
    /\ UNCHANGED slot

(***************************************************************************)
(* Producers.  INSERT ... ON CONFLICT DO NOTHING: with the key taken, the  *)
(* statement changes nothing.  insert_jobs_bulk is a run of these inserts  *)
(* in one transaction.                                                     *)
(***************************************************************************)
InsertJob(k, h, p, budget) ==
    /\ Len(job) < MaxJobs
    /\ ~Taken(k, h)
    /\ job' = Append(job, [status |-> "pending", kind |-> k, hash |-> h, priority |-> p,
                           attempts |-> 0, max |-> budget, age |-> 0])
    /\ UNCHANGED slot

Enqueue == \E k \in Kinds, h \in Hashes, p \in Priorities, budget \in Budgets :
               InsertJob(k, h, p, budget)

\* The doctor re-enqueues a failed row under a new id and leaves the row as it is.
Retry(j) ==
    /\ job[j].status = "failed"
    /\ InsertJob(job[j].kind, job[j].hash, job[j].priority, RetryBudget)

(***************************************************************************)
(* Workers.                                                                *)
(***************************************************************************)
\* SELECT ... FOR UPDATE SKIP LOCKED: the first candidate nobody has locked.
\* started_at will be this transaction's now(), so the claim ages from here.
LockCandidate(w, j) ==
    /\ slot[w].phase = "idle"
    /\ j \in Candidates(w) /\ ~Locked(j)
    /\ \A i \in Candidates(w) : Before(i, j) => Locked(i)
    /\ slot' = [slot EXCEPT ![w] = Holding("claiming", j, 0, 0)]
    /\ UNCHANGED job

\* Mutant of Started: the claim does not count its attempt.
StartedUncounted(row, n, age) == Aged(Moved(row, "running"), age)

Started(row, n, age) == Aged([Moved(row, "running") EXCEPT !.attempts = n], age)

\* UPDATE ... SET status = 'running', attempts = attempts + 1 RETURNING, COMMIT.
CommitClaim(w) ==
    LET j == slot[w].id
        n == job[j].attempts + 1
    IN  /\ slot[w].phase = "claiming"
        /\ job' = [job EXCEPT ![j] = Started(@, n, slot[w].age)]
        /\ slot' = [slot EXCEPT ![w] = Holding("working", j, n, slot[w].age)]

\* An UPDATE by id waits for a row lock, and matches nothing once the row is deleted.
Reaches(w) == slot[w].phase = "working" /\ ~Locked(slot[w].id)
Exists(j)  == job[j].status # "trimmed"

\* The handler returned: mark_done, WHERE id only.
MarkDone(w) ==
    /\ Reaches(w)
    /\ job' = IF Exists(slot[w].id) THEN Settle(slot[w].id, "done") ELSE job
    /\ slot' = [slot EXCEPT ![w] = Idle]

\* Mutant of Verdict: a status outside the table's.
ErrorVerdict(w) == IF slot[w].attempts >= job[slot[w].id].max THEN "error" ELSE "pending"

\* mark_failed compares the snapshot's attempts, and its UPDATE is WHERE id only
\* as well.  Moving a finished row back to pending re-enters the unique index:
\* with the key taken by another row, Postgres refuses and the row stays.
Verdict(w) == IF slot[w].attempts >= job[slot[w].id].max THEN "failed" ELSE "pending"
Refused(w) == LET j == slot[w].id IN
    /\ Verdict(w) = "pending" /\ ~Active(j)
    /\ Taken(job[j].kind, job[j].hash)

\* No handler, an exception, job_timeout, or a mark_done that raised.
MarkFailed(w) ==
    /\ Reaches(w)
    /\ job' = IF Exists(slot[w].id) /\ ~Refused(w)
               THEN Settle(slot[w].id, Verdict(w)) ELSE job
    /\ slot' = [slot EXCEPT ![w] = Idle]

\* The process dies, or the outcome cannot be written: an open claim rolls back,
\* a committed one leaves its row running.
Crash(w) ==
    /\ slot[w].phase # "idle"
    /\ slot' = [slot EXCEPT ![w] = Idle]
    /\ UNCHANGED job

(***************************************************************************)
(* Housekeeping.                                                           *)
(***************************************************************************)
\* Mutant of Abandoned: <= in place of < against the stale limit.
AbandonedEarly(j, kinds) == /\ job[j].status = "running" /\ job[j].kind \in kinds
                            /\ job[j].age >= StaleAfter

Abandoned(j, kinds) == /\ job[j].status = "running" /\ job[j].kind \in kinds
                       /\ job[j].age > StaleAfter

\* reclaim_stale_running, on the reclaim tick of a worker of w's pool.
Reclaim(w) ==
    /\ \E j \in Ids : Abandoned(j, PoolKinds[w])
    /\ job' = [j \in Ids |->
                 IF ~Abandoned(j, PoolKinds[w]) THEN job[j]
                 ELSE IF job[j].attempts >= job[j].max THEN Moved(job[j], "failed")
                      ELSE Moved(job[j], "pending")]
    /\ UNCHANGED slot

\* Behind the keep_max backstop: KeepMax + 1 finished rows finished later.
Over(j) == Cardinality({i \in Ids : job[i].status \in Finished
                                    /\ job[i].age < job[j].age}) > KeepMax

\* Mutant of Expired: the DELETE without its status filter.
ExpiredAny == {j \in Ids : job[j].status # "trimmed" /\ job[j].age > KeepAfter}

Expired == {j \in Ids : job[j].status \in Finished /\ (job[j].age > KeepAfter \/ Over(j))}

\* One committed batch of trim_old_jobs.
Trim(batch) ==
    /\ batch # {}
    /\ job' = [j \in Ids |-> IF j \in batch THEN Moved(job[j], "trimmed") ELSE job[j]]
    /\ UNCHANGED slot

\* Time passes.  A slot that holds a claim gives it up, one way or another, within
\* HandlerBound of started_at: job_timeout_sec plus whatever the event loop and
\* the connection add to it.
Ages(j) == job[j].status \in Finished \cup {"running"}
Tick ==
    /\ \A w \in Workers : slot[w].phase # "idle" => slot[w].age < HandlerBound
    /\ job' = [j \in Ids |-> IF Ages(j) THEN Aged(job[j], Older(job[j].age)) ELSE job[j]]
    /\ slot' = [w \in Workers |-> IF slot[w].phase # "idle"
                                   THEN Aged(slot[w], Older(slot[w].age)) ELSE slot[w]]

-----------------------------------------------------------------------------
WorkerStep(w) ==
    \/ \E j \in Ids : LockCandidate(w, j)
    \/ CommitClaim(w)
    \/ MarkDone(w)
    \/ MarkFailed(w)
    \/ Crash(w)
    \/ Reclaim(w)

Next ==
    \/ Enqueue
    \/ \E j \in Ids : Retry(j)
    \/ \E w \in Workers : WorkerStep(w)
    \/ \E batch \in SUBSET Expired : Trim(batch)
    \/ Tick

Spec == Init /\ [][Next]_vars

(***************************************************************************)
(* Fairness.  Every slot's loop keeps polling, a claim transaction does    *)
(* not fail for ever (strong, because a crash disables it), a handler      *)
(* ends, every pool's reclaim tick keeps coming, and time passes.  Nothing *)
(* is assumed of producers, of the doctor, of the trim or of crashes.      *)
(***************************************************************************)
Fairness ==
    /\ WF_vars(Tick)
    /\ \A w \in Workers :
         /\ WF_vars(\E j \in Ids : LockCandidate(w, j))
         /\ SF_vars(CommitClaim(w))
         /\ WF_vars(MarkDone(w) \/ MarkFailed(w))
         /\ WF_vars(Reclaim(w))

FairSpec == Spec /\ Fairness

-----------------------------------------------------------------------------
(***************************************************************************)
(* Properties                                                              *)
(***************************************************************************)
\* Every row and every slot holds values of its columns and of its snapshot, and
\* a slot that holds a claim names a row of the table.
TypeOK ==
    /\ job \in Seq(Row)
    /\ slot \in [Workers -> Slot]
    /\ \A w \in Workers : slot[w].phase # "idle" => slot[w].id \in Ids

\* No two pending or running rows carry the same kind and payload: the retry of a
\* failed row, the re-queue of a job, an enqueue and a late outcome of a slot that
\* lost its claim never put the same work on the queue twice.
UniqueActive ==
    \A i, j \in Ids :
        Active(i) /\ Active(j) /\ HasKey(i, job[j].kind, job[j].hash) => i = j

\* While a slot executes a job, the row is running, under the very attempt the slot
\* claimed: neither a reclaim, nor another slot's outcome, nor the trim has moved it.
ClaimIsCurrent ==
    \A w \in Workers : slot[w].phase = "working" =>
        /\ job[slot[w].id].status = "running"
        /\ job[slot[w].id].attempts = slot[w].attempts

\* Two slots never hold the same row, be it between the SELECT and the UPDATE of a
\* claim or while its handler runs.
OneHolder ==
    \A v, w \in Workers :
        slot[v].phase # "idle" /\ slot[w].phase # "idle" /\ slot[v].id = slot[w].id => v = w

\* A job is not started more often than its max_attempts, however claims, crashes,
\* reclaims and failures follow each other, and a pending row has an attempt left.
AttemptsWithinBudget ==
    \A j \in Ids : /\ job[j].attempts <= job[j].max
                   /\ job[j].status = "pending" => job[j].attempts < job[j].max

\* A finished row is final: it changes again only when retention deletes it.
FinishedIsFinal ==
    [][\A j \in Ids : job[j].status \in Finished =>
            job'[j].status \in {job[j].status, "trimmed"}]_vars

\* Every job of a kind that some pool claims is at last done or failed, although
\* slots may crash in the middle of it for ever: a crash costs an attempt.
EveryJobSettles ==
    \A j \in 1..MaxJobs :
        (j \in Ids /\ Active(j) /\ \E w \in Workers : job[j].kind \in PoolKinds[w])
            ~> (j \in Ids /\ ~Active(j))

(***************************************************************************)
(* The queue implements JobLifecycle: attempts, claims and re-queues are   *)
(* invisible to the producer.                                              *)
(***************************************************************************)
StateOf(status) == CASE status \in ActiveStatus -> "owed"
                     [] status = "done"         -> "done"
                     [] status = "failed"       -> "failed"
                     [] status = "trimmed"      -> "forgotten"

ticketView == [j \in Ids |-> [kind |-> job[j].kind, hash |-> job[j].hash,
                              state |-> StateOf(job[j].status)]]

Lifecycle == INSTANCE JobLifecycle WITH ticket <- ticketView

\* Every step of the queue is an Accept, a settlement, a forgetting, or invisible.
ImplementsLifecycle == Lifecycle!Spec

=============================================================================
