----------------------------- MODULE TrimFlight -----------------------------
(***************************************************************************)
(* The single-flight nightly trim.  A request for the trim slot opens a    *)
(* connection, tries a session advisory lock on it, and on success retires *)
(* what an earlier holder left behind, inserts its own running row of kind *)
(* slot-trim, answers, and runs the trim on a thread that keeps the        *)
(* connection.  A request that loses the lock polls for a running row and  *)
(* answers with its id.                                                    *)
(*                                                                         *)
(* Only the slot-trim rows of job_ingest are here.  No worker touches      *)
(* them: slot-trim is in neither list of POOL_KINDS, so a claim or a       *)
(* reclaim never selects one.  Retention of finished rows is JobQueue's    *)
(* Trim.                                                                   *)
(***************************************************************************)
EXTENDS Integers, Sequences

CONSTANTS
    Callers,    \* requests for the trim, each with a connection of its own
    Payloads,   \* {"slot", "force", "date"}: what the deduplication index compares
    MaxRows,    \* bound: slot-trim rows inserted in one behaviour
    NoOne       \* the lock is free

ASSUME TrimAssumption == MaxRows \in Nat /\ NoOne \notin Callers

VARIABLES
    row,        \* row[id]: the slot-trim rows of job_ingest, in id order
    lock,       \* the session that holds the advisory lock
    caller      \* what each request is doing

vars == <<row, lock, caller>>

Finished == {"done", "failed"}
Row == [status: {"pending", "running"} \cup Finished, payload: Payloads]

\* "holding": the lock is taken, begin() has not committed.  "running": the thread
\* runs the trim of row id.  "written": write_result has committed.  "told": a loser
\* has answered with id (0: with no id).  "cut": the session is gone, its thread or
\* request goes on until it next uses the connection.
Phase  == {"idle", "holding", "running", "written", "polling", "told", "cut"}
Caller == [phase: Phase, payload: Payloads, id: Nat]

Ids     == DOMAIN row
Running == {j \in Ids : row[j].status = "running"}

\* The index job_ingest_dedup over the pending and running rows.
Twin(p, statuses) == \E j \in Ids : row[j].payload = p /\ row[j].status \in statuses

Becomes(c, phase, p, id) ==
    caller' = [caller EXCEPT ![c] = [phase |-> phase, payload |-> p, id |-> id]]

Goes(c, phase) == Becomes(c, phase, caller[c].payload, caller[c].id)

-----------------------------------------------------------------------------
Init ==
    /\ row = <<>>
    /\ lock = NoOne
    /\ caller \in [Callers -> [phase: {"idle"}, payload: Payloads, id: {0}]]

\* Mutant of TryLock: requests that share a session, for which the lock is reentrant.
TryLockShared(c, p) ==
    /\ caller[c].phase \in {"idle", "told"}
    /\ Len(row) < MaxRows
    /\ lock' = c /\ Becomes(c, "holding", p, 0)
    /\ UNCHANGED row

\* A new request: pg_try_advisory_lock on a new connection.
TryLock(c, p) ==
    /\ caller[c].phase \in {"idle", "told"}
    /\ Len(row) < MaxRows
    /\ IF lock = NoOne THEN lock' = c /\ Becomes(c, "holding", p, 0)
                       ELSE lock' = lock /\ Becomes(c, "polling", p, 0)
    /\ UNCHANGED row

\* retire_stale_and_insert: with the lock held, a running row is a dead holder's.
Retired == [j \in Ids |-> [row[j] EXCEPT !.status = IF @ = "running" THEN "failed" ELSE @]]
Begin(c) ==
    LET p == caller[c].payload IN
    /\ caller[c].phase = "holding"
    /\ ~Twin(p, {"pending"})
    /\ row' = Append(Retired, [status |-> "running", payload |-> p])
    /\ Becomes(c, "running", p, Len(row) + 1)
    /\ UNCHANGED lock

\* A pending twin violates the index: the transaction rolls back, the retirement
\* with it, and the handler closes the connection, which frees the lock.
BeginRefused(c) ==
    /\ caller[c].phase = "holding"
    /\ Twin(caller[c].payload, {"pending"})
    /\ Goes(c, "idle")
    /\ lock' = NoOne
    /\ UNCHANGED row

\* The trim returned or raised: write_result, WHERE id only.
WriteResult(c, status) ==
    /\ caller[c].phase = "running"
    /\ row' = [row EXCEPT ![caller[c].id].status = status]
    /\ Goes(c, "written")
    /\ UNCHANGED lock

\* Mutant of Unlock: the connection goes back to a pool with the lock on it.
UnlockForgotten(c) ==
    /\ caller[c].phase = "written"
    /\ Goes(c, "idle")
    /\ UNCHANGED <<row, lock>>

\* finally: unlock() releases the lock and closes the connection.
Unlock(c) ==
    /\ caller[c].phase = "written"
    /\ Goes(c, "idle")
    /\ lock' = NoOne
    /\ UNCHANGED row

\* The loser's poll finds a running row.
Told(c) ==
    /\ caller[c].phase = "polling"
    /\ \E j \in Running : (\A i \in Running : i <= j)
                          /\ Becomes(c, "told", caller[c].payload, j)
    /\ UNCHANGED <<row, lock>>

\* Its forty polls found none: it answers with no id.
GiveUp(c) ==
    /\ caller[c].phase = "polling" /\ Running = {}
    /\ Goes(c, "told")
    /\ UNCHANGED <<row, lock>>

\* Mutant of Cut: the lock's session is lost, the thread writes over another one.
CutLockOnly(c) ==
    /\ caller[c].phase = "running"
    /\ lock' = IF lock = c THEN NoOne ELSE lock
    /\ UNCHANGED <<row, caller>>

\* The connection is lost, write_result raises twice, the thread cannot be started,
\* or the process dies: the lock goes with the session, the row stays as it is.
Cut(c) ==
    /\ caller[c].phase \in {"holding", "running", "written", "polling"}
    /\ Goes(c, "cut")
    /\ lock' = IF lock = c THEN NoOne ELSE lock
    /\ UNCHANGED row

\* What is left of it uses the closed connection, raises, and ends.
CutEnds(c) ==
    /\ caller[c].phase = "cut"
    /\ Goes(c, "idle")
    /\ UNCHANGED <<row, lock>>

\* The doctor offers every failed kind for retry, slot-trim among them: a pending
\* row with the same payload.  (The bound leaves room for a holder's row.)
DoctorRetry(j) ==
    /\ Len(row) + 1 < MaxRows
    /\ row[j].status = "failed"
    /\ ~Twin(row[j].payload, {"pending", "running"})
    /\ row' = Append(row, [status |-> "pending", payload |-> row[j].payload])
    /\ UNCHANGED <<lock, caller>>

-----------------------------------------------------------------------------
Step(c) ==
    \/ Begin(c) \/ BeginRefused(c)
    \/ \E status \in Finished : WriteResult(c, status)
    \/ Unlock(c)
    \/ Told(c) \/ GiveUp(c)
    \/ CutEnds(c)

Next ==
    \/ \E c \in Callers : Step(c) \/ Cut(c) \/ \E p \in Payloads : TryLock(c, p)
    \/ \E j \in Ids : DoctorRetry(j)

Spec == Init /\ [][Next]_vars

\* A request or a thread that has begun goes on: the poll is bounded by 40 tries and
\* the trim by its statement timeout.  No request, retry or cut is assumed.
FairSpec == Spec /\ \A c \in Callers : WF_vars(Step(c))

-----------------------------------------------------------------------------
(***************************************************************************)
(* Properties                                                              *)
(***************************************************************************)
\* Rows, lock and requests hold values of their kind; a request past begin() names
\* a row of the table.
TypeOK ==
    /\ row \in Seq(Row)
    /\ lock \in Callers \cup {NoOne}
    /\ caller \in [Callers -> Caller]
    /\ \A c \in Callers : caller[c].phase \in {"running", "written"} => caller[c].id \in Ids

\* One trim at a time: a trim runs only under the lock, its row is running, and no
\* other row is, so whoever retires running rows retires only those of the dead.
SingleFlight ==
    \A c \in Callers : caller[c].phase = "running" => lock = c /\ Running = {caller[c].id}

\* The outcome of a trim is written once: a thread that lost its session never
\* overwrites the failure its successor recorded for it.
FinishedIsFinal ==
    [][\A j \in Ids : row[j].status \in Finished => row'[j].status = row[j].status]_vars

\* Whoever takes the lock gives it back.
LockIsReleased == \A c \in Callers : lock = c ~> lock # c

\* The doctor counts a failed row whose payload has been enqueued again as handled:
\* the retry is at last executed.
RetryIsHandled ==
    \A j \in 1..MaxRows :
        (j \in Ids /\ row[j].status = "pending") ~> (j \in Ids /\ row[j].status # "pending")

=============================================================================
