--------------------------- MODULE SnapshotChain ---------------------------
(***************************************************************************)
(* One session's option chain of one underlying, from the vendor's pages   *)
(* to the table.  A job downloads up to max_pages pages from its cursor,   *)
(* each with bounded retries, commits what it got in one transaction, and  *)
(* only then enqueues the rest of the chain as a job of its own.  The      *)
(* process may die between any two of these steps, and the session the     *)
(* chain is labelled with may pass meanwhile.                              *)
(*                                                                         *)
(* A page is a number; a cursor is the page it resumes at.  Of the rows    *)
(* of job_ingest with one payload the last is kept, which by JobQueue's    *)
(* UniqueActive is the only one that may be pending or running.            *)
(***************************************************************************)
EXTENDS Integers

CONSTANTS
    Pages,          \* the vendor's pages, numbers above 0; page 1 is the first
    Vendors,        \* next_url of each page, 0 at the end: the vendors considered
    Intraday,       \* whether the payload says intraday
    MaxPages,       \* max_pages of the client call
    MaxRetries,     \* max_retries of the client
    MaxDepth,       \* MAX_CHAIN_DEPTH
    MaxAttempts,    \* max_attempts of a job
    MaxRuns         \* bound: how often the chain is enqueued from its first page

VARIABLES
    next,       \* the vendor's next_url; never changes
    session,    \* the trade date: "open", "closed", then "past" when another opens
    runs,       \* how often the chain was enqueued
    table,      \* the pages whose rows are in option_snapshot under the trade date
    job         \* by payload: cursor and chain_depth

vars == <<next, session, runs, table, job>>

Payload == Pages \X (0..MaxDepth)

\* "skipped": done, with nothing written.  "cut": done, with a cursor left over.
Status == {"none", "pending", "running", "failed", "done", "skipped", "cut"}
\* "guard": before the session guard.  "paging": in _paginate.  "upsert": everything is
\* downloaded.  "continue": it is committed, the continuation not enqueued.
\* "mark", "leave": the handler has returned.
Pc == {"idle", "guard", "paging", "upsert", "continue", "mark", "leave"}

\* at: the next page to ask for, and at the end next_cursor.
Job == [status: Status, attempts: 0..MaxAttempts, pc: Pc, at: Pages \cup {0},
        got: SUBSET Pages, pages: 0..MaxPages, tries: 0..MaxRetries]

Row(status, attempts) == [status |-> status, attempts |-> attempts, pc |-> "idle", at |-> 0,
                          got |-> {}, pages |-> 0, tries |-> 0]

Is(k, pc)  == job[k].status = "running" /\ job[k].pc = pc
Active(k)  == job[k].status \in {"pending", "running"}
Set(k, r)  == job' = [job EXCEPT ![k] = r]
Leaves(k, status) == Set(k, Row(status, job[k].attempts))
First == <<1, 0>>

\* insert_job: a pending or running row with this payload makes it a no-op.
Inserted(jobs, k) ==
    IF jobs[k].status \in {"pending", "running"} THEN jobs
    ELSE [jobs EXCEPT ![k] = Row("pending", 0)]

-----------------------------------------------------------------------------
Init ==
    /\ next \in Vendors /\ session \in {"open", "closed"}
    /\ runs = 0 /\ table = {}
    /\ job = [k \in Payload |-> Row("none", 0)]

\* The slot, an API request or the doctor.
Enqueue ==
    /\ runs < MaxRuns /\ runs' = runs + 1
    /\ job' = Inserted(job, First)
    /\ UNCHANGED <<next, session, table>>

TimePasses ==
    /\ \/ session = "open" /\ session' = "closed"
       \/ session = "closed" /\ session' = "past"
    /\ UNCHANGED <<next, runs, table, job>>

Claim(k) ==
    /\ job[k].status = "pending"
    /\ Set(k, [Row("running", job[k].attempts + 1) EXCEPT !.pc = "guard"])
    /\ UNCHANGED <<next, session, runs, table>>

\* An EOD chain is observed after its session has closed and before the next one opens.
Guard(k) ==
    /\ Is(k, "guard")
    /\ IF Intraday \/ session = "closed"
       THEN Set(k, [job[k] EXCEPT !.pc = "paging", !.at = k[1]])
       ELSE Set(k, [job[k] EXCEPT !.pc = "leave"])
    /\ UNCHANGED <<next, session, runs, table>>

\* Where _paginate stands after n pages, the last of which leads to at.
Onward(at, n) == IF at # 0 /\ n < MaxPages THEN "paging" ELSE "upsert"

\* Mutant of Page: the last page is counted and not kept.
PageDropsLast(k) ==
    /\ Is(k, "paging")
    /\ LET p == job[k].at  n == job[k].pages + 1 IN
       Set(k, [job[k] EXCEPT !.got = IF n = MaxPages THEN @ ELSE @ \cup {p}, !.at = next[p],
                             !.pages = n, !.tries = 0, !.pc = Onward(next[p], n)])
    /\ UNCHANGED <<next, session, runs, table>>

\* _request returns a page, _paginate keeps it and goes on to next_url.
Page(k) ==
    /\ Is(k, "paging")
    /\ LET p == job[k].at  n == job[k].pages + 1 IN
       Set(k, [job[k] EXCEPT !.got = @ \cup {p}, !.at = next[p], !.pages = n, !.tries = 0,
                             !.pc = Onward(next[p], n)])
    /\ UNCHANGED <<next, session, runs, table>>

\* A 429, a transport error or a transient status: _request sleeps and tries again,
\* unless this was its last attempt.
Transient(k) ==
    /\ Is(k, "paging") /\ job[k].tries + 1 < MaxRetries
    /\ Set(k, [job[k] EXCEPT !.tries = @ + 1])
    /\ UNCHANGED <<next, session, runs, table>>

\* Three upserts and one commit.
Upsert(k) ==
    /\ Is(k, "upsert")
    /\ table' = table \cup job[k].got
    /\ Set(k, [job[k] EXCEPT !.pc = "continue"])
    /\ UNCHANGED <<next, session, runs>>

\* The rest of the chain as a job, with its own commit.
Continue(k) ==
    /\ Is(k, "continue")
    /\ LET marked == [job EXCEPT ![k].pc = "mark"] IN
       job' = IF job[k].at # 0 /\ k[2] < MaxDepth THEN Inserted(marked, <<job[k].at, k[2] + 1>>)
              ELSE marked
    /\ UNCHANGED <<next, session, runs, table>>

\* The handler has returned: mark_done.
MarkDone(k) ==
    /\ \/ Is(k, "leave") /\ Leaves(k, "skipped")
       \/ Is(k, "mark") /\ Leaves(k, IF job[k].at # 0 /\ k[2] = MaxDepth THEN "cut" ELSE "done")
    /\ UNCHANGED <<next, session, runs, table>>

\* Mutant of Fail: one attempt too many.
FailLate(k) ==
    /\ job[k].status = "running"
    /\ Leaves(k, IF job[k].attempts <= MaxAttempts THEN "pending" ELSE "failed")
    /\ UNCHANGED <<next, session, runs, table>>

\* The handler raises (retries exhausted, another status, a body that says ERROR, a
\* failed upsert or insert), or the process dies: mark_failed or the reclaim.
Fail(k) ==
    /\ job[k].status = "running"
    /\ Leaves(k, IF job[k].attempts < MaxAttempts THEN "pending" ELSE "failed")
    /\ UNCHANGED <<next, session, runs, table>>

-----------------------------------------------------------------------------
Step(k) == \/ Claim(k) \/ Guard(k) \/ Page(k) \/ Transient(k) \/ Upsert(k) \/ Continue(k)
           \/ MarkDone(k) \/ Fail(k)

Next == Enqueue \/ TimePasses \/ \E k \in Payload : Step(k)

Spec == Init /\ [][Next]_vars

\* Workers claim what is pending, and what is claimed is worked on or reclaimed.
FairSpec == Spec /\ \A k \in Payload : WF_vars(Step(k))

-----------------------------------------------------------------------------
(***************************************************************************)
(* Properties                                                              *)
(***************************************************************************)
\* The session, the pages in the table and the jobs hold values of their kind.
TypeOK ==
    /\ next \in Vendors /\ session \in {"open", "closed", "past"} /\ runs \in 0..MaxRuns
    /\ table \subseteq Pages
    /\ job \in [Payload -> Job]

\* A chain whose jobs all say done is whole: the table has its first page and after each
\* of its pages the next one.  Neither a crash between the commit and the continuation,
\* nor a continuation that was there already, leaves a gap behind a done job.
ChainWhole ==
    (job[First].status = "done" /\ \A k \in Payload : job[k].status \in {"none", "done"})
        => 1 \in table /\ \A p \in table : next[p] \in table \cup {0}

=============================================================================
