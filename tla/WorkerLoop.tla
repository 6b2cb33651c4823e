----------------------------- MODULE WorkerLoop -----------------------------
(***************************************************************************)
(* One worker process: the main coroutine of run_loop, the tasks it keeps  *)
(* in flight, the semaphore that bounds them, and the pool of connections  *)
(* they work on.  The main coroutine alone takes connections from the      *)
(* pool, on a helper thread; a task inherits the one its job was claimed   *)
(* on and gives it back.  What a claim does to the queue is JobQueue's;    *)
(* here it returns a job, or none, or raises.                              *)
(*                                                                         *)
(* Coroutines interleave where they await; the pool's methods run on       *)
(* helper threads and interleave at its lock.  The deque's order is not    *)
(* kept: any idle connection may be the one that is handed out.            *)
(***************************************************************************)
EXTENDS Integers, FiniteSets

CONSTANTS
    Tasks,      \* identities of the tasks that can be alive at a time
    Main,       \* the main coroutine
    Conns,      \* identities of the connections that can be open at a time
    NoConn,     \* no connection
    Max         \* max_concurrency

ASSUME LoopAssumption ==
    /\ Max \in Nat \ {0}
    /\ IsFiniteSet(Tasks) /\ IsFiniteSet(Conns)
    /\ Main \notin Tasks /\ NoConn \notin Conns

VARIABLES
    pc,         \* where the main coroutine is
    turns,      \* claims made by the current for loop
    due,        \* reclaim_every_sec have passed since the last reclaim
    stop,       \* shutdown_event
    permits,    \* the semaphore's value
    task,       \* where each task is
    has,        \* the connection that the main coroutine or a task holds
    idle,       \* the pool's idle connections
    dead,       \* connections that the server has dropped
    noticed     \* those whose closed attribute says so, because a use of them failed

pool == <<has, idle, dead, noticed>>
vars == <<pc, turns, due, stop, permits, task, pool>>

Users == Tasks \cup {Main}
Size  == Max + 1

\* "opening", "reopening": the pool had no idle connection, connect() is under way.  "nothing",
\* "raised": how claim_and_run leaves when it claimed no job.
Pc == {"top", "reclaim", "reopening", "reclaiming", "reclaimed", "fill", "permit", "connect",
       "opening", "claim", "nothing", "raised", "rest", "backoff", "drain", "close",
       "stopped"}
\* "working": process_one_job.  "leaving": its connection is back, the permit is not.
\* "done": the task has ended, its discard callback has not run.
TaskPc == {"none", "working", "returning", "leaving", "done"}

InFlight == {t \in Tasks : task[t] # "none"}
Held     == {has[u] : u \in Users} \ {NoConn}
Open     == idle \cup Held

At(p) == pc = p
To(p) == pc' = p

-----------------------------------------------------------------------------
(***************************************************************************)
(* ConnectionPool.                                                         *)
(***************************************************************************)
\* A closed connection; its identity may be used again.
Gone(c) == dead' = dead \ {c} /\ noticed' = noticed \ {c}

\* acquire: one turn of its loop.  A connection known to be broken is closed.
Pop(then) ==
    \E c \in idle :
        /\ idle' = idle \ {c}
        /\ IF c \in noticed
           THEN Gone(c) /\ UNCHANGED <<has, pc>>
           ELSE has' = [has EXCEPT ![Main] = c] /\ To(then) /\ UNCHANGED <<dead, noticed>>

\* The connect() that follows when none was idle.
Connected(then) ==
    \E c \in Conns \ Open :
        /\ has' = [has EXCEPT ![Main] = c] /\ To(then)
        /\ UNCHANGED <<idle, dead, noticed>>

\* The idle list is looked at under the lock, the connection is opened without it.
Acquire(start, opening, then, failed) ==
    \/ At(start) /\ Pop(then)
    \/ At(start) /\ idle = {} /\ To(opening) /\ UNCHANGED pool
    \/ At(opening) /\ Connected(then)
    \/ At(opening) /\ To(failed) /\ UNCHANGED pool

\* release: closed when it is not to be reused or is known to be broken.  The rollback
\* of a connection without an open transaction does not reach the server, so it need
\* not find out.
Return(u, reuse) ==
    LET c == has[u] IN
    /\ \/ /\ reuse /\ c \notin noticed /\ Cardinality(idle) < Size
          /\ idle' = idle \cup {c} /\ UNCHANGED <<dead, noticed>>
       \/ /\ ~reuse \/ c \in dead \/ Cardinality(idle) >= Size
          /\ idle' = idle /\ Gone(c)
    /\ has' = [has EXCEPT ![u] = NoConn]

\* A statement on the connection: on one the server has dropped it raises, and from
\* then on the closed attribute is set.
Fails(u) == has[u] \in dead
Use(u)   == noticed' = (IF Fails(u) THEN noticed \cup {has[u]} ELSE noticed)
            /\ UNCHANGED <<has, idle, dead>>

-----------------------------------------------------------------------------
Init ==
    /\ pc = "top" /\ turns = 0 /\ due = TRUE /\ stop = FALSE
    /\ permits = Max
    /\ task = [t \in Tasks |-> "none"]
    /\ has = [u \in Users |-> NoConn]
    /\ idle = {} /\ dead = {} /\ noticed = {}

\* SIGTERM, the clock, and the server: none waits for the loop.
Signal ==
    /\ ~stop /\ stop' = TRUE
    /\ UNCHANGED <<pc, turns, due, permits, task, pool>>

ClockPasses ==
    /\ ~due /\ due' = TRUE
    /\ UNCHANGED <<pc, turns, stop, permits, task, pool>>

ServerDrops(c) ==
    /\ c \in Open \ dead
    /\ dead' = dead \cup {c}
    /\ UNCHANGED <<pc, turns, due, stop, permits, task, has, idle, noticed>>

(***************************************************************************)
(* The main coroutine.                                                     *)
(***************************************************************************)
\* while not stop: the reclaim when it is due.
Top ==
    /\ At("top")
    /\ To(IF stop THEN "drain" ELSE IF due THEN "reclaim" ELSE "fill")
    /\ turns' = 0
    /\ task' = IF stop \/ due THEN task
               ELSE [t \in Tasks |-> IF task[t] = "done" THEN "none" ELSE task[t]]
    /\ UNCHANGED <<due, stop, permits, pool>>

\* reclaim_once swallows every exception, that of connect() too.
ReclaimAcquires ==
    /\ Acquire("reclaim", "reopening", "reclaiming", "reclaimed")
    /\ UNCHANGED <<turns, due, stop, permits, task>>

Reclaims ==
    /\ At("reclaiming")
    /\ Use(Main)
    /\ To("reclaimed")
    /\ UNCHANGED <<turns, due, stop, permits, task>>

\* last_reclaim = now, and the finished tasks are dropped.
ReclaimEnds ==
    /\ At("reclaimed")
    /\ IF has[Main] # NoConn THEN Return(Main, TRUE) ELSE UNCHANGED pool
    /\ due' = FALSE
    /\ task' = [t \in Tasks |-> IF task[t] = "done" THEN "none" ELSE task[t]]
    /\ To("fill")
    /\ UNCHANGED <<turns, stop, permits>>

\* for _ in range(max_concurrency)
Fill ==
    /\ At("fill")
    /\ To(IF stop THEN "drain"
          ELSE IF turns < Max /\ Cardinality(InFlight) < Max THEN "permit" ELSE "rest")
    /\ UNCHANGED <<turns, due, stop, permits, task, pool>>

\* await sem.acquire()
TakePermit ==
    /\ At("permit") /\ permits > 0
    /\ permits' = permits - 1
    /\ To("connect")
    /\ UNCHANGED <<turns, due, stop, task, pool>>

ClaimAcquires ==
    /\ Acquire("connect", "opening", "claim", "raised")
    /\ UNCHANGED <<turns, due, stop, permits, task>>

\* Mutant of ClaimsJob: the main coroutine does not let go of the connection.
ClaimsJobKeeping(t) ==
    /\ At("claim") /\ ~Fails(Main) /\ task[t] = "none"
    /\ task' = [task EXCEPT ![t] = "working"]
    /\ has' = [has EXCEPT ![t] = has[Main]]
    /\ turns' = turns + 1
    /\ To("fill")
    /\ UNCHANGED <<due, stop, permits, idle, dead, noticed>>

\* claim_fn returned a job: a task owns the connection and the permit.
ClaimsJob(t) ==
    /\ At("claim") /\ ~Fails(Main) /\ task[t] = "none"
    /\ task' = [task EXCEPT ![t] = "working"]
    /\ has' = [has EXCEPT ![t] = has[Main], ![Main] = NoConn]
    /\ turns' = turns + 1
    /\ To("fill")
    /\ UNCHANGED <<due, stop, permits, idle, dead, noticed>>

ClaimsNone ==
    /\ At("claim") /\ ~Fails(Main)
    /\ To("nothing")
    /\ UNCHANGED <<turns, due, stop, permits, task, pool>>

\* The connection is dead, or the statement failed.
ClaimRaises ==
    /\ At("claim")
    /\ Use(Main)
    /\ To("raised")
    /\ UNCHANGED <<turns, due, stop, permits, task>>

ReturnFalse ==
    /\ At("nothing")
    /\ Return(Main, TRUE)
    /\ permits' = permits + 1
    /\ To("rest")
    /\ UNCHANGED <<turns, due, stop, task>>

\* Mutant of Reraise: the permit is not given back.
ReraiseKeepingPermit ==
    /\ At("raised")
    /\ IF has[Main] # NoConn THEN Return(Main, FALSE) ELSE UNCHANGED pool
    /\ To("backoff")
    /\ UNCHANGED <<turns, due, stop, permits, task>>

Reraise ==
    /\ At("raised")
    /\ IF has[Main] # NoConn THEN Return(Main, FALSE) ELSE UNCHANGED pool
    /\ permits' = permits + 1
    /\ To("backoff")
    /\ UNCHANGED <<turns, due, stop, task>>

\* asyncio.wait, or the poll interval: both have a timeout.
Rest ==
    /\ pc \in {"rest", "backoff"}
    /\ To("top")
    /\ UNCHANGED <<turns, due, stop, permits, task, pool>>

\* finally: gather the tasks in flight, then close the pool.
Drain ==
    /\ At("drain") /\ \A t \in InFlight : task[t] = "done"
    /\ To("close")
    /\ UNCHANGED <<turns, due, stop, permits, task, pool>>

Close ==
    /\ At("close")
    /\ idle' = {} /\ dead' = {} /\ noticed' = {} /\ To("stopped")
    /\ UNCHANGED <<turns, due, stop, permits, task, has>>

(***************************************************************************)
(* Tasks.                                                                  *)
(***************************************************************************)
\* process_one_job ends, with an outcome written or with an exception.
TaskWorks(t) ==
    /\ task[t] = "working"
    /\ Use(t)
    /\ task' = [task EXCEPT ![t] = "returning"]
    /\ UNCHANGED <<pc, turns, due, stop, permits>>

\* finally: the connection, then the permit.
TaskReturns(t) ==
    /\ task[t] = "returning"
    /\ Return(t, TRUE)
    /\ task' = [task EXCEPT ![t] = "leaving"]
    /\ UNCHANGED <<pc, turns, due, stop, permits>>

\* Mutant of TaskLeaves: the finally clause returns the connection alone.
TaskKeepsPermit(t) ==
    /\ task[t] = "leaving"
    /\ task' = [task EXCEPT ![t] = "done"]
    /\ UNCHANGED <<pc, turns, due, stop, permits, pool>>

TaskLeaves(t) ==
    /\ task[t] = "leaving"
    /\ permits' = permits + 1
    /\ task' = [task EXCEPT ![t] = "done"]
    /\ UNCHANGED <<pc, turns, due, stop, pool>>

\* The discard callback.
Discard(t) ==
    /\ task[t] = "done"
    /\ task' = [task EXCEPT ![t] = "none"]
    /\ UNCHANGED <<pc, turns, due, stop, permits, pool>>

-----------------------------------------------------------------------------
MainStep ==
    \/ Top \/ ReclaimAcquires \/ Reclaims \/ ReclaimEnds
    \/ Fill \/ TakePermit \/ ClaimAcquires
    \/ (\E t \in Tasks : ClaimsJob(t)) \/ ClaimsNone \/ ClaimRaises
    \/ ReturnFalse \/ Reraise \/ Rest \/ Drain \/ Close

TaskStep(t) == TaskWorks(t) \/ TaskReturns(t) \/ TaskLeaves(t) \/ Discard(t)

Next ==
    \/ MainStep
    \/ \E t \in Tasks : TaskStep(t)
    \/ Signal \/ ClockPasses \/ \E c \in Conns : ServerDrops(c)

Spec == Init /\ [][Next]_vars

\* The coroutines are scheduled, connect(), a claim and a reclaim return (connect and
\* statement timeouts), and so does a job (job_timeout).
FairSpec == Spec /\ WF_vars(MainStep) /\ \A t \in Tasks : WF_vars(TaskStep(t))

-----------------------------------------------------------------------------
(***************************************************************************)
(* Properties                                                              *)
(***************************************************************************)
\* The loop, its tasks and the pool hold values of their kind.
TypeOK ==
    /\ pc \in Pc /\ turns \in 0..Max /\ due \in BOOLEAN /\ stop \in BOOLEAN
    /\ permits \in 0..Max
    /\ task \in [Tasks -> TaskPc]
    /\ has \in [Users -> Conns \cup {NoConn}]
    /\ idle \subseteq Conns /\ dead \subseteq Conns /\ noticed \subseteq dead

\* Whoever holds one of the semaphore's permits: the main coroutine while it claims,
\* and every task until its finally clause has run.
Holders == {t \in Tasks : task[t] \in {"working", "returning", "leaving"}}
           \cup (IF pc \in {"connect", "opening", "claim", "nothing", "raised"}
                 THEN {Main} ELSE {})

\* No permit is lost or made up on any path: no job, a claim that raises, a connection
\* that cannot be opened, a job that fails, a shutdown.
PermitsKept == permits + Cardinality(Holders) = Max

\* The loop looks at the tasks in flight before it claims, so sem.acquire never waits,
\* which would hold up the reclaim tick and the shutdown.
ClaimNeverWaits == At("permit") => permits > 0

\* A connection is owned exclusively between acquire and release: never by two users,
\* never by one and the idle list.  A working task has one.
OwnedByOne ==
    /\ \A u, v \in Users : has[u] = has[v] /\ has[u] # NoConn => u = v
    /\ Held \cap idle = {}
    /\ \A t \in Tasks : task[t] \in {"working", "returning"} <=> has[t] # NoConn

\* One connection per slot and one for the reclaim is enough: no more are ever open,
\* although the pool opens one whenever none is idle.
PoolBounded == Cardinality(Open) <= Size

\* A stopped worker leaves no job half done and no connection open.
StoppedClean == At("stopped") => Open = {} /\ Holders = {}

\* A reclaim that has come due is run, while jobs run and claims fail.
ReclaimKeepsCadence == due ~> (~due \/ stop)

\* A signal at any point ends the worker.
Stops == stop ~> At("stopped")

=============================================================================
