----------------------------- MODULE SlowCache ------------------------------
(***************************************************************************)
(* BackgroundCache, one key of it: the slow read endpoints answer from a   *)
(* cached figure and recompute behind it.  Requests run on the API's       *)
(* threads, a recompute on a thread of its own, an explicit ?refresh=true  *)
(* on the request's thread.  Keys do not interact.                         *)
(*                                                                         *)
(* The figure is abstracted to the version of the data it was computed     *)
(* from.                                                                   *)
(***************************************************************************)
EXTENDS Integers

CONSTANTS
    Callers,        \* requests
    Threads,        \* background threads
    Ttl,            \* ttl_sec
    MaxSource,      \* bound: changes of the data
    SpawnMayFail    \* whether Thread.start() may raise

ASSUME CacheAssumption ==
    Ttl \in Nat /\ MaxSource \in Nat /\ SpawnMayFail \in BOOLEAN

VARIABLES
    source,     \* the version of the data a compute would read now
    cache,      \* the cached figure's version, -1 before the first, and its age
    refreshing, \* the key's flag
    thread,     \* what each background thread is doing
    caller      \* what each request is doing

vars == <<source, cache, refreshing, thread, caller>>

Version == -1..MaxSource
\* "started": the thread computes.  "computed": it holds its figure.  "leaving": stored,
\* or failed; the finally clause is left.
Thread == [phase: {"none", "started", "computed", "leaving"}, ver: Version]
\* "missed": read() saw no fresh figure.  "asked", "computed": compute_now().
Caller == [phase: {"idle", "missed", "asked", "computed"}, ver: Version]

Active(t) == thread[t].phase # "none"
Stale     == cache.ver = -1 \/ cache.age > Ttl

Runs(t, phase, v) == thread' = [thread EXCEPT ![t] = [phase |-> phase, ver |-> v]]
Calls(c, phase, v) == caller' = [caller EXCEPT ![c] = [phase |-> phase, ver |-> v]]

\* _store: the age starts at the moment of storing.
Store(v) == cache' = [ver |-> v, age |-> 0]

-----------------------------------------------------------------------------
Init ==
    /\ source = 0 /\ cache = [ver |-> -1, age |-> 0]
    /\ refreshing = FALSE
    /\ thread = [t \in Threads |-> [phase |-> "none", ver |-> -1]]
    /\ caller = [c \in Callers |-> [phase |-> "idle", ver |-> -1]]

DataChanges ==
    /\ source < MaxSource
    /\ source' = source + 1
    /\ UNCHANGED <<cache, refreshing, thread, caller>>

Tick ==
    /\ cache.age <= Ttl
    /\ cache' = [cache EXCEPT !.age = @ + 1]
    /\ UNCHANGED <<source, refreshing, thread, caller>>

\* read() looks at the cache without the lock.  A fresh hit is answered at once.
Look(c) ==
    /\ caller[c].phase = "idle" /\ Stale
    /\ Calls(c, "missed", -1)
    /\ UNCHANGED <<source, cache, refreshing, thread>>

\* Mutant of StartRefresh: the flag is not read.
StartAlways(c) ==
    /\ caller[c].phase = "missed"
    /\ \E t \in Threads : ~Active(t) /\ Runs(t, "started", -1)
    /\ refreshing' = TRUE
    /\ Calls(c, "idle", -1)
    /\ UNCHANGED <<source, cache>>

\* start_refresh, and the answer.  With a refresh in flight nothing is started; when
\* start() raises, so does read(), and the flag stays up.
StartRefresh(c) ==
    /\ caller[c].phase = "missed"
    /\ \/ refreshing /\ UNCHANGED <<refreshing, thread>>
       \/ /\ ~refreshing /\ refreshing' = TRUE
          /\ \/ \E t \in Threads : ~Active(t) /\ Runs(t, "started", -1)
             \/ SpawnMayFail /\ UNCHANGED thread
    /\ Calls(c, "idle", -1)
    /\ UNCHANGED <<source, cache>>

ThreadComputes(t) ==
    /\ thread[t].phase = "started"
    /\ Runs(t, "computed", source)
    /\ UNCHANGED <<source, cache, refreshing, caller>>

\* A failed refresh keeps the last good answer.
ThreadFails(t) ==
    /\ thread[t].phase = "started"
    /\ Runs(t, "leaving", -1)
    /\ UNCHANGED <<source, cache, refreshing, caller>>

\* Mutant of ThreadStores: the figure is dropped.
ThreadDrops(t) ==
    /\ thread[t].phase = "computed"
    /\ Runs(t, "leaving", -1)
    /\ UNCHANGED <<source, cache, refreshing, caller>>

ThreadStores(t) ==
    /\ thread[t].phase = "computed"
    /\ Store(thread[t].ver)
    /\ Runs(t, "leaving", -1)
    /\ UNCHANGED <<source, refreshing, caller>>

\* finally: the flag goes down.
ThreadLeaves(t) ==
    /\ thread[t].phase = "leaving"
    /\ refreshing' = FALSE
    /\ Runs(t, "none", -1)
    /\ UNCHANGED <<source, cache, caller>>

\* compute_now: an explicit ?refresh=true, on the request's own thread, beside any
\* refresh that is in flight.
Ask(c) ==
    /\ caller[c].phase = "idle"
    /\ Calls(c, "asked", -1)
    /\ UNCHANGED <<source, cache, refreshing, thread>>

CallerComputes(c) ==
    /\ caller[c].phase = "asked"
    /\ \/ Calls(c, "computed", source)
       \/ Calls(c, "idle", -1)
    /\ UNCHANGED <<source, cache, refreshing, thread>>

CallerStores(c) ==
    /\ caller[c].phase = "computed"
    /\ Store(caller[c].ver)
    /\ Calls(c, "idle", -1)
    /\ UNCHANGED <<source, refreshing, thread>>

-----------------------------------------------------------------------------
ThreadStep(t) == ThreadComputes(t) \/ ThreadFails(t) \/ ThreadStores(t) \/ ThreadLeaves(t)

Next ==
    \/ DataChanges \/ Tick
    \/ \E c \in Callers : \/ Look(c) \/ StartRefresh(c)
                          \/ Ask(c) \/ CallerComputes(c) \/ CallerStores(c)
    \/ \E t \in Threads : ThreadStep(t)

Spec == Init /\ [][Next]_vars

\* Pages poll, threads and requests go on, time passes, and a compute does not fail for
\* ever.
FairSpec ==
    /\ Spec
    /\ WF_vars(Tick)
    /\ \A c \in Callers : /\ SF_vars(Look(c)) /\ WF_vars(StartRefresh(c))
                          /\ WF_vars(CallerComputes(c)) /\ WF_vars(CallerStores(c))
    /\ \A t \in Threads : WF_vars(ThreadStep(t)) /\ SF_vars(ThreadComputes(t))

-----------------------------------------------------------------------------
(***************************************************************************)
(* Properties                                                              *)
(***************************************************************************)
\* The cache, the flag, the threads and the requests hold values of their kind.
TypeOK ==
    /\ source \in 0..MaxSource
    /\ cache \in [ver: Version, age: 0..(Ttl + 1)]
    /\ refreshing \in BOOLEAN
    /\ thread \in [Threads -> Thread] /\ caller \in [Callers -> Caller]

\* One background recompute in flight, under the flag, from the moment it is started to
\* the moment its finally clause has run: several viewers do not each pay for a pass.
OneRefresh ==
    /\ \A t \in Threads : Active(t) => refreshing
    /\ \A s, t \in Threads : Active(s) /\ Active(t) => s = t

\* The flag is up and nobody will lower it: Thread.start() has raised.
Stuck == refreshing /\ \A t \in Threads : ~Active(t)

\* Once the data stops changing, the cache comes to hold its last version and keeps it,
\* although older computes may still be under way and store over newer ones.  Only a
\* thread that could not be started stands in the way.
EventuallyFresh == <>[](cache.ver = source) \/ <>[]Stuck

=============================================================================
