---------------------------- MODULE QueueHistory ----------------------------
(***************************************************************************)
(* ops_jobs.queue_sample: the series the sampler thread of the API process *)
(* writes about the queue, one row per interval (queue_history.py and      *)
(* api/queue_history.py).  The rows are keyed by kind and every count is   *)
(* grouped by kind, so one kind stands for all; a row's done_delta is kept *)
(* as the set of the jobs it counted, with who wrote it.  created_delta    *)
(* and failed_delta are the same count over another column.                *)
(***************************************************************************)
EXTENDS Integers, FiniteSets

CONSTANTS Jobs,        \* jobs that will finish
          Samplers,    \* API processes, each with a sampler thread
          Every,       \* SAMPLE_INTERVAL_SEC
          Keep,        \* KEEP_DAYS
          Horizon      \* bound: the clock stops here

VARIABLES clock,
          finished,    \* finished_at of a job, or Running
          visible,     \* jobs whose finish is committed and not yet trimmed
          sample,      \* sample_ts -> [jobs, by]: jobs counted, and who wrote the row
          wake,        \* when a sampler's sleep ends, or Off
          taken        \* what a sampler has read and not yet written

vars == <<clock, finished, visible, sample, wake, taken>>

Running == -1
Off == -1
Times == 0 .. Horizon
Grid == {t \in Times : t % Every = 0}
Nothing == [at |-> 0, jobs |-> {}, empty |-> TRUE]
Readings == [at : Grid, jobs : SUBSET Jobs, empty : BOOLEAN]
Counted == [jobs : SUBSET Jobs, by : {"sampler", "backfill"}]

TypeOK ==
    /\ clock \in Times
    /\ finished \in [Jobs -> Times \cup {Running}]
    /\ visible \subseteq {j \in Jobs : finished[j] # Running}
    /\ DOMAIN sample \subseteq Grid /\ \A t \in DOMAIN sample : sample[t] \in Counted
    /\ wake \in [Samplers -> {Off} \cup 0 .. (Horizon + Every + 1)]
    /\ taken \in [Samplers -> Readings]

Init ==
    /\ clock = 0
    /\ finished = [j \in Jobs |-> Running]
    /\ visible = {}
    /\ sample = [t \in {} |-> {}]
    /\ wake = [p \in Samplers |-> Off]
    /\ taken = [p \in Samplers |-> Nothing]

(* The boundary that closed last, and the finishes of a half-open window.  *)
Floor(t) == t - (t % Every)
DriftingWindow(since, until) ==      \* a slip: the last interval as of the read
    {j \in visible : clock - Every <= finished[j] /\ finished[j] < clock}
Window(since, until) == {j \in visible : since <= finished[j] /\ finished[j] < until}

Tick == /\ clock < Horizon
        /\ clock' = clock + 1
        /\ UNCHANGED <<finished, visible, sample, wake, taken>>

(* A worker stamps finished_at when its statement starts; the row is seen  *)
(* by others when the transaction commits.                                 *)
Finish(j) ==
    /\ finished[j] = Running
    /\ finished' = [finished EXCEPT ![j] = clock]
    /\ UNCHANGED <<clock, visible, sample, wake, taken>>

Commit(j) ==
    /\ finished[j] # Running
    /\ j \notin visible
    /\ clock <= finished[j] + 1                        \* bound: a commit takes a moment
    /\ visible' = visible \cup {j}
    /\ UNCHANGED <<clock, finished, sample, wake, taken>>

(* The trim slot deletes finished rows; the sampler does not know.         *)
TrimJobs == /\ visible # {}
            /\ \E gone \in SUBSET {j \in visible : finished[j] < clock - 1} :
                  gone # {} /\ visible' = visible \ gone
            /\ UNCHANGED <<clock, finished, sample, wake, taken>>

Sleep(t) == Floor(t) + Every + 1

(* start_sampler: once per process, then a sleep to just past a boundary.  *)
Start(p) ==
    /\ wake[p] = Off
    /\ wake' = [wake EXCEPT ![p] = Sleep(clock)]
    /\ UNCHANGED <<clock, finished, visible, sample, taken>>

(* take_sample, first transaction: depth and deltas, or a failed read that *)
(* leaves a gap.  A kind with nothing waiting and nothing counted is not   *)
(* written; one that has jobs waiting gets a row of zeros.                 *)
Read(p) ==
    /\ wake[p] # Off /\ clock >= wake[p]
    /\ taken[p] = Nothing
    /\ LET at == Floor(clock)
           jobs == Window(at - Every, at)
           depth == {j \in Jobs : finished[j] = Running}
       IN  taken' = [taken EXCEPT ![p] =
                        [at |-> at, jobs |-> jobs, empty |-> jobs \cup depth = {}]]
    /\ wake' = [wake EXCEPT ![p] = Sleep(clock)]
    /\ UNCHANGED <<clock, finished, visible, sample>>

ReadFails(p) ==
    /\ wake[p] # Off /\ clock >= wake[p]
    /\ taken[p] = Nothing
    /\ wake' = [wake EXCEPT ![p] = Sleep(clock)]
    /\ UNCHANGED <<clock, finished, visible, sample, taken>>

(* _write: an upsert of the row, or a failed write that leaves a gap.      *)
Upsert(t, jobs) ==
    [u \in DOMAIN sample \cup {t} |->
        IF u = t THEN [jobs |-> jobs, by |-> "sampler"] ELSE sample[u]]

Write(p) ==
    /\ taken[p] # Nothing
    /\ sample' = IF taken[p].empty THEN sample ELSE Upsert(taken[p].at, taken[p].jobs)
    /\ taken' = [taken EXCEPT ![p] = Nothing]
    /\ UNCHANGED <<clock, finished, visible, wake>>

WriteFails(p) ==
    /\ taken[p] # Nothing
    /\ taken' = [taken EXCEPT ![p] = Nothing]
    /\ UNCHANGED <<clock, finished, visible, sample, wake>>

(* The pod goes away, with whatever its sampler had read.                  *)
Restart(p) ==
    /\ wake[p] # Off
    /\ wake' = [wake EXCEPT ![p] = Off]
    /\ taken' = [taken EXCEPT ![p] = Nothing]
    /\ UNCHANGED <<clock, finished, visible, sample>>

(* trim_samples.                                                           *)
TrimSamples ==
    /\ \E t \in DOMAIN sample : t < clock - Keep
    /\ sample' = [t \in {u \in DOMAIN sample : u >= clock - Keep} |-> sample[t]]
    /\ UNCHANGED <<clock, finished, visible, wake, taken>>

(* backfill_from_jobs: one row per bucket of finished_at, stamped with the *)
(* bucket's own start; a row that is there already stays (DO NOTHING).     *)
Buckets == {Floor(finished[j]) : j \in visible} \ DOMAIN sample

Backfill ==
    /\ Buckets # {}
    /\ sample' = [t \in DOMAIN sample \cup Buckets |->
                    IF t \in DOMAIN sample THEN sample[t]
                    ELSE [jobs |-> {j \in visible : Floor(finished[j]) = t}, by |-> "backfill"]]
    /\ UNCHANGED <<clock, finished, visible, wake, taken>>

Next == \/ Tick \/ TrimJobs \/ TrimSamples \/ Backfill
        \/ \E j \in Jobs : Finish(j) \/ Commit(j)
        \/ \E p \in Samplers : \/ Start(p) \/ Read(p) \/ ReadFails(p)
                               \/ Write(p) \/ WriteFails(p) \/ Restart(p)

Spec == Init /\ [][Next]_vars

(***************************************************************************)
(* What the reader of the series adds up (read_series).                    *)
(***************************************************************************)
Series(since) == {t \in DOMAIN sample : t >= since}
Counts(j, by) == {t \in Series(clock - Keep) : j \in sample[t].jobs /\ sample[t].by = by}

(* No finish is counted by two rows the sampler wrote, however late it     *)
(* wakes, writes or restarts, nor by two rows of backfills, however often  *)
(* they run beside it: both snap to the grid and key their rows by it.  A  *)
(* sampler's row and a backfilled one may count the same finish.           *)
CountedOnce ==
    \A j \in Jobs : \A by \in {"sampler", "backfill"} : Cardinality(Counts(j, by)) <= 1
=============================================================================
