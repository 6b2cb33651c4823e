-------------------------- MODULE ObservationProofs --------------------------
(*******************************************************************************)
(* Proofs about the parts that watch the others, together and for every value  *)
(* of the constants: any number of requests, threads, jobs, samplers, rows,    *)
(* slots and faults.                                                           *)
(*                                                                             *)
(* Each part has an inductive invariant over its own variables: the cache its  *)
(* types and its flag, the queue SeriesInv, the labels FiledInv, the memory    *)
(* MemoryTypes and MemoryInv, the width its types, the slots SlotInv, and the  *)
(* report ReadsInv.  For each of them there is a lemma that the first state    *)
(* has it, one that a step of the part keeps it, and one that it says what     *)
(* the runs check.  A step of the whole is a step of one part, so AllInv,      *)
(* their conjunction, is inductive as well; the theorems follow from it at the *)
(* end of the module.                                                          *)
(*******************************************************************************)
EXTENDS Observation, OrderLemmas, SequenceTheorems

-----------------------------------------------------------------------------
(* An instance has operators of the library of its own, which are the library's. *)

\* The size of a set.
LEMMA SameCardinality ==
    \A S : /\ Queue!Cardinality(S) = Cardinality(S)
           /\ Memory!Cardinality(S) = Cardinality(S)
           /\ Evidence!Cardinality(S) = Cardinality(S)
  BY DEF Queue!Cardinality, Memory!Cardinality, Evidence!Cardinality, Cardinality

\* The greatest of some numbers.
LEMMA SameMax == \A S : Label!Max(S) = Max(S) /\ Evidence!Max(S) = Max(S)
  BY DEF Label!Max, Evidence!Max, Max

\* Both, and the least of some numbers, where the tables are judged.
LEMMA SameHere ==
    \A S : Tables!Max(S) = Max(S) /\ Tables!Min(S) = Min(S) /\ Tables!Cardinality(S) = Cardinality(S)
  BY DEF Tables!Max, Tables!Min, Tables!Cardinality, Max, Min, Cardinality

-----------------------------------------------------------------------------
(* The cache.  The flag `in_flight` and the phase of the thread that was given it move *)
(* together, under the lock or in the thread's last step (slow_cache.py).              *)

\* A thread's step changes its own record only.
LEMMA RunsEffect ==
    ASSUME TypeOK, NEW t \in Threads, NEW phase \in {"none", "started", "computed", "leaving"},
           NEW v \in Version, Runs(t, phase, v)
    PROVE  /\ thread' \in [Threads -> Thread]
           /\ thread'[t].phase = phase
           /\ \A s \in Threads : s # t => thread'[s] = thread[s]
  BY DEF TypeOK, Runs, Thread

\* A request's step changes its own record only.
LEMMA CallsEffect ==
    ASSUME TypeOK, NEW c \in Callers, NEW phase \in {"idle", "missed", "asked", "computed"},
           NEW v \in Version, Calls(c, phase, v)
    PROVE  caller' \in [Callers -> Caller]
  BY DEF TypeOK, Calls, Caller

\* What a step of a thread or of a request may read or store is a version.
LEMMA Versions ==
    ASSUME TypeOK
    PROVE  /\ -1 \in Version /\ source \in Version /\ cache.ver \in Version
           /\ \A t \in Threads : thread[t].ver \in Version
           /\ \A c \in Callers : caller[c].ver \in Version
  BY CacheAssumption DEF TypeOK, Version, Thread, Caller

\* The types hold after every step.
LEMMA TypeStep ==
    ASSUME TypeOK, [Next]_vars
    PROVE  TypeOK'
  <1> USE Versions, CacheAssumption
  <1>1. CASE DataChanges  BY <1>1 DEF DataChanges, TypeOK
  <1>2. CASE Tick
    <2>1. cache.age + 1 \in 0..(Ttl + 1)  BY <1>2 DEF Tick, TypeOK
    <2> QED  BY <1>2, <2>1 DEF Tick, TypeOK
  <1>3. ASSUME NEW v \in Version, Store(v)
        PROVE  cache' \in [ver: Version, age: 0..(Ttl + 1)]
    BY <1>3 DEF Store
  <1>4. CASE \E c \in Callers : Look(c) \/ Ask(c) \/ CallerComputes(c)
    BY <1>4, CallsEffect DEF Look, Ask, CallerComputes, TypeOK
  <1>5. ASSUME NEW c \in Callers, StartRefresh(c) PROVE TypeOK'
    <2>1. caller' \in [Callers -> Caller]  BY <1>5, CallsEffect DEF StartRefresh
    <2>2. thread' \in [Threads -> Thread]  BY <1>5, RunsEffect DEF StartRefresh, TypeOK
    <2>3. refreshing' \in BOOLEAN  BY <1>5 DEF StartRefresh, TypeOK
    <2> QED  BY <1>5, <2>1, <2>2, <2>3 DEF StartRefresh, TypeOK
  <1>6. ASSUME NEW c \in Callers, CallerStores(c) PROVE TypeOK'
    BY <1>3, <1>6, CallsEffect DEF CallerStores, TypeOK
  <1>7. ASSUME NEW t \in Threads, ThreadStep(t) PROVE TypeOK'
    <2>1. CASE ThreadComputes(t) \/ ThreadFails(t)
      BY <2>1, RunsEffect DEF ThreadComputes, ThreadFails, TypeOK
    <2>2. CASE ThreadStores(t)
      BY <1>3, <2>2, RunsEffect DEF ThreadStores, TypeOK
    <2>3. CASE ThreadLeaves(t)
      BY <2>3, RunsEffect DEF ThreadLeaves, TypeOK
    <2> QED  BY <1>7, <2>1, <2>2, <2>3 DEF ThreadStep
  <1>8. CASE UNCHANGED vars  BY <1>8 DEF vars, TypeOK
  <1> QED  BY <1>1, <1>2, <1>4, <1>5, <1>6, <1>7, <1>8 DEF Next

\* Nothing is in flight at first.
LEMMA CacheInit == ASSUME Init PROVE TypeOK /\ OneRefresh
  <1>1. -1 \in Version  BY CacheAssumption DEF Version
  <1>2. source \in 0..MaxSource /\ 0 \in 0..(Ttl + 1)  BY CacheAssumption DEF Init
  <1>3. thread \in [Threads -> Thread] /\ caller \in [Callers -> Caller]
    BY <1>1 DEF Init, Thread, Caller
  <1>4. TypeOK  BY <1>1, <1>2, <1>3 DEF Init, TypeOK
  <1> QED  BY <1>4 DEF Init, OneRefresh, Active

\* The flag changes hands one at a time: no step makes a second thread active.
LEMMA OneRefreshStep ==
    ASSUME TypeOK, OneRefresh, [Next]_vars
    PROVE  OneRefresh'
  <1> USE Versions
  <1>1. CASE UNCHANGED <<thread, refreshing>>  BY <1>1 DEF OneRefresh, Active
  <1>2. CASE \/ DataChanges \/ Tick \/ UNCHANGED vars
             \/ \E c \in Callers : Look(c) \/ Ask(c) \/ CallerComputes(c) \/ CallerStores(c)
    BY <1>1, <1>2 DEF DataChanges, Tick, vars, Look, Ask, CallerComputes, CallerStores
  <1>3. ASSUME NEW c \in Callers, StartRefresh(c) PROVE OneRefresh'
    <2>1. CASE refreshing /\ UNCHANGED <<refreshing, thread>>  BY <1>1, <2>1
    <2>2. CASE ~refreshing /\ refreshing' /\ UNCHANGED thread
      BY <2>2 DEF OneRefresh, Active
    <2>3. ASSUME ~refreshing, refreshing', NEW t \in Threads, Runs(t, "started", -1)
          PROVE  OneRefresh'
      <3>1. \A s \in Threads : ~Active(s)  BY <2>3 DEF OneRefresh
      <3>2. \A s \in Threads : s # t => thread'[s] = thread[s]  BY <2>3, RunsEffect
      <3> QED  BY <2>3, <3>1, <3>2 DEF OneRefresh, Active
    <2> QED  BY <1>3, <2>1, <2>2, <2>3 DEF StartRefresh
  <1>4. ASSUME NEW t \in Threads, ThreadStep(t) PROVE OneRefresh'
    <2>1. Active(t)
      BY <1>4 DEF ThreadStep, ThreadComputes, ThreadFails, ThreadStores, ThreadLeaves, Active
    <2>2. \A s \in Threads : s # t => thread'[s] = thread[s]
      BY <1>4, RunsEffect
         DEF ThreadStep, ThreadComputes, ThreadFails, ThreadStores, ThreadLeaves
    <2>3. \A s \in Threads : s # t => ~Active(s)'
      BY <2>1, <2>2 DEF OneRefresh, Active
    <2>4. ~Active(t)' \/ refreshing'
      <3>1. CASE ThreadLeaves(t)
        <4>1. thread'[t].phase = "none"  BY <3>1, RunsEffect DEF ThreadLeaves
        <4> QED  BY <4>1 DEF Active
      <3>2. CASE refreshing' = refreshing  BY <2>1, <3>2 DEF OneRefresh
      <3> QED  BY <1>4, <3>1, <3>2 DEF ThreadStep, ThreadComputes, ThreadFails, ThreadStores
    <2> QED  BY <2>3, <2>4 DEF OneRefresh
  <1> QED  BY <1>2, <1>3, <1>4 DEF Next

-----------------------------------------------------------------------------
(* The queue.  A row of the series counts the finishes of one interval of the grid, and a *)
(* writer has one row for an interval (queue_history.py).                                 *)

\* A job that is over.
Finished(j) == finished[j] # Queue!Running

\* A row counts finishes of its own interval: the sampler's is stamped with the end of it,
\* a backfilled one with its start.  The same holds of what a sampler has read.
Ended(t, j)  == Finished(j) /\ t - SampleEvery <= finished[j] /\ finished[j] < t
Opened(t, j) == Finished(j) /\ t <= finished[j] /\ finished[j] < t + SampleEvery

\* What a sampler has in hand, and what the rows of the series count.
ReadInPlace ==
    \A p \in SamplerThreads : \A j \in taken[p].jobs : j \in CountedJobs /\ Ended(taken[p].at, j)
RowsInPlace ==
    \A t \in DOMAIN sample : \A j \in sample[t].jobs :
        /\ j \in CountedJobs
        /\ sample[t].by = "sampler"  => Ended(t, j)
        /\ sample[t].by = "backfill" => Opened(t, j)

\* The inductive invariant of the series.
SeriesInv == Queue!TypeOK /\ ReadInPlace /\ RowsInPlace

\* A multiple of the interval is its quotient times the interval.
LEMMA Multiple ==
    ASSUME NEW e \in Nat \ {0}, NEW t \in Int
    PROVE  t \div e \in Int /\ t - (t % e) = e * (t \div e) /\ t % e \in 0..(e - 1)
  OBVIOUS

\* Multiples of a number are a whole number of it apart.
LEMMA Spacing ==
    ASSUME NEW e \in Nat \ {0}, NEW a \in Int, NEW b \in Int, a < b
    PROVE  e * a + e <= e * b
  OBVIOUS

\* A multiple of the interval is on the grid.
LEMMA MultipleOnGrid ==
    ASSUME NEW e \in Nat \ {0}, NEW q \in Int
    PROVE  (e * q) % e = 0
  OBVIOUS

\* The boundary before one of the grid is on the grid as well.
LEMMA OnGridBefore ==
    ASSUME NEW e \in Nat \ {0}, NEW t \in Int, t % e = 0
    PROVE  (t - e) % e = 0
  <1> DEFINE q == t \div e
  <1>1. t = e * q /\ q \in Int  BY Multiple
  <1> HIDE DEF q
  <1>2. t - e = e * (q - 1)  BY <1>1
  <1>3. q - 1 \in Int  BY <1>1
  <1>4. (e * (q - 1)) % e = 0  BY <1>3, MultipleOnGrid
  <1> QED  BY <1>2, <1>4

\* Two intervals of the grid that share a moment are the same.
LEMMA OneInterval ==
    ASSUME NEW e \in Nat \ {0}, NEW s \in Int, NEW t \in Int, s % e = 0, t % e = 0,
           NEW f \in Int, s <= f, f < s + e, t <= f, f < t + e
    PROVE  s = t
  <1> DEFINE a == s \div e
             b == t \div e
  <1>1. a \in Int /\ b \in Int /\ s = e * a /\ t = e * b  BY Multiple
  <1>2. ASSUME a < b PROVE FALSE
    <2>1. s + e <= t  BY <1>1, <1>2, Spacing
    <2> QED  BY <2>1
  <1>3. ASSUME b < a PROVE FALSE
    <2>1. t + e <= s  BY <1>1, <1>3, Spacing
    <2> QED  BY <2>1
  <1> QED  BY <1>1, <1>2, <1>3

\* The boundary before a moment.
LEMMA FloorOnGrid ==
    ASSUME SamplerAssumption, NEW t \in Queue!Times
    PROVE  Queue!Floor(t) \in Queue!Grid /\ Queue!Floor(t) <= t /\ t < Queue!Floor(t) + SampleEvery
  <1>1. /\ t \div SampleEvery \in Int /\ Queue!Floor(t) = SampleEvery * (t \div SampleEvery)
        /\ t % SampleEvery \in 0..(SampleEvery - 1) /\ t \in Int
    <2>1. t \in Int /\ SampleEvery \in Nat \ {0}  BY DEF SamplerAssumption, Queue!Times
    <2> QED  BY <2>1, Multiple DEF Queue!Floor
  <1>2. Queue!Floor(t) % SampleEvery = 0  BY <1>1, MultipleOnGrid DEF SamplerAssumption
  <1>3. Queue!Floor(t) = t - (t % SampleEvery)  BY DEF Queue!Floor
  <1>4. Queue!Floor(t) <= t /\ t < Queue!Floor(t) + SampleEvery /\ Queue!Floor(t) \in Int
    BY <1>1, <1>3 DEF SamplerAssumption
  <1>5. Queue!Floor(t) >= 0
    <2>1. CASE t \div SampleEvery < 0
      <3>1. SampleEvery * (t \div SampleEvery) + SampleEvery <= SampleEvery * 0
        BY <1>1, <2>1, Spacing DEF SamplerAssumption
      <3>2. Queue!Floor(t) + SampleEvery <= 0  BY <3>1, <1>1 DEF SamplerAssumption
      <3>3. t < 0  BY <3>2, <1>4, <1>1 DEF SamplerAssumption
      <3> QED  BY <3>3 DEF Queue!Times, SamplerAssumption
    <2>2. CASE t \div SampleEvery >= 0  BY <1>1, <2>2 DEF SamplerAssumption
    <2> QED  BY <1>1, <2>1, <2>2
  <1> QED  BY <1>2, <1>4, <1>5 DEF Queue!Grid, Queue!Times, SamplerAssumption

\* A finish never changes, so rows and readings stay in their places.
LEMMA FinishKeeps ==
    ASSUME Queue!TypeOK, NEW j \in CountedJobs, Queue!Finish(j)
    PROVE  \A i \in CountedJobs : Finished(i) => finished'[i] = finished[i]
  BY DEF Queue!TypeOK, Queue!Finish, Finished, Queue!Running

\* Every step keeps the types.
LEMMA SeriesTypes ==
    ASSUME SamplerAssumption, Queue!TypeOK, [Queue!Next]_(Queue!vars)
    PROVE  Queue!TypeOK'
  <1> USE DEF Queue!TypeOK
  <1>0. ClockEnd \in Nat /\ SampleEvery \in Nat \ {0} /\ clock \in Queue!Times /\ \A t \in Queue!Times : t \in Int
    BY DEF SamplerAssumption, Queue!Times
  <1>1. ASSUME NEW t \in Queue!Times PROVE Queue!Sleep(t) \in {Queue!Off} \cup 0..(ClockEnd + SampleEvery + 1)
    <2>1. Queue!Floor(t) \in Queue!Times  BY <1>1, FloorOnGrid DEF Queue!Grid
    <2> QED  BY <2>1, <1>0 DEF Queue!Sleep, Queue!Times
  <1>2. CASE Queue!Tick  BY <1>2, <1>0 DEF Queue!Tick, Queue!Times
  <1>3. ASSUME NEW j \in CountedJobs, Queue!Finish(j) PROVE Queue!TypeOK'
    BY <1>3 DEF Queue!Finish, Queue!Times, Queue!Running
  <1>4. ASSUME NEW j \in CountedJobs, Queue!Commit(j) PROVE Queue!TypeOK'  BY <1>4 DEF Queue!Commit
  <1>5. CASE Queue!TrimJobs  BY <1>5 DEF Queue!TrimJobs
  <1>6. ASSUME NEW p \in SamplerThreads, Queue!Start(p) PROVE Queue!TypeOK'
    BY <1>6, <1>1 DEF Queue!Start
  <1>7. ASSUME NEW p \in SamplerThreads, Queue!Read(p) PROVE Queue!TypeOK'
    <2> DEFINE r == [at |-> Queue!Floor(clock), jobs |-> Queue!Window(Queue!Floor(clock) - SampleEvery, Queue!Floor(clock)),
                     empty |-> Queue!Window(Queue!Floor(clock) - SampleEvery, Queue!Floor(clock))
                                 \cup {j \in CountedJobs : finished[j] = Queue!Running} = {}]
    <2>1. r \in Queue!Readings
      <3>1. Queue!Floor(clock) \in Queue!Grid  BY FloorOnGrid
      <3>2. Queue!Window(Queue!Floor(clock) - SampleEvery, Queue!Floor(clock)) \subseteq CountedJobs
        BY DEF Queue!Window
      <3> QED  BY <3>1, <3>2 DEF Queue!Readings
    <2>2. taken' = [taken EXCEPT ![p] = r]  BY <1>7 DEF Queue!Read
    <2>3. taken' \in [SamplerThreads -> Queue!Readings]  BY <2>1, <2>2
    <2> QED  BY <1>7, <1>1, <2>3 DEF Queue!Read
  <1>8. ASSUME NEW p \in SamplerThreads, Queue!ReadFails(p) PROVE Queue!TypeOK'
    BY <1>8, <1>1 DEF Queue!ReadFails
  <1>9. Queue!Nothing \in Queue!Readings
    <2>1. 0 \in Queue!Grid  BY <1>0, MultipleOnGrid DEF Queue!Grid, Queue!Times
    <2> QED  BY <2>1 DEF Queue!Readings, Queue!Nothing
  <1>10. ASSUME NEW p \in SamplerThreads, Queue!Write(p) PROVE Queue!TypeOK'
    <2>1. taken' \in [SamplerThreads -> Queue!Readings]  BY <1>9, <1>10 DEF Queue!Write
    <2>2. CASE taken[p].empty  BY <1>10, <2>1, <2>2 DEF Queue!Write
    <2>3. CASE ~taken[p].empty
      <3>1. taken[p].jobs \in SUBSET CountedJobs /\ taken[p].at \in Queue!Grid  BY DEF Queue!Readings
      <3>2. [jobs |-> taken[p].jobs, by |-> "sampler"] \in Queue!Counted  BY <3>1 DEF Queue!Counted
      <3>3. sample' = Queue!Upsert(taken[p].at, taken[p].jobs)  BY <1>10, <2>3 DEF Queue!Write
      <3>4. DOMAIN sample' \subseteq Queue!Grid /\ \A t \in DOMAIN sample' : sample'[t] \in Queue!Counted
        BY <3>1, <3>2, <3>3 DEF Queue!Upsert
      <3> QED  BY <1>10, <2>1, <3>4 DEF Queue!Write
    <2> QED  BY <2>2, <2>3
  <1>11. ASSUME NEW p \in SamplerThreads, Queue!WriteFails(p) PROVE Queue!TypeOK'
    BY <1>9, <1>11 DEF Queue!WriteFails
  <1>12. ASSUME NEW p \in SamplerThreads, Queue!Restart(p) PROVE Queue!TypeOK'
    BY <1>9, <1>12 DEF Queue!Restart
  <1>13. CASE Queue!TrimSamples  BY <1>13 DEF Queue!TrimSamples
  <1>14. CASE Queue!Backfill
    <2>1. Queue!Buckets \subseteq Queue!Grid
      <3>1. \A j \in visible : finished[j] \in Queue!Times  BY DEF Queue!Running
      <3> QED  BY <3>1, FloorOnGrid DEF Queue!Buckets
    <2>2. \A t : [jobs |-> {j \in visible : Queue!Floor(finished[j]) = t}, by |-> "backfill"] \in Queue!Counted
      BY DEF Queue!Counted
    <2>3. DOMAIN sample' \subseteq Queue!Grid /\ \A t \in DOMAIN sample' : sample'[t] \in Queue!Counted
      BY <1>14, <2>1, <2>2 DEF Queue!Backfill
    <2> QED  BY <1>14, <2>3 DEF Queue!Backfill
  <1>15. CASE UNCHANGED Queue!vars  BY <1>15 DEF Queue!vars
  <1> QED
    BY <1>2, <1>3, <1>4, <1>5, <1>6, <1>7, <1>8, <1>10, <1>11, <1>12, <1>13, <1>14, <1>15
       DEF Queue!Next

\* What a sampler reads lies in the interval that has just closed.
LEMMA ReadStep ==
    ASSUME SamplerAssumption, SeriesInv, [Queue!Next]_(Queue!vars)
    PROVE  ReadInPlace'
  <1> USE DEF SeriesInv, ReadInPlace, Ended, Finished
  <1>1. ASSUME taken' = taken, finished' = finished PROVE ReadInPlace'  BY <1>1
  <1>2. ASSUME NEW j \in CountedJobs, Queue!Finish(j) PROVE ReadInPlace'
    <2>1. \A i \in CountedJobs : Finished(i) => finished'[i] = finished[i]  BY <1>2, FinishKeeps
    <2>2. taken' = taken  BY <1>2 DEF Queue!Finish
    <2> QED  BY <2>1, <2>2
  <1>3. ASSUME NEW p \in SamplerThreads, Queue!Read(p) PROVE ReadInPlace'
    <2> DEFINE at == Queue!Floor(clock)
    <2>1. /\ taken' = [taken EXCEPT ![p] = taken'[p]]
          /\ taken'[p].at = at /\ taken'[p].jobs = Queue!Window(at - SampleEvery, at)
          /\ finished' = finished
      BY <1>3 DEF Queue!Read, Queue!TypeOK
    <2>2. \A j \in Queue!Window(at - SampleEvery, at) : j \in CountedJobs /\ Ended(at, j)
      BY DEF Queue!Window, Queue!TypeOK
    <2>3. \A q \in SamplerThreads : q # p => taken'[q] = taken[q]  BY <2>1 DEF Queue!TypeOK
    <2> QED  BY <2>1, <2>2, <2>3
  <1>4. ASSUME NEW p \in SamplerThreads, Queue!Write(p) \/ Queue!WriteFails(p) \/ Queue!Restart(p) PROVE ReadInPlace'
    <2>1. taken' = [taken EXCEPT ![p] = Queue!Nothing] /\ finished' = finished
      BY <1>4 DEF Queue!Write, Queue!WriteFails, Queue!Restart
    <2>2. taken'[p].jobs = {} /\ \A q \in SamplerThreads : q # p => taken'[q] = taken[q]
      BY <2>1 DEF Queue!TypeOK, Queue!Nothing
    <2> QED  BY <2>1, <2>2
  <1>5. CASE Queue!Tick \/ Queue!TrimJobs \/ Queue!TrimSamples \/ Queue!Backfill \/ UNCHANGED Queue!vars
    BY <1>1, <1>5 DEF Queue!Tick, Queue!TrimJobs, Queue!TrimSamples, Queue!Backfill, Queue!vars
  <1>6. ASSUME NEW j \in CountedJobs, Queue!Commit(j) PROVE ReadInPlace'  BY <1>1, <1>6 DEF Queue!Commit
  <1>7. ASSUME NEW p \in SamplerThreads, Queue!Start(p) \/ Queue!ReadFails(p) PROVE ReadInPlace'
    BY <1>1, <1>7 DEF Queue!Start, Queue!ReadFails
  <1> QED  BY <1>2, <1>3, <1>4, <1>5, <1>6, <1>7 DEF Queue!Next

\* A row is written in its place, and stays there.
LEMMA RowsStep ==
    ASSUME SamplerAssumption, SeriesInv, [Queue!Next]_(Queue!vars)
    PROVE  RowsInPlace'
  <1> USE DEF SeriesInv
  <1>1. ASSUME sample' = sample, finished' = finished PROVE RowsInPlace'
    BY <1>1 DEF RowsInPlace, Ended, Opened, Finished
  <1>2. ASSUME NEW j \in CountedJobs, Queue!Finish(j) PROVE RowsInPlace'
    <2>1. \A i \in CountedJobs : Finished(i) => finished'[i] = finished[i]  BY <1>2, FinishKeeps
    <2>2. sample' = sample  BY <1>2 DEF Queue!Finish
    <2> QED  BY <2>1, <2>2 DEF RowsInPlace, Ended, Opened, Finished
  <1>3. ASSUME NEW p \in SamplerThreads, Queue!Write(p) PROVE RowsInPlace'
    <2>1. finished' = finished  BY <1>3 DEF Queue!Write
    <2>2. CASE taken[p].empty  BY <1>1, <1>3, <2>1, <2>2 DEF Queue!Write
    <2>3. CASE ~taken[p].empty
      <3> DEFINE at == taken[p].at
      <3>1. sample' = Queue!Upsert(at, taken[p].jobs)  BY <1>3, <2>3 DEF Queue!Write
      <3>2. \A j \in taken[p].jobs : j \in CountedJobs /\ Ended(at, j)  BY DEF ReadInPlace
      <3>3. /\ at \in DOMAIN sample' /\ sample'[at] = [jobs |-> taken[p].jobs, by |-> "sampler"]
            /\ \A t \in DOMAIN sample' : t # at => t \in DOMAIN sample /\ sample'[t] = sample[t]
        BY <3>1 DEF Queue!Upsert
      <3>4. ASSUME NEW t \in DOMAIN sample', NEW j \in sample'[t].jobs
            PROVE  /\ j \in CountedJobs
                   /\ sample'[t].by = "sampler"  => Ended(t, j)
                   /\ sample'[t].by = "backfill" => Opened(t, j)
        <4>1. CASE t = at  BY <3>2, <3>3, <3>4, <4>1
        <4>2. CASE t # at  BY <3>3, <3>4, <4>2 DEF RowsInPlace
        <4> QED  BY <4>1, <4>2
      <3> QED  BY <2>1, <3>4 DEF RowsInPlace, Ended, Opened, Finished
    <2> QED  BY <2>2, <2>3
  <1>4. CASE Queue!TrimSamples
    <2>1. /\ finished' = finished
          /\ \A t \in DOMAIN sample' : t \in DOMAIN sample /\ sample'[t] = sample[t]
      BY <1>4 DEF Queue!TrimSamples
    <2> QED  BY <2>1 DEF RowsInPlace, Ended, Opened, Finished
  <1>5. CASE Queue!Backfill
    <2>1. /\ finished' = finished
          /\ \A t \in DOMAIN sample' :
                \/ t \in DOMAIN sample /\ sample'[t] = sample[t]
                \/ sample'[t] = [jobs |-> {j \in visible : Queue!Floor(finished[j]) = t}, by |-> "backfill"]
      BY <1>5 DEF Queue!Backfill
    <2>2. ASSUME NEW j \in visible
          PROVE  j \in CountedJobs /\ Opened(Queue!Floor(finished[j]), j)
      <3>1. j \in CountedJobs /\ finished[j] # Queue!Running /\ finished[j] \in Queue!Times
        BY <2>2 DEF Queue!TypeOK
      <3> QED  BY <3>1, FloorOnGrid DEF Opened, Finished
    <2>3. ASSUME NEW t \in DOMAIN sample', NEW j \in sample'[t].jobs
          PROVE  /\ j \in CountedJobs
                 /\ sample'[t].by = "sampler"  => Ended(t, j)
                 /\ sample'[t].by = "backfill" => Opened(t, j)
      <3>1. CASE t \in DOMAIN sample /\ sample'[t] = sample[t]  BY <2>3, <3>1 DEF RowsInPlace
      <3>2. CASE sample'[t] = [jobs |-> {i \in visible : Queue!Floor(finished[i]) = t}, by |-> "backfill"]
        <4>1. sample'[t].jobs = {i \in visible : Queue!Floor(finished[i]) = t} /\ sample'[t].by = "backfill"
          BY <3>2
        <4>2. j \in visible /\ Queue!Floor(finished[j]) = t  BY <4>1, <2>3
        <4> QED  BY <2>2, <4>1, <4>2
      <3> QED  BY <2>1, <3>1, <3>2
    <2> QED  BY <2>1, <2>3 DEF RowsInPlace, Ended, Opened, Finished
  <1>6. CASE Queue!Tick \/ Queue!TrimJobs \/ UNCHANGED Queue!vars
    BY <1>1, <1>6 DEF Queue!Tick, Queue!TrimJobs, Queue!vars
  <1>7. ASSUME NEW j \in CountedJobs, Queue!Commit(j) PROVE RowsInPlace'  BY <1>1, <1>7 DEF Queue!Commit
  <1>8. ASSUME NEW p \in SamplerThreads, Queue!Start(p) \/ Queue!Read(p) \/ Queue!ReadFails(p) \/ Queue!WriteFails(p) \/ Queue!Restart(p)
        PROVE  RowsInPlace'
    BY <1>1, <1>8 DEF Queue!Start, Queue!Read, Queue!ReadFails, Queue!WriteFails, Queue!Restart
  <1> QED  BY <1>2, <1>3, <1>4, <1>5, <1>6, <1>7, <1>8 DEF Queue!Next

\* Rows of one writer that count the same finish are one row.
LEMMA OneRow ==
    ASSUME SamplerAssumption, SeriesInv, NEW j \in CountedJobs, NEW by \in {"sampler", "backfill"},
           NEW s \in Queue!Counts(j, by), NEW t \in Queue!Counts(j, by)
    PROVE  s = t
  <1>1. /\ s \in DOMAIN sample /\ t \in DOMAIN sample
        /\ j \in sample[s].jobs /\ j \in sample[t].jobs
        /\ sample[s].by = by /\ sample[t].by = by
    BY DEF Queue!Counts, Queue!Series
  <1>2. s \in Int /\ t \in Int /\ s % SampleEvery = 0 /\ t % SampleEvery = 0
    BY <1>1 DEF SeriesInv, Queue!TypeOK, Queue!Grid, Queue!Times
  <1>3. SampleEvery \in Nat \ {0}  BY DEF SamplerAssumption
  <1>4. finished[j] \in Int
    BY <1>1 DEF SeriesInv, Queue!TypeOK, Queue!Times, Queue!Running
  <1>5. CASE by = "sampler"
    <2>1. Ended(s, j) /\ Ended(t, j)  BY <1>1, <1>5 DEF SeriesInv, RowsInPlace
    <2> DEFINE f == finished[j]
    <2>2. /\ s - SampleEvery <= f /\ f < (s - SampleEvery) + SampleEvery
          /\ t - SampleEvery <= f /\ f < (t - SampleEvery) + SampleEvery
      BY <2>1, <1>2, <1>3, <1>4 DEF Ended
    <2>3. (s - SampleEvery) % SampleEvery = 0 /\ (t - SampleEvery) % SampleEvery = 0
      BY <1>2, <1>3, OnGridBefore
    <2>4. s - SampleEvery \in Int /\ t - SampleEvery \in Int  BY <1>2, <1>3
    <2> HIDE DEF f
    <2>5. f \in Int  BY <1>4 DEF f
    <2>6. s - SampleEvery = t - SampleEvery  BY <2>2, <2>3, <2>4, <2>5, <1>3, OneInterval
    <2> QED  BY <2>6, <1>2, <1>3
  <1>6. CASE by = "backfill"
    <2>1. Opened(s, j) /\ Opened(t, j)  BY <1>1, <1>6 DEF SeriesInv, RowsInPlace
    <2> QED  BY <2>1, <1>2, <1>3, <1>4, OneInterval DEF Opened
  <1> QED  BY <1>5, <1>6

\* There are no rows at first.
LEMMA SeriesInit == ASSUME SamplerAssumption, Queue!Init PROVE SeriesInv
  <1>1. Queue!TypeOK
    BY MultipleOnGrid
       DEF SamplerAssumption, Queue!Init, Queue!TypeOK, Queue!Times, Queue!Running, Queue!Off,
           Queue!Readings, Queue!Nothing, Queue!Grid
  <1> QED  BY <1>1 DEF Queue!Init, SeriesInv, ReadInPlace, RowsInPlace, Queue!Nothing

\* A step keeps the types, and rows and readings in their places.
LEMMA SeriesNext ==
    ASSUME SamplerAssumption, SeriesInv, [Queue!Next]_(Queue!vars) PROVE SeriesInv'
  BY SeriesTypes, ReadStep, RowsStep DEF SeriesInv

\* A finish lies in one interval, and two rows of one writer have two intervals.
LEMMA SeriesMeans == ASSUME SamplerAssumption, SeriesInv PROVE CountedOnce
  <1> SUFFICES ASSUME NEW j \in CountedJobs, NEW by \in {"sampler", "backfill"}
               PROVE  Cardinality(Queue!Counts(j, by)) <= 1
    BY SameCardinality DEF CountedOnce, Queue!CountedOnce
  <1>1. CASE Queue!Counts(j, by) = {}  BY <1>1, FS_EmptySet
  <1>2. CASE Queue!Counts(j, by) # {}
    <2>1. PICK s \in Queue!Counts(j, by) : TRUE  BY <1>2
    <2>2. Queue!Counts(j, by) = {s}  BY OneRow, <2>1
    <2>3. Cardinality({s}) = 1  BY FS_Singleton
    <2> QED  BY <2>2, <2>3
  <1> QED  BY <1>1, <1>2

-----------------------------------------------------------------------------
(* The labels.  What a handler writes and what a repair rewrites stays with the company the *)
(* row belongs to, in whatever order handlers and repairs meet (symbols.py, schema/).       *)

\* A row is of its company, but for bars the rewrite left under the index.
Filed ==
    /\ \A r \in FiledRows : \/ label[r] \in {Label!None} \cup Label!Company(r)
                            \/ r[1] # "contract" /\ label[r] = "index"
    /\ \A c \in Label!Of("contract") : Label!Root(c) # "live" => label[c] = "index"

\* What a handler is about to write is of one company.
JobFiled ==
    /\ writing.rows \subseteq FiledRows /\ (writing # Label!Nothing => writing.label \in Label!Labels)
    /\ \A r \in writing.rows : writing.label \in Label!Company(r) /\ (r \in Label!Of("contract") => Label!Root(r) = "live")

\* A root and the label the catalogue has for it are of one company, and the index is no root.
PlanFiled ==
    step = "adjust" =>
        \A p \in plan : /\ p[1] \in Label!Labels \ {"index"} /\ p[2] \in Label!Labels
                        /\ p[1] \in Label!Symbols <=> p[2] \in Label!Symbols

\* What the bars of the two symbols cover.
DaysKept ==
    /\ stock \in [Label!Symbols -> SUBSET Int] /\ stock["old"] = DaysAsOld
    /\ DaysOfAnother \subseteq stock["live"]

\* The labels there are, for the rows there are.
Typed == asked \subseteq Label!Symbols /\ label \in [FiledRows -> Label!Labels \cup {Label!None}]

\* The inductive invariant of the labels.
FiledInv == Typed /\ Filed /\ JobFiled /\ PlanFiled /\ DaysKept

\* What a step may do to the labels and to the bars.
LabelsApart == \A r \in FiledRows : label'[r] # label[r] => label'[r] \in Label!Company(r)
LivesApart  == \A d \in stock'["live"] \ stock["live"], e \in DaysOfAnother : d > e

\* The last day of the old symbol is one of its days, and later than the earlier life.
LEMMA LastDay ==
    ASSUME LabelAssumption
    PROVE  /\ Max(DaysAsOld) \in DaysAsOld /\ Max(DaysAsOld) \in Int
           /\ \A d \in DaysAsOld \cup DaysOfAnother : d <= Max(DaysAsOld)
  <1>1. PICK m \in DaysAsOld : \A d \in DaysAsOld \cup DaysOfAnother : d <= m
    BY DEF LabelAssumption
  <1>2. m \in Int /\ \A d \in DaysAsOld \cup DaysOfAnother : d \in Int  BY <1>1 DEF LabelAssumption
  <1>3. \A y \in DaysAsOld : m >= y  BY <1>1, <1>2
  <1>4. Max(DaysAsOld) \in DaysAsOld /\ \A y \in DaysAsOld : Max(DaysAsOld) >= y
    BY <1>1, <1>3 DEF Max
  <1> HIDE DEF Max
  <1>5. Max(DaysAsOld) \in Int /\ Max(DaysAsOld) >= m  BY <1>1, <1>2, <1>4
  <1> QED  BY <1>1, <1>2, <1>4, <1>5

\* Labels of the row's own company keep it there.
LEMMA RelabelStep ==
    ASSUME LabelAssumption, Typed, Filed, NEW f \in [FiledRows -> Label!Labels], NEW R \in SUBSET FiledRows,
           \A r \in R : f[r] \in Label!Company(r),
           \A c \in Label!Of("contract") : c \in R => Label!Root(c) = "live",
           label' = [r \in FiledRows |-> IF r \in R THEN f[r] ELSE label[r]]
    PROVE  /\ label' \in [FiledRows -> Label!Labels \cup {Label!None}]
           /\ Filed' /\ LabelsApart
  <1>1. \A r \in FiledRows : label'[r] = IF r \in R THEN f[r] ELSE label[r]  OBVIOUS
  <1>2. label' \in [FiledRows -> Label!Labels \cup {Label!None}]  BY DEF Typed
  <1>3. LabelsApart  BY <1>1 DEF LabelsApart
  <1>4. Filed'
    <2>1. \A r \in FiledRows : \/ label'[r] \in {Label!None} \cup Label!Company(r)
                               \/ r[1] # "contract" /\ label'[r] = "index"
      BY <1>1 DEF Filed
    <2>2. \A c \in Label!Of("contract") : Label!Root(c) # "live" => label'[c] = "index"
      BY <1>1 DEF Filed, Label!Of
    <2> QED  BY <2>1, <2>2 DEF Filed
  <1> QED  BY <1>2, <1>3, <1>4

\* The same, with one label for all.
LEMMA RelabelledStep ==
    ASSUME LabelAssumption, Typed, Filed, NEW l \in Label!Labels, NEW R \in SUBSET FiledRows,
           \A r \in R : l \in Label!Company(r),
           \A c \in Label!Of("contract") : c \in R => Label!Root(c) = "live",
           Label!Relabelled(R, l)
    PROVE  /\ label' \in [FiledRows -> Label!Labels \cup {Label!None}]
           /\ Filed' /\ LabelsApart
  <1> DEFINE f == [r \in FiledRows |-> l]
  <1>1. f \in [FiledRows -> Label!Labels] /\ \A r \in FiledRows : f[r] = l  OBVIOUS
  <1>2. label' = [r \in FiledRows |-> IF r \in R THEN f[r] ELSE label[r]]
    BY <1>1 DEF Label!Relabelled
  <1> HIDE DEF f
  <1>3. \A r \in R : f[r] \in Label!Company(r)  BY <1>1
  <1> QED  BY <1>1, <1>2, <1>3, RelabelStep

\* A company's roots and labels.
LEMMA CompanyFacts ==
    ASSUME LabelAssumption
    PROVE  /\ \A r \in FiledRows : Label!Company(r) \subseteq Label!Labels /\ Label!Root(r) \in Label!Company(r)
           /\ \A r, c \in FiledRows : Label!Root(r) = Label!Root(c) => Label!Company(r) = Label!Company(c)
           /\ \A r \in FiledRows : Label!Root(r) \in Label!Symbols => Label!Company(r) = Label!Symbols
           /\ \A r \in FiledRows, l, k \in Label!Labels :
                 l \in Label!Company(r) /\ (k \in Label!Symbols <=> l \in Label!Symbols) => k \in Label!Company(r)
  BY DEF LabelAssumption, Label!Company, Label!Symbols, Label!Labels

\* The catalogue's word about a contract is of the contract's company.
LEMMA CatalogueFiled ==
    ASSUME LabelAssumption, Filed, NEW c \in Label!Of("contract"), label[c] # Label!None
    PROVE  c \in FiledRows /\ label[c] \in Label!Company(c)
  <1>1. c \in FiledRows /\ c[1] = "contract"  BY DEF Label!Of
  <1> QED  BY <1>1 DEF Filed

\* Labels do not move, and neither does anything the invariant says of them.
LEMMA LabelsStand ==
    ASSUME Typed, Filed, label' = label
    PROVE  label' \in [FiledRows -> Label!Labels \cup {Label!None}] /\ Filed' /\ LabelsApart
  BY DEF Typed, Filed, LabelsApart

\* Days do not move, and neither does anything the invariant says of them.
LEMMA DaysStand ==
    ASSUME DaysKept, stock' = stock
    PROVE  DaysKept' /\ LivesApart
  BY DEF DaysKept, LivesApart

\* What the handlers do.
LEMMA HandlerStep ==
    ASSUME LabelAssumption, FiledInv,
           \/ \E s \in Label!Symbols, R \in SUBSET FiledRows, proven \in BOOLEAN : Label!Download(s, R, proven)
           \/ \E r \in Label!Of("bars"), l \in Label!Labels : Label!EnqueueBars(r, l)
           \/ Label!Write \/ Label!Sync \/ Label!Trade \/ Label!Learn
    PROVE  FiledInv' /\ LabelsApart /\ LivesApart
  <1> USE DEF FiledInv
  <1>1. ASSUME NEW s \in Label!Symbols, NEW R \in SUBSET FiledRows, NEW proven \in BOOLEAN,
               Label!Download(s, R, proven)
        PROVE  FiledInv' /\ LabelsApart /\ LivesApart
    <2>1. label' = label /\ stock' = stock /\ asked' = asked /\ step' = step /\ plan' = plan
      BY <1>1 DEF Label!Download
    <2>2. Label!Resolved(s, proven) \in Label!Symbols  BY DEF Label!Resolved, Label!Symbols
    <2>3. \A r \in R : r \in FiledRows /\ Label!Root(r) \in Label!Symbols
      BY <1>1 DEF Label!Download, Label!Of, Label!Symbols
    <2>4. \A r \in R : Label!Resolved(s, proven) \in Label!Company(r)  BY <2>2, <2>3, CompanyFacts
    <2>5. writing' = [rows |-> R, label |-> Label!Resolved(s, proven)]  BY <1>1 DEF Label!Download
    <2>6. JobFiled'
      <3>1. writing'.rows = R /\ writing'.label = Label!Resolved(s, proven)  BY <2>5
      <3>2. \A r \in R : Label!Root(r) = "live"  BY <1>1 DEF Label!Download
      <3> QED  BY <2>2, <2>4, <3>1, <3>2 DEF JobFiled, Label!Symbols, Label!Labels
    <2> QED  BY <2>1, <2>6, LabelsStand, DaysStand DEF Typed, PlanFiled
  <1>2. ASSUME NEW r \in Label!Of("bars"), NEW l \in Label!Labels, Label!EnqueueBars(r, l)
        PROVE  FiledInv' /\ LabelsApart /\ LivesApart
    <2>1. label' = label /\ stock' = stock /\ asked' = asked /\ step' = step /\ plan' = plan
      BY <1>2 DEF Label!EnqueueBars
    <2>2. r \in FiledRows  BY DEF Label!Of
    <2>3. l \in Label!Company(r)
      <3>1. CASE Label!Root(r) = "old" /\ l = "old"  BY <2>2, <3>1, CompanyFacts
      <3>2. CASE l \in Label!Spelled(r)
        <4> DEFINE known == {c \in Label!Of("contract") : Label!Root(c) = Label!Root(r) /\ label[c] # Label!None}
        <4>1. CASE known = {}  BY <3>2, <4>1, <2>2, CompanyFacts DEF Label!Spelled
        <4>2. CASE known # {}
          <5>1. PICK c \in known : l = label[c]  BY <3>2, <4>2 DEF Label!Spelled
          <5>2. c \in FiledRows /\ label[c] \in Label!Company(c) /\ Label!Root(c) = Label!Root(r)
            BY <5>1, CatalogueFiled
          <5> QED  BY <5>1, <5>2, <2>2, CompanyFacts
        <4> QED  BY <4>1, <4>2
      <3> QED  BY <1>2, <3>1, <3>2 DEF Label!EnqueueBars
    <2>4. writing' = [rows |-> {r}, label |-> l]  BY <1>2 DEF Label!EnqueueBars
    <2>5. JobFiled'
      <3>1. writing'.rows = {r} /\ writing'.label = l  BY <2>4
      <3>2. r \notin Label!Of("contract")  BY DEF Label!Of
      <3> QED  BY <2>2, <2>3, <3>1, <3>2 DEF JobFiled
    <2> QED  BY <2>1, <2>5, LabelsStand, DaysStand DEF Typed, PlanFiled
  <1>3. CASE Label!Write
    <2>1. Label!Relabelled(writing.rows, writing.label) /\ writing' = Label!Nothing
          /\ stock' = stock /\ asked' = asked /\ step' = step /\ plan' = plan
      BY <1>3 DEF Label!Write
    <2>2. JobFiled'  BY <2>1 DEF JobFiled, Label!Nothing
    <2>3. label' \in [FiledRows -> Label!Labels \cup {Label!None}] /\ Filed' /\ LabelsApart
      BY <1>3, <2>1, RelabelledStep DEF Label!Write, JobFiled
    <2> QED  BY <2>1, <2>2, <2>3, DaysStand DEF Typed, PlanFiled
  <1>4. CASE Label!Sync \/ Label!Learn
    <2>1. /\ label' = label /\ stock' = stock /\ step' = step /\ plan' = plan /\ writing' = writing
          /\ asked' = asked \/ asked' = {"live"}
      BY <1>4 DEF Label!Sync, Label!Learn
    <2> QED  BY <2>1, LabelsStand, DaysStand DEF Typed, PlanFiled, JobFiled, Label!Symbols
  <1>5. CASE Label!Trade
    <2>1. /\ label' = label /\ asked' = asked /\ step' = step /\ plan' = plan /\ writing' = writing
          /\ stock' = [stock EXCEPT !["live"] = @ \cup {Max(DaysAsOld) + 1}]
      BY <1>5, SameMax DEF Label!Trade
    <2>2. "live" \in Label!Symbols /\ "old" \in Label!Symbols  BY DEF Label!Symbols
    <2>3. Max(DaysAsOld) \in Int /\ \A e \in DaysOfAnother : e \in Int /\ e <= Max(DaysAsOld)
      BY LastDay DEF LabelAssumption
    <2> HIDE DEF Max
    <2>4. DaysKept'  BY <2>1, <2>2, <2>3 DEF DaysKept
    <2>5. LivesApart
      <3>1. stock'["live"] \ stock["live"] \subseteq {Max(DaysAsOld) + 1}
        BY <2>1, <2>2 DEF DaysKept
      <3> QED  BY <3>1, <2>3 DEF LivesApart
    <2> QED  BY <2>1, <2>4, <2>5, LabelsStand DEF Typed, PlanFiled, JobFiled
  <1> QED  BY <1>1, <1>2, <1>3, <1>4, <1>5

\* What the repairs of a deploy do.
LEMMA RepairStep ==
    ASSUME LabelAssumption, FiledInv,
           \/ Label!CopyBars \/ Label!RenameStops \/ Label!ReadRoots \/ Label!Finish
           \/ \E R \in SUBSET Label!Misfiled : Label!Restore(R)
           \/ \E t \in {"bars", "contract"}, whole \in BOOLEAN, next \in {"contract", "roots"} :
                 Label!MoveTable(t, whole, next)
           \/ \E p \in plan : \E R \in SUBSET Label!Matching(p) : Label!Rewrite(p, R)
    PROVE  FiledInv' /\ LabelsApart /\ LivesApart
  <1> USE DEF FiledInv
  <1>1. CASE Label!CopyBars
    <2>1. /\ label' = label /\ asked' = asked /\ writing' = writing /\ step' = "bars"
          /\ stock' = IF Label!Pairs = {} THEN stock ELSE [stock EXCEPT !["live"] = @ \cup Label!Copied]
      BY <1>1 DEF Label!CopyBars, Label!Deploy
    <2>2. DaysKept' /\ LivesApart
      <3>1. CASE Label!Pairs = {}  BY <2>1, <3>1, DaysStand
      <3>2. CASE Label!Pairs # {}
        <4>1. "live" \in Label!Symbols /\ "old" \in Label!Symbols  BY DEF Label!Symbols
        <4>2. Label!Copied \subseteq DaysAsOld  BY DEF Label!Copied, DaysKept
        <4>3. ASSUME NEW d \in Label!Copied, NEW e \in DaysOfAnother PROVE d > e
          <5>1. e \in stock["live"] /\ e <= Max(DaysAsOld)  BY LastDay DEF DaysKept
          <5> QED  BY <4>3, <5>1, SameMax DEF Label!Copied, DaysKept
        <4>4. stock' = [stock EXCEPT !["live"] = @ \cup Label!Copied]  BY <2>1, <3>2
        <4> HIDE DEF Label!Copied
        <4>5. DaysKept'  BY <4>1, <4>2, <4>4 DEF DaysKept, LabelAssumption
        <4>6. stock'["live"] \ stock["live"] \subseteq Label!Copied  BY <4>1, <4>4 DEF DaysKept
        <4> QED  BY <4>3, <4>5, <4>6 DEF LivesApart
      <3> QED  BY <3>1, <3>2
    <2> QED  BY <2>1, <2>2, LabelsStand DEF Typed, PlanFiled, JobFiled
  <1>2. CASE Label!RenameStops
    <2>1. /\ label' = label /\ stock' = stock /\ asked' = asked /\ writing' = writing /\ step' = "roots"
      BY <1>2 DEF Label!RenameStops, Label!Deploy
    <2> QED  BY <2>1, LabelsStand, DaysStand DEF Typed, PlanFiled, JobFiled
  <1>3. CASE Label!Finish
    <2>1. /\ label' = label /\ stock' = stock /\ asked' = asked /\ writing' = writing /\ step' = "idle"
      BY <1>3 DEF Label!Finish, Label!Deploy
    <2> QED  BY <2>1, LabelsStand, DaysStand DEF Typed, PlanFiled, JobFiled
  <1>4. CASE Label!ReadRoots
    <2>1. /\ label' = label /\ stock' = stock /\ asked' = asked /\ writing' = writing
          /\ plan' = {<<p[1], p[2], Label!Guarded(p[1])>> : p \in Label!Mismatched}
      BY <1>4 DEF Label!ReadRoots, Label!Deploy
    <2>2. ASSUME NEW c \in Label!Of("contract"), label[c] \notin {Label!None, Label!Root(c)}
          PROVE  /\ Label!Root(c) \in Label!Labels \ {"index"} /\ label[c] \in Label!Labels
                 /\ Label!Root(c) \in Label!Symbols <=> label[c] \in Label!Symbols
      <3>1. c \in FiledRows /\ label[c] \in Label!Company(c) /\ Label!Root(c) \in Label!Labels
        BY <2>2, CatalogueFiled DEF LabelAssumption
      <3>2. Label!Root(c) # "live" => label[c] = "index"  BY DEF Filed
      <3> QED  BY <2>2, <3>1, <3>2 DEF Label!Company, Label!Symbols, Label!Labels
    <2>3. \A q \in plan' : \E c \in Label!Of("contract") :
             label[c] \notin {Label!None, Label!Root(c)} /\ q[1] = Label!Root(c) /\ q[2] = label[c]
      BY <2>1 DEF Label!Mismatched
    <2>4. PlanFiled'  BY <2>2, <2>3 DEF PlanFiled
    <2> QED  BY <2>1, <2>4, LabelsStand, DaysStand DEF Typed, JobFiled
  <1>5. ASSUME NEW R \in SUBSET Label!Misfiled, Label!Restore(R)
        PROVE  FiledInv' /\ LabelsApart /\ LivesApart
    <2>1. /\ stock' = stock /\ asked' = asked /\ writing' = writing /\ step' = "pairs"
          /\ label' = [r \in FiledRows |-> IF r \in R THEN Label!Root(r) ELSE label[r]]
      BY <1>5 DEF Label!Restore, Label!Deploy
    <2> DEFINE f == [r \in FiledRows |-> Label!Root(r)]
    <2>2. f \in [FiledRows -> Label!Labels] /\ \A r \in FiledRows : f[r] = Label!Root(r)
      BY DEF LabelAssumption
    <2>3. \A r \in R : r \in FiledRows /\ r \notin Label!Of("contract")
      BY DEF Label!Misfiled, Label!Of
    <2>4. \A r \in R : f[r] \in Label!Company(r)  BY <2>2, <2>3, CompanyFacts
    <2>5. label' = [r \in FiledRows |-> IF r \in R THEN f[r] ELSE label[r]]  BY <2>1, <2>2
    <2> HIDE DEF f
    <2>6. label' \in [FiledRows -> Label!Labels \cup {Label!None}] /\ Filed' /\ LabelsApart
      BY <2>2, <2>3, <2>4, <2>5, RelabelStep
    <2> QED  BY <2>1, <2>6, DaysStand DEF Typed, PlanFiled, JobFiled
  <1>6. ASSUME NEW t \in {"bars", "contract"}, NEW whole \in BOOLEAN,
               NEW next \in {"contract", "roots"}, Label!MoveTable(t, whole, next)
        PROVE  FiledInv' /\ LabelsApart /\ LivesApart
    <2> DEFINE R == IF plan = {} \/ t \notin Label!RenameTables THEN {}
                    ELSE Label!Move(t) \cup (IF whole THEN Label!History(t) ELSE {})
    <2>1. /\ stock' = stock /\ asked' = asked /\ writing' = writing /\ step' = next /\ Label!Relabelled(R, "live")
      BY <1>6 DEF Label!MoveTable, Label!Deploy
    <2>2. \A r \in R : /\ r \in FiledRows /\ Label!Root(r) \in Label!Symbols
                       /\ r \in Label!Of("contract") => Label!Root(r) = "live"
      BY DEF Label!Move, Label!History, Label!Of, Label!Symbols
    <2>3. \A r \in R : "live" \in Label!Company(r)  BY <2>2, CompanyFacts DEF Label!Symbols
    <2>4. "live" \in Label!Labels  BY DEF Label!Labels, Label!Symbols
    <2> HIDE DEF R
    <2>5. label' \in [FiledRows -> Label!Labels \cup {Label!None}] /\ Filed' /\ LabelsApart
      BY <2>1, <2>2, <2>3, <2>4, RelabelledStep
    <2> QED  BY <2>1, <2>5, DaysStand DEF Typed, PlanFiled, JobFiled
  <1>7. ASSUME NEW p \in plan, NEW Q \in SUBSET Label!Matching(p), Label!Rewrite(p, Q)
        PROVE  FiledInv' /\ LabelsApart /\ LivesApart
    <2> DEFINE R == IF p[3] THEN Label!Confirmed(p[1], p[2]) ELSE Label!Chunk(p[1], Q)
    <2>1. /\ stock' = stock /\ asked' = asked /\ writing' = writing /\ step' = step /\ plan' = plan \ {p}
          /\ Label!Relabelled(R, p[2]) /\ step = "adjust"
      BY <1>7 DEF Label!Rewrite
    <2>2. /\ p[1] \in Label!Labels \ {"index"} /\ p[2] \in Label!Labels
          /\ p[1] \in Label!Symbols <=> p[2] \in Label!Symbols
      BY <2>1 DEF PlanFiled
    <2>3. \A r \in R : r \in FiledRows /\ r \notin Label!Of("contract") /\ label[r] = p[1]
      BY DEF Label!Confirmed, Label!Chunk, Label!SharePlace, Label!Of
    <2>4. \A r \in R : p[1] \in Label!Company(r)
      BY <2>2, <2>3 DEF Filed, Label!Labels, Label!Symbols, Label!None
    <2>5. \A r \in R : p[2] \in Label!Company(r)  BY <2>2, <2>3, <2>4, CompanyFacts
    <2> HIDE DEF R
    <2>6. label' \in [FiledRows -> Label!Labels \cup {Label!None}] /\ Filed' /\ LabelsApart
      BY <2>1, <2>2, <2>3, <2>5, RelabelledStep
    <2>7. PlanFiled'  BY <2>1 DEF PlanFiled
    <2> QED  BY <2>1, <2>6, <2>7, DaysStand DEF Typed, JobFiled
  <1> QED  BY <1>1, <1>2, <1>3, <1>4, <1>5, <1>6, <1>7

\* What is left of the types.
Forms ==
    /\ traced \in BOOLEAN /\ ref \subseteq Label!Symbols /\ (writing.label \in Label!Labels \cup {Label!None})
    /\ step \in {"idle", "pairs", "bars", "contract", "roots", "adjust"}

\* The invariant and the rest of the types are the types.
LEMMA LabelTypes == ASSUME FiledInv, Forms PROVE Label!TypeOK
  BY DEF FiledInv, Forms, Typed, JobFiled, DaysKept, Label!TypeOK

\* Every step keeps the rest of the types.
LEMMA FormsStep == ASSUME Forms, [Label!Next]_(Label!vars) PROVE Forms'
  <1>0. "live" \in Label!Symbols /\ "old" \in Label!Symbols /\ Label!Symbols \subseteq Label!Labels
    BY DEF Label!Symbols, Label!Labels
  <1> USE DEF Forms
  <1>1. ASSUME NEW s \in Label!Symbols, NEW R \in SUBSET FiledRows, NEW proven \in BOOLEAN,
               Label!Download(s, R, proven)
        PROVE  Forms'
    <2>1. writing'.label = Label!Resolved(s, proven) /\ UNCHANGED <<traced, ref, step>>
      BY <1>1 DEF Label!Download
    <2>2. Label!Resolved(s, proven) \in Label!Symbols  BY <1>0 DEF Label!Resolved
    <2> QED  BY <1>0, <2>1, <2>2
  <1>2. ASSUME NEW r \in Label!Of("bars"), NEW l \in Label!Labels, Label!EnqueueBars(r, l) PROVE Forms'
    BY <1>2 DEF Label!EnqueueBars
  <1>3. CASE Label!Write  BY <1>3 DEF Label!Write, Label!Nothing
  <1>4. CASE Label!Sync \/ Label!Trade \/ Label!Learn
    BY <1>0, <1>4 DEF Label!Sync, Label!Trade, Label!Learn
  <1>5. CASE Label!CopyBars \/ Label!RenameStops \/ Label!ReadRoots \/ Label!Finish
    BY <1>5 DEF Label!CopyBars, Label!RenameStops, Label!ReadRoots, Label!Finish, Label!Deploy
  <1>6. ASSUME NEW R \in SUBSET Label!Misfiled, Label!Restore(R) PROVE Forms'
    BY <1>6 DEF Label!Restore, Label!Deploy
  <1>7. ASSUME NEW t \in {"bars", "contract"}, NEW whole \in BOOLEAN,
               NEW next \in {"contract", "roots"}, Label!MoveTable(t, whole, next)
        PROVE  Forms'
    BY <1>7 DEF Label!MoveTable, Label!Deploy
  <1>8. ASSUME NEW p \in plan, NEW R \in SUBSET Label!Matching(p), Label!Rewrite(p, R) PROVE Forms'
    BY <1>8 DEF Label!Rewrite
  <1>9. CASE UNCHANGED Label!vars  BY <1>9 DEF Label!vars
  <1> QED  BY <1>1, <1>2, <1>3, <1>4, <1>5, <1>6, <1>7, <1>8, <1>9 DEF Label!Next

\* The backlog that the repairs find is filed by company.
LEMMA FiledInit == ASSUME LabelAssumption, Label!Init PROVE FiledInv /\ Forms
  <1> USE DEF Label!Init
  <1>1. Typed
    <2>1. \A r \in FiledRows : Label!Root(r) \in Label!Labels  BY DEF LabelAssumption
    <2> QED  BY <2>1 DEF Typed, Label!Labels, Label!Symbols
  <1>2. Filed
    <2>1. \A r \in FiledRows : Label!Company(r) \subseteq Label!Labels /\ Label!Root(r) \in Label!Company(r)
      BY CompanyFacts
    <2>2. \A c \in Label!Of("contract") : c \in FiledRows /\ c[1] = "contract" /\ Label!Root(c) # "old"
      BY DEF LabelAssumption, Label!Of
    <2>3. \A c \in Label!Of("contract") :
             Label!Root(c) # "live" => label[c] = "index" /\ "index" \in Label!Company(c)
      BY <2>2, <2>1 DEF Label!Company, Label!Labels, Label!Symbols, LabelAssumption
    <2>4. \A r \in FiledRows : Label!Root(r) = "live" => label[r] = Label!None  OBVIOUS
    <2>5. \A r \in FiledRows : r[1] # "contract" => label[r] \in {Label!None, "index", Label!Root(r)}
      OBVIOUS
    <2>6. \A r \in FiledRows : r[1] = "contract" => r \in Label!Of("contract")  BY DEF Label!Of
    <2> QED  BY <2>1, <2>3, <2>4, <2>5, <2>6 DEF Filed
  <1>3. JobFiled /\ PlanFiled  BY DEF JobFiled, PlanFiled, Label!Nothing
  <1>4. DaysKept  BY DEF DaysKept, LabelAssumption, Label!Symbols
  <1>5. Forms  BY DEF Forms, Label!Nothing, Label!Symbols
  <1> QED  BY <1>1, <1>2, <1>3, <1>4, <1>5 DEF FiledInv

\* Handlers and repairs keep it so.
LEMMA FiledNext ==
    ASSUME LabelAssumption, FiledInv, [Label!Next]_(Label!vars)
    PROVE  FiledInv' /\ LabelsApart /\ LivesApart
  <1>1. CASE UNCHANGED Label!vars
    <2>1. /\ label' = label /\ stock' = stock /\ asked' = asked /\ writing' = writing
          /\ plan' = plan /\ step' = step
      BY <1>1 DEF Label!vars
    <2> QED  BY <2>1, LabelsStand, DaysStand DEF FiledInv, Typed, PlanFiled, JobFiled
  <1> QED  BY <1>1, HandlerStep, RepairStep DEF Label!Next

-----------------------------------------------------------------------------
(* The memory.  With one compute at a time the row a compute has read as the newest is the *)
(* newest when it saves, whatever was trimmed in between (coverage_history.py).            *)

\* A second request with ?refresh=true computes beside the first, so that this is not always so.
OneCompute == \A a, b \in Computing : a = b

\* Whatever a table holds and whatever became of its reads, an axis gets a verdict.
LEMMA JudgedIsVerdict ==
    ASSUME NEW d \in Datasets, NEW how
    PROVE  Memory!Judged(d, how) \in [Memory!Axes -> Memory!Verdict]
  <1> DEFINE v == Memory!Judged(d, how)
  <1>1. \A e, b : Memory!BreadthVerdict(e, b) \in Memory!Verdict
    BY DEF Memory!BreadthVerdict, Memory!Graded, Memory!Verdict
  <1>2. \A e, b : Memory!DepthVerdict(e, b) \in Memory!Verdict
    BY DEF Memory!DepthVerdict, Memory!Verdict
  <1>3. \A e, f, h : Memory!FreshnessVerdict(e, f, h) \in Memory!Verdict
    <2> SUFFICES ASSUME NEW e, NEW f, NEW h PROVE Memory!FreshnessVerdict(e, f, h) \in Memory!Verdict  OBVIOUS
    <2> DEFINE o == f.overdue
               w == CASE o = "unknown" -> "unknown" [] o = "yes" -> "thin" [] OTHER -> "ok"
    <2>1. w \in Memory!Verdict
      <3>1. CASE o = "unknown"
        <4>1. o # "yes"  BY <3>1
        <4> QED  BY <3>1, <4>1 DEF Memory!Verdict
      <3>2. CASE o = "yes"
        <4>1. o # "unknown"  BY <3>2
        <4> QED  BY <3>2, <4>1 DEF Memory!Verdict
      <3>3. CASE o # "unknown" /\ o # "yes"  BY <3>3 DEF Memory!Verdict
      <3> QED  BY <3>1, <3>2, <3>3
    <2>2. Memory!FreshnessVerdict(e, f, h) \in {"unknown", "boundary", "ok", "partial", "thin", w}
      BY Zenon DEF Memory!FreshnessVerdict
    <2> HIDE DEF w
    <2> QED  BY <2>1, <2>2 DEF Memory!Verdict
  <1>4. \A e, c : Memory!ContinuityVerdict(e, c) \in Memory!Verdict
    BY DEF Memory!ContinuityVerdict, Memory!Verdict
  <1>5. \E a, b, c, e \in Memory!Verdict :
           v = [breadth |-> a, depth |-> b, freshness |-> c, continuity |-> e]
    BY <1>1, <1>2, <1>3, <1>4, Zenon DEF Memory!Judged, Memory!Verdicts
  <1> HIDE DEF v
  <1>6. v \in [Memory!Axes -> Memory!Verdict]
    BY <1>5 DEF Memory!Axes
  <1> QED  BY <1>6 DEF v

\* A row of the record.
MemoryRow == [id: Nat, map: Memory!Map, old: BOOLEAN]

\* The computes that are under way.
Busy == {b \in Computing : pc[b] # "idle"}

\* With any number of computes at a time: each has a row of the bound to itself, and what one
\* has read of the newest row is a row.
MemoryTypes ==
    /\ Memory!TypeOK /\ ids + Cardinality(Busy) <= HistoryRows
    /\ pc \in [Computing -> {"idle", "computed", "merging"}]
    /\ reading \in [Computing -> [map: Memory!Map \cup {<<>>}, unread: SUBSET Datasets]]
    /\ DOMAIN head = Computing
    /\ \A r \in rows : r \in MemoryRow
    /\ \A c \in Computing : \A h \in head[c] : h \in MemoryRow

\* The record is empty at first.
LEMMA MemoryTypesInit == ASSUME MemoryAssumption, Memory!Init PROVE MemoryTypes
  <1>1. Busy = {}  BY DEF Memory!Init, Busy
  <1>2. Cardinality(Busy) = 0  BY <1>1, FS_EmptySet
  <1>3. Memory!TypeOK  BY DEF Memory!Init, Memory!TypeOK, MemoryAssumption
  <1>4. /\ pc \in [Computing -> {"idle", "computed", "merging"}]
        /\ reading \in [Computing -> [map: Memory!Map \cup {<<>>}, unread: SUBSET Datasets]]
    BY DEF Memory!Init, Memory!Idle
  <1>5. ids + Cardinality(Busy) <= HistoryRows  BY <1>2 DEF Memory!Init, MemoryAssumption
  <1> QED  BY <1>3, <1>4, <1>5 DEF Memory!Init, MemoryTypes

\* What a dataset is said to be when it could not be read is what the newest row says.
LEMMA CarriedIsMap ==
    ASSUME MemoryTypes, NEW c \in Computing, pc[c] # "idle"
    PROVE  Memory!CarryForward(reading[c].map, reading[c].unread, head[c]) \in Memory!Map
  <1> DEFINE h == CHOOSE r \in head[c] : TRUE
             m == Memory!CarryForward(reading[c].map, reading[c].unread, head[c])
  <1>1. reading[c].map \in Memory!Map  BY DEF MemoryTypes, Memory!TypeOK
  <1>2. head[c] # {} => h \in MemoryRow  BY DEF MemoryTypes
  <1>3. \A d \in Datasets :
           m[d] = IF d \in reading[c].unread /\ head[c] # {} THEN h.map[d] ELSE reading[c].map[d]
    BY DEF Memory!CarryForward
  <1>4. m = [d \in Datasets |-> m[d]]  BY DEF Memory!CarryForward
  <1> HIDE DEF m, h
  <1>5. \A d \in Datasets : m[d] \in [Memory!Axes -> Memory!Verdict]
    BY <1>1, <1>2, <1>3 DEF Memory!Map, MemoryRow
  <1>6. m \in Memory!Map  BY <1>4, <1>5 DEF Memory!Map
  <1> QED  BY <1>6 DEF m

\* Every step of every compute.
LEMMA MemoryTypesNext == ASSUME MemoryAssumption, MemoryTypes, [Memory!Next]_(Memory!vars) PROVE MemoryTypes'
  <1>0. /\ ids \in Nat /\ ids <= HistoryRows /\ HistoryRows \in Nat /\ IsFiniteSet(Busy) /\ Cardinality(Busy) \in Nat
        /\ table \in [Datasets -> TablesSeen] /\ ids + Cardinality(Busy) <= HistoryRows
        /\ pc \in [Computing -> {"idle", "computed", "merging"}]
        /\ reading \in [Computing -> [map: Memory!Map \cup {<<>>}, unread: SUBSET Datasets]]
        /\ DOMAIN head = Computing
        /\ \A r \in rows : r \in MemoryRow /\ r.id \in 1..ids
        /\ \A c \in Computing : /\ pc[c] # "idle" => reading[c].map \in Memory!Map
                                /\ head[c] # {} => pc[c] = "merging"
                                /\ \A h \in head[c] : h \in MemoryRow
    <2>1. IsFiniteSet(Busy) /\ Cardinality(Busy) \in Nat
      BY FS_Subset, FS_CardinalityType DEF MemoryAssumption, Busy
    <2> QED  BY <2>1 DEF MemoryTypes, Memory!TypeOK, MemoryAssumption
  \* A step that leaves the threads alone leaves rows of the bound.
  <1>a. ASSUME pc' = pc, reading' = reading, head' = head, ids' = ids,
               table' \in [Datasets -> TablesSeen], \A r \in rows' : r \in MemoryRow /\ r.id \in 1..ids
        PROVE  MemoryTypes'
    <2>1. Busy' = Busy  BY <1>a DEF Busy
    <2>2. \A r \in rows' : r.id \in 1..ids /\ r.map \in Memory!Map /\ r.old \in BOOLEAN
      BY <1>a DEF MemoryRow
    <2> QED  BY <1>0, <1>a, <2>1, <2>2 DEF MemoryTypes, Memory!TypeOK
  \* A thread that ends gives its row of the bound back, or has used it.
  <1>b. ASSUME NEW c \in Computing, pc[c] # "idle", Memory!Ends(c), UNCHANGED table,
               ids' \in {ids, ids + 1}, \A r \in rows' : r \in MemoryRow /\ r.id \in 1..ids'
        PROVE  MemoryTypes'
    <2>1. /\ pc' \in [Computing -> {"idle", "computed", "merging"}] /\ pc'[c] = "idle"
          /\ reading' \in [Computing -> [map: Memory!Map \cup {<<>>}, unread: SUBSET Datasets]]
          /\ DOMAIN head' = Computing /\ head'[c] = {}
          /\ \A b \in Computing \ {c} : pc'[b] = pc[b] /\ reading'[b] = reading[b] /\ head'[b] = head[b]
      BY <1>0, <1>b DEF Memory!Ends, Memory!Idle
    <2>2. Busy' = Busy \ {c} /\ c \in Busy  BY <1>b, <2>1 DEF Busy
    <2>3. Cardinality(Busy') = Cardinality(Busy) - 1  BY <1>0, <2>2, FS_RemoveElement
    <2>4. ids' + Cardinality(Busy') <= HistoryRows /\ ids' \in 0..HistoryRows
      <3>1. IsFiniteSet(Busy')  BY <1>0, <2>2, FS_RemoveElement
      <3>2. Cardinality(Busy') \in Nat  BY <3>1, FS_CardinalityType
      <3> QED  BY <1>0, <1>b, <2>3, <3>2
    <2>5. \A r \in rows' : r.id \in 1..ids' /\ r.map \in Memory!Map /\ r.old \in BOOLEAN
      BY <1>b DEF MemoryRow
    <2>6. \A b \in Computing : /\ pc'[b] # "idle" => reading'[b].map \in Memory!Map
                               /\ head'[b] # {} => pc'[b] = "merging"
                               /\ \A h \in head'[b] : h \in MemoryRow
      BY <1>0, <2>1
    <2>7. Memory!TypeOK'  BY <1>0, <1>b, <2>1, <2>4, <2>5, <2>6 DEF Memory!TypeOK
    <2> QED  BY <1>b, <2>1, <2>4, <2>6, <2>7 DEF MemoryTypes
  <1>1. ASSUME NEW d \in Datasets, Memory!TableChanges(d) PROVE MemoryTypes'
    <2>1. table' \in [Datasets -> TablesSeen] /\ UNCHANGED <<rows, ids, pc, reading, head, said>>
      BY <1>0, <1>1 DEF Memory!TableChanges
    <2> QED  BY <1>0, <1>a, <2>1
  <1>2. ASSUME NEW c \in Computing, Memory!Compute(c) PROVE MemoryTypes'
    <2>1. PICK how \in [Datasets -> Memory!Reads] :
             reading' = [reading EXCEPT ![c] =
                 [map |-> [d \in Datasets |-> Memory!Judged(d, how[d])],
                  unread |-> {d \in Datasets : how[d] = "failed"}]]
      BY <1>2 DEF Memory!Compute
    <2>2. [d \in Datasets |-> Memory!Judged(d, how[d])] \in Memory!Map
      BY JudgedIsVerdict DEF Memory!Map
    <2>3. /\ reading' \in [Computing -> [map: Memory!Map \cup {<<>>}, unread: SUBSET Datasets]]
          /\ reading'[c].map \in Memory!Map
          /\ \A b \in Computing \ {c} : reading'[b] = reading[b]
      BY <1>0, <2>1, <2>2
    <2>4. /\ pc' = [pc EXCEPT ![c] = "computed"] /\ pc[c] = "idle" /\ ids + Cardinality(Busy) < HistoryRows
          /\ UNCHANGED <<table, rows, ids, head, said>>
      BY <1>2, SameCardinality DEF Memory!Compute, Busy
    <2>5. Busy' = Busy \cup {c} /\ c \notin Busy  BY <1>0, <2>4 DEF Busy
    <2>6. Cardinality(Busy') = Cardinality(Busy) + 1  BY <1>0, <2>5, FS_AddElement
    <2>7. ids' + Cardinality(Busy') <= HistoryRows  BY <1>0, <2>4, <2>6
    <2>8. \A b \in Computing : /\ pc'[b] # "idle" => reading'[b].map \in Memory!Map
                               /\ head'[b] # {} => pc'[b] = "merging"
      BY <1>0, <2>3, <2>4
    <2>9. pc' \in [Computing -> {"idle", "computed", "merging"}]  BY <1>0, <2>4
    <2>10. \A r \in rows : r.id \in 1..ids /\ r.map \in Memory!Map /\ r.old \in BOOLEAN
      BY <1>0 DEF MemoryRow
    <2>11. Memory!TypeOK'  BY <1>0, <2>3, <2>4, <2>8, <2>9, <2>10 DEF Memory!TypeOK
    <2> QED  BY <1>0, <2>3, <2>4, <2>7, <2>9, <2>11 DEF MemoryTypes
  <1>3. ASSUME NEW c \in Computing, Memory!ReadHead(c) PROVE MemoryTypes'
    <2>1. /\ pc' = [pc EXCEPT ![c] = "merging"] /\ pc[c] = "computed"
          /\ head' = [head EXCEPT ![c] = Memory!Newest(rows)] /\ UNCHANGED <<table, rows, ids, reading, said>>
      BY <1>3 DEF Memory!ReadHead
    <2>2. Busy' = Busy  BY <1>0, <2>1 DEF Busy
    <2>3. \A h \in Memory!Newest(rows) : h \in MemoryRow  BY <1>0 DEF Memory!Newest
    <2> HIDE DEF MemoryRow
    <2>4. \A b \in Computing : /\ pc'[b] # "idle" => reading'[b].map \in Memory!Map
                               /\ head'[b] # {} => pc'[b] = "merging"
                               /\ \A h \in head'[b] : h \in MemoryRow
      BY <1>0, <2>1, <2>3
    <2>5. pc' \in [Computing -> {"idle", "computed", "merging"}] /\ DOMAIN head' = Computing
      BY <1>0, <2>1
    <2>6. \A r \in rows : r.id \in 1..ids /\ r.map \in Memory!Map /\ r.old \in BOOLEAN
      BY <1>0 DEF MemoryRow
    <2>7. Memory!TypeOK'  BY <1>0, <2>1, <2>4, <2>5, <2>6 DEF Memory!TypeOK
    <2> QED  BY <1>0, <2>1, <2>2, <2>4, <2>5, <2>7 DEF MemoryTypes
  <1>4. ASSUME NEW c \in Computing, Memory!Save(c) PROVE MemoryTypes'
    <2> DEFINE m == Memory!CarryForward(reading[c].map, reading[c].unread, head[c])
               same == {r \in head[c] : r.map = m}
    <2>1. m \in Memory!Map /\ pc[c] # "idle"  BY <1>4, CarriedIsMap DEF Memory!Save
    <2>2. /\ IF same # {}
             THEN /\ rows' = {IF \E h \in same : h.id = r.id THEN [r EXCEPT !.old = FALSE] ELSE r
                                : r \in rows}
                  /\ UNCHANGED ids
             ELSE /\ rows' = rows \cup {[id |-> ids + 1, map |-> m, old |-> FALSE]}
                  /\ ids' = ids + 1
          /\ Memory!Ends(c) /\ UNCHANGED table
      BY <1>4, Zenon DEF Memory!Save
    <2> HIDE DEF m, same
    <2>3. ids' \in {ids, ids + 1} /\ \A r \in rows' : r \in MemoryRow /\ r.id \in 1..ids'
      <3>1. CASE same # {}
        <4> DEFINE New(r) == IF \E h \in same : h.id = r.id THEN [r EXCEPT !.old = FALSE] ELSE r
        <4>1. rows' = {New(r) : r \in rows} /\ ids' = ids  BY <2>2, <3>1
        <4>2. \A r \in rows : New(r) \in MemoryRow /\ New(r).id = r.id  BY <1>0 DEF MemoryRow
        <4> HIDE DEF New
        <4> QED  BY <1>0, <4>1, <4>2
      <3>2. CASE same = {}
        <4> DEFINE n == [id |-> ids + 1, map |-> m, old |-> FALSE]
        <4>1. rows' = rows \cup {n} /\ ids' = ids + 1  BY <2>2, <3>2
        <4>2. n \in MemoryRow /\ n.id = ids + 1  BY <1>0, <2>1 DEF MemoryRow
        <4> HIDE DEF n
        <4> QED  BY <1>0, <4>1, <4>2
      <3> QED  BY <3>1, <3>2
    <2> QED  BY <1>b, <2>1, <2>2, <2>3
  <1>5. ASSUME NEW c \in Computing, Memory!SaveFails(c) PROVE MemoryTypes'
    <2>1. pc[c] # "idle" /\ Memory!Ends(c) /\ UNCHANGED <<table, rows, ids, said>>
      BY <1>5 DEF Memory!SaveFails
    <2> QED  BY <1>0, <1>b, <2>1
  <1>6. ASSUME NEW r \in rows, Memory!Ages(r) PROVE MemoryTypes'
    <2> DEFINE New(q) == IF q.id <= r.id THEN [q EXCEPT !.old = TRUE] ELSE q
    <2>1. rows' = {New(q) : q \in rows} /\ UNCHANGED <<table, ids, pc, reading, head, said>>
      BY <1>6 DEF Memory!Ages
    <2>2. \A q \in rows : New(q).id = q.id /\ New(q) \in MemoryRow  BY <1>0 DEF MemoryRow
    <2> HIDE DEF New
    <2>3. \A q \in rows' : q \in MemoryRow /\ q.id \in 1..ids  BY <1>0, <2>1, <2>2
    <2> QED  BY <1>0, <1>a, <2>1, <2>3
  <1>7. CASE Memory!Trim
    <2>1. rows' \subseteq rows /\ UNCHANGED <<table, ids, pc, reading, head, said>>
      BY <1>7 DEF Memory!Trim
    <2> QED  BY <1>0, <1>a, <2>1
  <1>8. CASE UNCHANGED Memory!vars
    <2>1. UNCHANGED <<table, rows, ids, pc, reading, head, said>>  BY <1>8 DEF Memory!vars
    <2> QED  BY <1>0, <1>a, <2>1
  <1> QED  BY <1>1, <1>2, <1>3, <1>4, <1>5, <1>6, <1>7, <1>8 DEF Memory!Next

\* The newest row has the last serial, whatever was trimmed, and what a compute has read of it
\* still stands when it saves: with one thread nobody else has written.
RowsInv ==
    /\ \A r \in rows : r \in MemoryRow
    /\ \A r \in rows : r.id \in 1..ids /\ r.map \in Memory!Map /\ r.old \in BOOLEAN
    /\ \A r, q \in rows : r.id = q.id => r.map = q.map
    /\ ids > 0 => \E r \in rows : r.id = ids

\* What a compute has read as the newest row is the newest row.
HeadInv(c) ==
    pc[c] = "merging" =>
        /\ \A h \in head[c] : \E r \in rows : r.id = ids /\ h.id = ids /\ h.map = r.map
        /\ ids > 0 => head[c] # {}

\* The newest row has of each dataset what was last said of it.
SaidInv == \A d \in Datasets : said[d] # {} => \E r \in rows : r.id = ids /\ r.map[d] \in said[d]

\* The inductive invariant of the record, with one compute at a time.
MemoryInv ==
    /\ table \in [Datasets -> TablesSeen] /\ ids \in 0..HistoryRows
    /\ pc \in [Computing -> {"idle", "computed", "merging"}]
    /\ reading \in [Computing -> [map: Memory!Map \cup {<<>>}, unread: SUBSET Datasets]]
    /\ DOMAIN head = Computing /\ DOMAIN said = Datasets
    /\ \A c \in Computing : /\ pc[c] # "idle" => reading[c].map \in Memory!Map /\ ids < HistoryRows
                            /\ head[c] # {} => pc[c] = "merging"
                            /\ HeadInv(c)
    /\ RowsInv /\ SaidInv

\* The row with the last number is the one with the greatest.
LEMMA NewestIs ==
    ASSUME RowsInv, ids \in Nat
    PROVE  Memory!Newest(rows) = {r \in rows : r.id = ids}
  <1>1. \A r \in rows : r.id \in Int /\ r.id >= 1 /\ r.id <= ids  BY DEF RowsInv
  <1>2. ASSUME NEW r \in rows PROVE (\A q \in rows : q.id <= r.id) <=> r.id = ids
    <2>1. CASE ids > 0
      <3>1. PICK q \in rows : q.id = ids  BY <2>1 DEF RowsInv
      <3>2. (\A p \in rows : p.id <= r.id) => ids <= r.id  BY <3>1
      <3> QED  BY <1>1, <3>2
    <2>2. CASE ~(ids > 0)  BY <1>1, <2>2
    <2> QED  BY <2>1, <2>2
  <1> QED  BY <1>2 DEF Memory!Newest

\* So the record tells what was measured last.
LEMMA MemoryMeans ==
    ASSUME MemoryAssumption, OneCompute, MemoryInv PROVE Memory!Remembered
  <1>1. ids \in Nat  BY DEF MemoryInv, MemoryAssumption
  <1> QED  BY <1>1, NewestIs DEF MemoryInv, SaidInv, Memory!Remembered

\* The record is empty at first.
LEMMA MemoryInit == ASSUME MemoryAssumption, OneCompute, Memory!Init PROVE MemoryInv
  BY DEF MemoryAssumption, Memory!Init, MemoryInv, Memory!Idle, HeadInv, RowsInv, SaidInv

\* Rows that keep their serials and maps, and all of them or the newest, tell the same.
LEMMA RowsStand ==
    ASSUME MemoryAssumption, OneCompute, MemoryInv, ids' = ids, said' = said,
           \A q \in rows' : q \in MemoryRow,
           \A q \in rows' : \E r \in rows : r.id = q.id /\ r.map = q.map,
           \A r \in rows : r.id = ids => \E q \in rows' : q.id = r.id /\ q.map = r.map
    PROVE  /\ RowsInv' /\ SaidInv'
           /\ \A c \in Computing : pc'[c] = pc[c] /\ head'[c] = head[c] => HeadInv(c)'
  <1>1. RowsInv /\ SaidInv  BY DEF MemoryInv
  <1>2. ASSUME NEW r \in rows', NEW q \in rows', r.id = q.id PROVE r.map = q.map
    <2>1. PICK a \in rows : a.id = r.id /\ a.map = r.map  OBVIOUS
    <2>2. PICK b \in rows : b.id = q.id /\ b.map = q.map  OBVIOUS
    <2>3. a.id = b.id  BY <1>2, <2>1, <2>2
    <2>4. a.map = b.map  BY <1>1, <2>3 DEF RowsInv
    <2> QED  BY <2>1, <2>2, <2>4
  <1>3. ids > 0 => \E r \in rows' : r.id = ids
    BY <1>1 DEF RowsInv
  <1>4. \A q \in rows' : q.id \in 1..ids /\ q.map \in Memory!Map /\ q.old \in BOOLEAN
    <2> SUFFICES ASSUME NEW q \in rows' PROVE q.id \in 1..ids /\ q.map \in Memory!Map /\ q.old \in BOOLEAN
      OBVIOUS
    <2>1. PICK r \in rows : r.id = q.id /\ r.map = q.map  OBVIOUS
    <2>2. r.id \in 1..ids  BY <1>1 DEF RowsInv
    <2>3. q \in MemoryRow  OBVIOUS
    <2> QED  BY <2>1, <2>2, <2>3 DEF MemoryRow
  <1>5. RowsInv'  BY <1>2, <1>3, <1>4 DEF RowsInv
  <1>6. SaidInv'
    <2> SUFFICES ASSUME NEW d \in Datasets, said[d] # {}
                 PROVE  \E q \in rows' : q.id = ids /\ q.map[d] \in said[d]
      BY DEF SaidInv
    <2>1. PICK r \in rows : r.id = ids /\ r.map[d] \in said[d]  BY <1>1 DEF SaidInv
    <2>2. PICK q \in rows' : q.id = r.id /\ q.map = r.map  BY <2>1
    <2> QED  BY <2>1, <2>2
  <1>7. ASSUME NEW c \in Computing, pc'[c] = pc[c], head'[c] = head[c] PROVE HeadInv(c)'
    <2>1. HeadInv(c)  BY DEF MemoryInv
    <2> SUFFICES ASSUME pc[c] = "merging"
                 PROVE  /\ \A h \in head[c] : \E r \in rows' : r.id = ids /\ h.id = ids /\ h.map = r.map
                        /\ ids > 0 => head[c] # {}
      BY <1>7 DEF HeadInv
    <2>2. ASSUME NEW h \in head[c] PROVE \E r \in rows' : r.id = ids /\ h.id = ids /\ h.map = r.map
      <3>1. PICK r \in rows : r.id = ids /\ h.id = ids /\ h.map = r.map  BY <2>1, <2>2 DEF HeadInv
      <3>2. PICK q \in rows' : q.id = r.id /\ q.map = r.map  BY <3>1
      <3> QED  BY <3>1, <3>2
    <2> QED  BY <2>1, <2>2 DEF HeadInv
  <1> QED  BY <1>5, <1>6, <1>7

\* A compute saves what it has measured and carried over, and trims the record.
LEMMA SaveStep ==
    ASSUME MemoryAssumption, OneCompute, MemoryInv, NEW c \in Computing, Memory!Save(c) PROVE MemoryInv'
  <1> DEFINE read == reading[c]
             m == Memory!CarryForward(read.map, read.unread, head[c])
             same == {r \in head[c] : r.map = m}
  <1>0. /\ pc[c] = "merging" /\ ids \in Nat /\ HistoryRows \in Nat /\ ids < HistoryRows
        /\ read.map \in Memory!Map /\ read.unread \subseteq Datasets /\ RowsInv /\ SaidInv /\ HeadInv(c)
        /\ Computing = {c}
    BY DEF MemoryAssumption, OneCompute, MemoryInv, Memory!Save
  <1>1. /\ \A h \in head[c] : \E r \in rows : r.id = ids /\ h.id = ids /\ h.map = r.map
        /\ ids > 0 => head[c] # {}
    BY <1>0 DEF HeadInv
  <1>2. \A h \in head[c] : h.map \in Memory!Map  BY <1>0, <1>1 DEF RowsInv
  <1>3. head[c] # {} => (CHOOSE r \in head[c] : TRUE) \in head[c]  OBVIOUS
  <1>4. \A d \in Datasets :
           m[d] = IF d \in read.unread /\ head[c] # {} THEN (CHOOSE r \in head[c] : TRUE).map[d]
                  ELSE read.map[d]
    BY DEF Memory!CarryForward
  <1>5. m \in Memory!Map
    <2>1. \A d \in Datasets : m[d] \in [Memory!Axes -> Memory!Verdict]
      BY <1>0, <1>2, <1>3, <1>4 DEF Memory!Map
    <2>2. m = [d \in Datasets |-> m[d]]  BY DEF Memory!CarryForward
    <2> QED  BY <2>1, <2>2 DEF Memory!Map
  <1>6. /\ IF same # {}
           THEN /\ rows' = {IF \E h \in same : h.id = r.id THEN [r EXCEPT !.old = FALSE] ELSE r
                              : r \in rows}
                /\ UNCHANGED ids
           ELSE /\ rows' = rows \cup {[id |-> ids + 1, map |-> m, old |-> FALSE]}
                /\ ids' = ids + 1
        /\ said' = [d \in Datasets |-> IF d \in read.unread THEN said[d] ELSE {read.map[d]}]
        /\ Memory!Ends(c) /\ UNCHANGED table
    BY Zenon DEF Memory!Save
  <1> HIDE DEF m, same
  \* The newest row says the map that was merged.
  <1>7. RowsInv' /\ ids' \in 0..HistoryRows /\ \E r \in rows' : r.id = ids' /\ r.map = m
    <2>1. CASE same = {}
      <3> DEFINE n == [id |-> ids + 1, map |-> m, old |-> FALSE]
      <3>1. rows' = rows \cup {n} /\ ids' = ids + 1  BY <1>6, <2>1
      <3>2. n.id = ids + 1 /\ n.map = m /\ n.old = FALSE  OBVIOUS
      <3>0. n \in MemoryRow  BY <1>0, <1>5 DEF n, MemoryRow
      <3> HIDE DEF n
      <3>3. \A r \in rows : r.id # ids + 1 /\ r.id \in 1..(ids + 1)  BY <1>0 DEF RowsInv
      <3>4. RowsInv'
        <4>1. ASSUME NEW r \in rows'
              PROVE  r \in MemoryRow /\ r.id \in 1..ids' /\ r.map \in Memory!Map /\ r.old \in BOOLEAN
          <5>1. CASE r \in rows  BY <1>0, <3>1, <3>3, <5>1 DEF RowsInv
          <5>2. CASE r = n
            <6>1. n.id \in 1..ids'  BY <1>0, <3>1, <3>2
            <6>2. n.map \in Memory!Map /\ n.old \in BOOLEAN  BY <1>5, <3>2
            <6> QED  BY <3>0, <5>2, <6>1, <6>2
          <5> QED  BY <3>1, <5>1, <5>2
        <4>2. \A r, q \in rows' : r.id = q.id => r.map = q.map
          BY <1>0, <3>1, <3>2, <3>3 DEF RowsInv
        <4> QED  BY <1>0, <3>1, <3>2, <4>1, <4>2 DEF RowsInv
      <3> QED  BY <1>0, <3>1, <3>2, <3>4
    <2>2. CASE same # {}
      <3> DEFINE New(r) == IF \E h \in same : h.id = r.id THEN [r EXCEPT !.old = FALSE] ELSE r
      <3>1. rows' = {New(r) : r \in rows} /\ ids' = ids  BY <1>6, <2>2
      <3>2. \A r \in rows : New(r).id = r.id /\ New(r).map = r.map /\ New(r) \in MemoryRow
        BY <1>0 DEF RowsInv, MemoryRow
      <3> HIDE DEF New
      <3>3. PICK h \in same : TRUE  BY <2>2
      <3>4. h \in head[c] /\ h.map = m  BY <3>3 DEF same
      <3>5. PICK r \in rows : r.id = ids /\ r.map = m  BY <1>1, <3>4
      <3>6. New(r) \in rows' /\ New(r).id = ids /\ New(r).map = m  BY <3>1, <3>2, <3>5
      <3>7. \A q \in rows' : \E p \in rows : p.id = q.id /\ p.map = q.map /\ q \in MemoryRow
        BY <3>1, <3>2
      <3>8. RowsInv'
        <4>1. \A q \in rows' : q \in MemoryRow /\ q.id \in 1..ids /\ q.map \in Memory!Map /\ q.old \in BOOLEAN
          <5> SUFFICES ASSUME NEW q \in rows'
                       PROVE  q \in MemoryRow /\ q.id \in 1..ids /\ q.map \in Memory!Map /\ q.old \in BOOLEAN
            OBVIOUS
          <5>1. PICK p \in rows : p.id = q.id /\ p.map = q.map /\ q \in MemoryRow  BY <3>7
          <5>2. p.id \in 1..ids  BY <1>0 DEF RowsInv
          <5> QED  BY <5>1, <5>2 DEF MemoryRow
        <4>2. ASSUME NEW q \in rows', NEW p \in rows', q.id = p.id PROVE q.map = p.map
          <5>1. PICK a \in rows : a.id = q.id /\ a.map = q.map  BY <3>7
          <5>2. PICK b \in rows : b.id = p.id /\ b.map = p.map  BY <3>7
          <5>3. a.id = b.id  BY <4>2, <5>1, <5>2
          <5>4. a.map = b.map  BY <1>0, <5>3 DEF RowsInv
          <5> QED  BY <5>1, <5>2, <5>4
        <4> QED  BY <3>1, <3>6, <4>1, <4>2 DEF RowsInv
      <3> QED  BY <1>0, <3>1, <3>6, <3>8
    <2> QED  BY <2>1, <2>2
  <1>8. SaidInv'
    <2> SUFFICES ASSUME NEW d \in Datasets, said'[d] # {} PROVE m[d] \in said'[d]
      BY <1>7 DEF SaidInv
    <2>1. CASE d \notin read.unread
      BY <1>4, <1>6, <2>1
    <2>2. CASE d \in read.unread
      <3>1. said'[d] = said[d]  BY <1>6, <2>2
      <3>2. PICK r \in rows : r.id = ids /\ r.map[d] \in said[d]  BY <1>0, <3>1 DEF SaidInv
      <3>3. head[c] # {}  BY <1>0, <1>1, <3>2 DEF RowsInv
      <3>4. \A h \in head[c] : h.map = r.map
        BY <1>0, <1>1, <3>2 DEF RowsInv
      <3>5. m[d] = r.map[d]  BY <1>3, <1>4, <2>2, <3>3, <3>4
      <3> QED  BY <3>1, <3>2, <3>5
    <2> QED  BY <2>1, <2>2
  <1>9. pc' \in [Computing -> {"idle", "computed", "merging"}] /\ pc'[c] = "idle"
        /\ DOMAIN head' = Computing /\ head'[c] = {}
        /\ reading' \in [Computing -> [map: Memory!Map \cup {<<>>}, unread: SUBSET Datasets]]
    BY <1>6 DEF Memory!Ends, MemoryInv, Memory!Idle
  <1> QED  BY <1>0, <1>6, <1>7, <1>8, <1>9 DEF MemoryInv, HeadInv

\* Every step of the one compute.
LEMMA MemoryNext == ASSUME MemoryAssumption, OneCompute, MemoryInv, [Memory!Next]_(Memory!vars) PROVE MemoryInv'
  <1>0. /\ ids \in Nat /\ RowsInv /\ SaidInv /\ \A c \in Computing : Computing = {c}
        /\ \A c \in Computing : HeadInv(c)
    BY DEF MemoryAssumption, OneCompute, MemoryInv
  <1>1. ASSUME NEW d \in Datasets, Memory!TableChanges(d) PROVE MemoryInv'
    BY <1>1 DEF Memory!TableChanges, MemoryInv, RowsInv, SaidInv, HeadInv
  <1>2. ASSUME NEW c \in Computing, Memory!Compute(c) PROVE MemoryInv'
    <2>1. PICK how \in [Datasets -> Memory!Reads] :
             reading' = [reading EXCEPT ![c] =
                 [map |-> [d \in Datasets |-> Memory!Judged(d, how[d])],
                  unread |-> {d \in Datasets : how[d] = "failed"}]]
      BY <1>2 DEF Memory!Compute
    <2>2. [d \in Datasets |-> Memory!Judged(d, how[d])] \in Memory!Map
      BY JudgedIsVerdict DEF Memory!Map
    <2>3. /\ reading' \in [Computing -> [map: Memory!Map \cup {<<>>}, unread: SUBSET Datasets]]
          /\ reading'[c].map \in Memory!Map
      BY <2>1, <2>2 DEF MemoryInv
    <2>4. ids < HistoryRows
      <3>1. {b \in Computing : pc[b] # "idle"} = {}  BY <1>0, <1>2 DEF Memory!Compute
      <3>2. Cardinality({b \in Computing : pc[b] # "idle"}) = 0  BY <3>1, FS_EmptySet
      <3> QED  BY <1>0, <1>2, <3>2, SameCardinality DEF Memory!Compute
    <2>5. /\ pc' \in [Computing -> {"idle", "computed", "merging"}] /\ pc'[c] = "computed"
          /\ head[c] = {} /\ UNCHANGED <<table, rows, ids, head, said>>
      BY <1>2 DEF Memory!Compute, MemoryInv
    <2> QED  BY <1>0, <2>3, <2>4, <2>5 DEF MemoryInv, RowsInv, SaidInv, HeadInv
  <1>3. ASSUME NEW c \in Computing, Memory!ReadHead(c) PROVE MemoryInv'
    <2>1. Memory!Newest(rows) = {r \in rows : r.id = ids}  BY <1>0, NewestIs
    <2>2. /\ pc' \in [Computing -> {"idle", "computed", "merging"}] /\ pc'[c] = "merging"
          /\ DOMAIN head' = Computing /\ head'[c] = {r \in rows : r.id = ids} /\ pc[c] = "computed"
          /\ UNCHANGED <<table, rows, ids, reading, said>>
      BY <1>3, <2>1 DEF Memory!ReadHead, MemoryInv
    <2>3. HeadInv(c)'
      BY <1>0, <2>2 DEF HeadInv, RowsInv
    <2> QED  BY <1>0, <2>2, <2>3 DEF MemoryInv, RowsInv, SaidInv
  <1>4. ASSUME NEW c \in Computing, Memory!Save(c) PROVE MemoryInv'
    BY <1>4, SaveStep
  <1>5. ASSUME NEW c \in Computing, Memory!SaveFails(c) PROVE MemoryInv'
    <2>1. pc' \in [Computing -> {"idle", "computed", "merging"}] /\ pc'[c] = "idle"
          /\ DOMAIN head' = Computing /\ head'[c] = {}
          /\ reading' \in [Computing -> [map: Memory!Map \cup {<<>>}, unread: SUBSET Datasets]]
          /\ UNCHANGED <<table, rows, ids, said>>
      BY <1>5 DEF Memory!SaveFails, Memory!Ends, MemoryInv, Memory!Idle
    <2> QED  BY <1>0, <2>1 DEF MemoryInv, RowsInv, SaidInv, HeadInv
  <1>6. ASSUME NEW r \in rows, Memory!Ages(r) PROVE MemoryInv'
    <2> DEFINE New(q) == IF q.id <= r.id THEN [q EXCEPT !.old = TRUE] ELSE q
    <2>1. rows' = {New(q) : q \in rows} /\ UNCHANGED <<table, ids, pc, reading, head, said>>
      BY <1>6 DEF Memory!Ages
    <2>2. \A q \in rows : New(q).id = q.id /\ New(q).map = q.map /\ New(q) \in MemoryRow
      BY <1>0 DEF RowsInv, MemoryRow
    <2> HIDE DEF New
    <2>3. \A q \in rows' : q \in MemoryRow
      BY <2>1, <2>2
    <2>4. \A q \in rows' : \E p \in rows : p.id = q.id /\ p.map = q.map  BY <2>1, <2>2
    <2>5. \A p \in rows : \E q \in rows' : q.id = p.id /\ q.map = p.map  BY <2>1, <2>2
    <2>6. RowsInv' /\ SaidInv' /\ \A c \in Computing : HeadInv(c)'
      BY <2>1, <2>3, <2>4, <2>5, RowsStand
    <2> QED  BY <2>1, <2>6 DEF MemoryInv
  <1>7. CASE Memory!Trim
    <2>1. Memory!Newest(rows) = {r \in rows : r.id = ids}  BY <1>0, NewestIs
    <2>2. rows' \subseteq rows /\ (\A r \in rows : r.id = ids => r \in rows')
          /\ UNCHANGED <<table, ids, pc, reading, head, said>>
      BY <1>7, <2>1 DEF Memory!Trim, Memory!Outdated
    <2>3. \A q \in rows' : q \in MemoryRow
      BY <1>0, <2>2 DEF RowsInv
    <2>4. RowsInv' /\ SaidInv' /\ \A c \in Computing : HeadInv(c)'
      <3>1. \A q \in rows' : \E r \in rows : r.id = q.id /\ r.map = q.map  BY <2>2
      <3>2. \A r \in rows : r.id = ids => \E q \in rows' : q.id = r.id /\ q.map = r.map  BY <2>2
      <3> QED  BY <2>2, <2>3, <3>1, <3>2, RowsStand
    <2> QED  BY <2>2, <2>4 DEF MemoryInv
  <1>8. CASE UNCHANGED Memory!vars
    BY <1>8 DEF Memory!vars, MemoryInv, RowsInv, SaidInv, HeadInv
  <1> QED  BY <1>1, <1>2, <1>3, <1>4, <1>5, <1>6, <1>7, <1>8 DEF Memory!Next

-----------------------------------------------------------------------------
(* The verdicts.  What an axis calls ok follows from the figures it is judged by, and those *)
(* from the rows of the table (verdicts.py, coverage_dimensions.py, continuity.py).          *)

\* A share that rounds to 950 tenths of a percent is 949 and a half at least.
LEMMA ShareRounds ==
    ASSUME NEW n \in Nat, NEW o \in Nat \ {0}, Tables!Share(n, o) >= 950
    PROVE  2000 * n >= 1899 * o
  <1> DEFINE e == 2 * o
             x == 2000 * n + o
             q == x \div e
             r == x % e
  <1>1. e \in Nat \ {0} /\ x \in Int  OBVIOUS
  <1>2. q >= 950  BY DEF Tables!Share
  <1>3. e * 950 = 1900 * o /\ x = 2000 * n + o  OBVIOUS
  <1> HIDE DEF e, x
  <1>4. q \in Int /\ x - r = e * q /\ r \in 0..(e - 1)  BY <1>1, Multiple
  <1> HIDE DEF q, r
  <1>5. e * q >= e * 950
    <2>1. CASE q = 950  BY <2>1, <1>1
    <2>2. CASE 950 < q
      <3>1. e * 950 + e <= e * q  BY <1>1, <1>4, <2>2, Spacing
      <3> QED  BY <1>1, <1>4, <3>1
    <2> QED  BY <1>2, <1>4, <2>1, <2>2
  <1> QED  BY <1>1, <1>3, <1>4, <1>5

\* Days that all have the same have it for a median.
LEMMA SteadyMedian ==
    ASSUME NEW S, IsFiniteSet(S), S # {}, NEW f, NEW n \in Nat, \A d \in S : f[d] = n
    PROVE  Tables!Median2(f, S) = 2 * n
  <1> DEFINE c == Cardinality(S)
             G(k) == {f[d] : d \in {e \in S : Cardinality({g \in S : f[g] <= f[e]}) >= k}}
  <1>1. c \in Nat /\ c # 0  BY FS_CardinalityType, FS_EmptySet
  <1>2. \A e \in S : {g \in S : f[g] <= f[e]} = S  OBVIOUS
  <1>3. ASSUME NEW k \in Int, k <= c PROVE Min(G(k)) = n
    <2>1. {e \in S : Cardinality({g \in S : f[g] <= f[e]}) >= k} = S  BY <1>1, <1>2, <1>3
    <2>2. G(k) = {f[d] : d \in S}  BY <2>1
    <2>3. G(k) = {n}  BY <2>2
    <2> HIDE DEF G
    <2>4. G(k) \in SUBSET Int /\ G(k) # {}  BY <2>3
    <2>5. IsFiniteSet(G(k))  BY <2>3, FS_Singleton
    <2>6. Min(G(k)) \in G(k)  BY <2>4, <2>5, MinIsLeast
    <2> QED  BY <2>3, <2>6
  <1>4. Tables!Median2(f, S) = Min(G((c + 1) \div 2)) + Min(G((c + 2) \div 2))
    BY SameHere DEF Tables!Median2
  <1> HIDE DEF G, c
  <1>5. (c + 1) \div 2 \in Int /\ (c + 1) \div 2 <= c /\ (c + 2) \div 2 \in Int /\ (c + 2) \div 2 <= c
    BY <1>1
  <1> QED  BY <1>3, <1>4, <1>5

\* Where enough days came before, enough are looked at.
LEMMA EnoughBefore ==
    ASSUME TableAssumption, NEW S \in SUBSET Int, IsFiniteSet(S), NEW d \in Int,
           Cardinality({e \in S : e < d}) >= LeastBefore
    PROVE  /\ Tables!Before(S, d) \in SUBSET {e \in S : e < d} /\ IsFiniteSet(Tables!Before(S, d))
           /\ Cardinality(Tables!Before(S, d)) >= LeastBefore /\ Tables!Before(S, d) # {}
  <1> DEFINE L == {e \in S : e < d}
             B == Tables!Before(S, d)
  <1>0. LeastBefore \in Nat \ {0} /\ Nearby \in Nat /\ LeastBefore <= Nearby  BY DEF TableAssumption
  <1>1. L \in SUBSET S /\ L \in SUBSET Int  OBVIOUS
  <1>2. IsFiniteSet(L) /\ Cardinality(L) \in Nat  BY <1>1, PartOfFinite
  <1>3. B = {e \in S : e < d /\ Cardinality({f \in S : e < f /\ f < d}) < Nearby}
    BY SameHere DEF Tables!Before
  <1>4. LeastBefore \in 1..Cardinality(L)  BY <1>0, <1>2
  <1>5. B \in SUBSET L  BY <1>3
  <1>m. \A f \in S : f < d => f \in L  OBVIOUS
  <1>n. \A f \in L : f \in S /\ f < d  OBVIOUS
  <1> HIDE DEF L, B
  <1>6. PICK m \in L : Cardinality(From(L, m)) = LeastBefore  BY <1>1, <1>2, <1>4, BackRankExists
  <1>7. From(L, m) \in SUBSET L /\ IsFiniteSet(From(L, m))
    <2>1. From(L, m) \in SUBSET L  BY DEF From
    <2> QED  BY <1>2, <2>1, FS_Subset
  <1>8. ASSUME NEW e \in From(L, m) PROVE e \in B
    <2> DEFINE N == {f \in S : e < f /\ f < d}
    <2>1. e \in L /\ m <= e /\ e \in Int /\ m \in Int  BY <1>1, <1>6, <1>7 DEF From
    <2>2. N \in SUBSET From(L, m)
      <3> SUFFICES ASSUME NEW f \in N PROVE f \in From(L, m)  OBVIOUS
      <3>1. f \in L /\ f \in Int /\ e < f  BY <1>m
      <3>2. m <= f  BY <2>1, <3>1
      <3> QED  BY <3>1, <3>2 DEF From
    <2>3. e \notin N /\ N # From(L, m)  BY <1>8, <2>1
    <2> HIDE DEF N
    <2>4. Cardinality(N) < Cardinality(From(L, m)) /\ Cardinality(N) \in Nat
      BY <1>7, <2>2, <2>3, PartOfFinite
    <2>5. Cardinality(N) < Nearby  BY <1>0, <1>6, <2>4
    <2> QED  BY <1>3, <1>n, <2>1, <2>5 DEF N
  <1>9. From(L, m) \in SUBSET B /\ IsFiniteSet(B)  BY <1>2, <1>5, <1>8, FS_Subset
  <1>10. Cardinality(From(L, m)) <= Cardinality(B) /\ Cardinality(B) \in Nat  BY <1>9, PartOfFinite
  <1>11. Cardinality(B) >= LeastBefore  BY <1>0, <1>6, <1>10
  <1>12. B # {}  BY <1>0, <1>11, FS_EmptySet
  <1> QED  BY <1>5, <1>9, <1>11, <1>12 DEF L, B

\* What a table holds is finite.
LEMMA TableIsFinite ==
    ASSUME NEW t, IsFiniteSet(t), \A r \in t : r[1] \in Int
    PROVE  /\ IsFiniteSet(Tables!DaysHeld(t)) /\ Tables!DaysHeld(t) \in SUBSET Int
           /\ \A d : IsFiniteSet(Tables!HeldOn(t, d)) /\ Cardinality(Tables!HeldOn(t, d)) \in Nat
           /\ \A d : Tables!HeldOn(t, d) # {} => d \in Tables!DaysHeld(t)
  <1>1. IsFiniteSet(Tables!DaysHeld(t))
    <2> DEFINE f == [r \in t |-> r[1]]
    <2>1. Tables!DaysHeld(t) = {f[r] : r \in t}  BY DEF Tables!DaysHeld
    <2> HIDE DEF f
    <2> QED  BY <2>1, ImageIsFinite
  <1>2. Tables!DaysHeld(t) \in SUBSET Int  BY DEF Tables!DaysHeld
  <1>3. ASSUME NEW d PROVE IsFiniteSet(Tables!HeldOn(t, d)) /\ Cardinality(Tables!HeldOn(t, d)) \in Nat
    <2> DEFINE T == {q \in t : q[1] = d}
               f == [r \in T |-> r[2]]
    <2>1. T \in SUBSET t  OBVIOUS
    <2>2. Tables!HeldOn(t, d) = {f[r] : r \in T}  BY DEF Tables!HeldOn
    <2> HIDE DEF f, T
    <2>3. IsFiniteSet(T)  BY <2>1, FS_Subset
    <2>4. IsFiniteSet(Tables!HeldOn(t, d))  BY <2>2, <2>3, ImageIsFinite
    <2> QED  BY <2>4, FS_CardinalityType
  <1>4. \A d : Tables!HeldOn(t, d) # {} => d \in Tables!DaysHeld(t)
    BY DEF Tables!HeldOn, Tables!DaysHeld
  <1> QED  BY <1>1, <1>2, <1>3, <1>4

\* Of the names that were asked for, no more are held than there are.
LEMMA NoMoreThanAll ==
    ASSUME TableAssumption, NEW c, NEW t
    PROVE  LET b == Tables!Breadth(t, c.window, LastDue, Wanted, c.voided, c.judged)
               sought == Wanted \ c.voided
           IN  /\ b.held <= b.of /\ b.held \in Nat /\ b.of \in Nat /\ b.of = Cardinality(sought)
               /\ b.held = Cardinality(Tables!HeldSymbols(t, c.window, LastDue) \cap sought)
               /\ b.judged = c.judged /\ IsFiniteSet(sought)
  <1> DEFINE sought == Wanted \ c.voided
             S == Tables!HeldSymbols(t, c.window, LastDue)
  <1>1. IsFiniteSet(sought)  BY FS_Difference DEF TableAssumption
  <1>2. Tables!Breadth(t, c.window, LastDue, Wanted, c.voided, c.judged)
          = [judged |-> c.judged, held |-> Cardinality(S \cap sought), of |-> Cardinality(sought),
             outside |-> Cardinality(S \ sought)]
    BY SameHere DEF Tables!Breadth
  <1> HIDE DEF sought, S
  <1>3. (S \cap sought) \in SUBSET sought  OBVIOUS
  <1>4. Cardinality(S \cap sought) <= Cardinality(sought) /\ Cardinality(sought) \in Nat /\ Cardinality(S \cap sought) \in Nat
    BY <1>1, <1>3, PartOfFinite
  <1> QED  BY <1>1, <1>2, <1>4 DEF sought, S

\* What rounds to 95 of 100.
NearlyAll(lacks, all) == 2000 * lacks <= 101 * all

\* What the verdict of breadth says of a delivery by the session.
LEMMA BreadthSays ==
    ASSUME TableAssumption, NEW c, c.window = "session", NEW t, IsFiniteSet(t), \A r \in t : r[1] \in Int,
           Tables!BreadthVerdict(FALSE, Tables!Breadth(t, c.window, LastDue, Wanted, c.voided, c.judged)) = "ok"
    PROVE  LET sought == Wanted \ c.voided
               last == Tables!HeldOn(t, Max({day \in Tables!DaysHeld(t) : day <= LastDue}))
           IN  /\ IsFiniteSet(sought) /\ Cardinality(sought) \in Nat \ {0}
               /\ NearlyAll(Cardinality(sought \ last), Cardinality(sought))
  <1> DEFINE sought == Wanted \ c.voided
             due == {day \in Tables!DaysHeld(t) : day <= LastDue}
             last == Tables!HeldOn(t, Max(due))
             b == Tables!Breadth(t, c.window, LastDue, Wanted, c.voided, c.judged)
  <1>1. /\ b.held \in Nat /\ b.of \in Nat /\ b.of = Cardinality(sought) /\ IsFiniteSet(sought)
        /\ b.held = Cardinality(Tables!HeldSymbols(t, c.window, LastDue) \cap sought)
    BY NoMoreThanAll
  <1>2. b.of # 0 /\ Tables!Share(b.held, b.of) >= 950
    <2>1. Tables!BreadthVerdict(FALSE, b) = "ok"  OBVIOUS
    <2> HIDE DEF b
    <2> QED  BY <2>1 DEF Tables!BreadthVerdict, Tables!Graded
  <1>3. 2000 * b.held >= 1899 * b.of
    <2> HIDE DEF b
    <2> QED  BY <1>1, <1>2, ShareRounds
  <1>4. {d \in Tables!DaysHeld(t) : LastDue = Tables!None \/ d <= LastDue} = due
    BY DEF Tables!None, TableAssumption
  <1>5. Tables!HeldSymbols(t, c.window, LastDue) = IF due = {} THEN {} ELSE last
    BY <1>4, SameHere DEF Tables!HeldSymbols
  <1> HIDE DEF due, last, b, sought
  <1>6. due # {}
    <2> SUFFICES ASSUME due = {} PROVE FALSE  OBVIOUS
    <2>1. Tables!HeldSymbols(t, c.window, LastDue) \cap sought = {}  BY <1>5
    <2>2. b.held = 0  BY <1>1, <2>1, FS_EmptySet
    <2> QED  BY <1>1, <1>2, <1>3, <2>2
  <1>7. b.held = Cardinality(sought \cap last)
    <2>1. Tables!HeldSymbols(t, c.window, LastDue) \cap sought = sought \cap last  BY <1>5, <1>6
    <2> QED  BY <1>1, <2>1
  <1>8. Cardinality(sought \ last) = Cardinality(sought) - Cardinality(sought \cap last)
    BY <1>1, FS_Difference
  <1>9. NearlyAll(Cardinality(sought \ last), Cardinality(sought))
    BY <1>1, <1>3, <1>7, <1>8 DEF NearlyAll
  <1>10. Cardinality(sought) \in Nat \ {0}  BY <1>1, <1>2
  <1> QED  BY <1>1, <1>9, <1>10 DEF sought, due, last

\* What the verdict of freshness says of one.
LEMMA FreshnessSays ==
    ASSUME NEW c, c.cadence = "session", NEW t, NEW interval,
           Tables!FreshnessVerdict(FALSE, Tables!Freshness(t, c.cadence, TRUE, ThisDay, interval), c.hours) = "ok"
    PROVE  ThisDay - Max(Tables!DaysHeld(t)) <= (c.hours + 23) \div 24 + 1
  <1> DEFINE f == Tables!Freshness(t, c.cadence, TRUE, ThisDay, interval)
             allowed == ((c.hours + 23) \div 24) + 1
  <1>1. f.measured = TRUE /\ f.cadence = "session" /\ f.judged = TRUE
        /\ f.behind = IF t = {} THEN Tables!None ELSE ThisDay - Max(Tables!DaysHeld(t))
    BY SameHere DEF Tables!Freshness
  <1>2. Tables!FreshnessVerdict(FALSE, f, c.hours) =
           IF f.behind = Tables!None THEN "unknown"
           ELSE IF f.behind <= allowed THEN "ok" ELSE IF f.behind <= 3 * allowed THEN "partial" ELSE "thin"
    <2> HIDE DEF f
    <2> QED  BY <1>1 DEF Tables!FreshnessVerdict
  <1>3. Tables!FreshnessVerdict(FALSE, f, c.hours) = "ok"  OBVIOUS
  <1> HIDE DEF f
  <1>4. f.behind # Tables!None /\ f.behind <= allowed  BY <1>2, <1>3
  <1> QED  BY <1>1, <1>4

\* What the verdict of continuity says.
LEMMA ContinuitySays ==
    ASSUME TableAssumption, NEW t, IsFiniteSet(t), \A r \in t : r[1] \in Int,
           Tables!ContinuityVerdict(FALSE, Tables!Continuity(t, MarketDays, LastDue)) = "ok"
    PROVE  LET traded == Tables!DaysHeld(t) \cap MarketDays
               due == {d \in traded : d <= LastDue}
               count == [d \in due |-> Cardinality(Tables!HeldOn(t, d))]
           IN  /\ MarketDays \cap (Min(traded)..Max(traded)) \subseteq Tables!DaysHeld(t)
               /\ \A d \in due : ~Tables!BelowTrailing(count, due, d, 1, 2)
  <1> DEFINE traded == Tables!DaysHeld(t) \cap MarketDays
             due == {d \in traded : d <= LastDue}
             count == [d \in due |-> Cardinality(Tables!HeldOn(t, d))]
             gone == (Min(traded)..Max(traded)) \cap (MarketDays \ traded)
             thin == Tables!ThinDays(count, due)
             c == Tables!Continuity(t, MarketDays, LastDue)
  <1>1. {d \in traded : LastDue = Tables!None \/ d <= LastDue} = due
    BY DEF Tables!None, TableAssumption
  <1>2. /\ c.measured = TRUE /\ c.present = Cardinality(traded)
        /\ c.absent = IF traded = {} THEN 0 ELSE Cardinality(gone)
        /\ c.thin = Cardinality(thin)
    BY <1>1, SameHere DEF Tables!Continuity
  <1>3. c.absent + c.thin = 0 /\ c.present + c.absent # 0
    <2>1. Tables!ContinuityVerdict(FALSE, c) = "ok"  OBVIOUS
    <2> HIDE DEF c
    <2> QED  BY <1>2, <2>1 DEF Tables!ContinuityVerdict
  <1>4. IsFiniteSet(Tables!DaysHeld(t)) /\ Tables!DaysHeld(t) \in SUBSET Int  BY TableIsFinite
  <1>5. IsFiniteSet(traded) /\ traded \in SUBSET Int
    <2>1. traded \in SUBSET Tables!DaysHeld(t)  OBVIOUS
    <2> QED  BY <1>4, <2>1, FS_Subset
  <1>6. thin \in SUBSET due /\ due \in SUBSET traded  BY DEF Tables!ThinDays
  <1>7. thin = {d \in due : Tables!BelowTrailing(count, due, d, 1, 2)}  BY DEF Tables!ThinDays
  <1>a. gone = (Min(traded)..Max(traded)) \cap (MarketDays \ traded)  OBVIOUS
  <1>b. traded \in SUBSET Tables!DaysHeld(t)  OBVIOUS
  <1> HIDE DEF c, thin, count, due, gone, traded
  <1>8. traded # {}
    <2> SUFFICES ASSUME traded = {} PROVE FALSE  OBVIOUS
    <2>1. Cardinality(traded) = 0  BY FS_EmptySet
    <2> QED  BY <1>2, <1>3, <2>1
  <1>9. Min(traded) \in traded /\ Max(traded) \in traded  BY <1>5, <1>8, MinIsLeast, MaxIsGreatest
  <1>10. IsFiniteSet(gone)
    <2>1. Min(traded) \in Int /\ Max(traded) \in Int  BY <1>5, <1>9
    <2>2. IsFiniteSet(Min(traded)..Max(traded))  BY <2>1, FS_Interval
    <2>3. gone \in SUBSET (Min(traded)..Max(traded))  BY <1>a
    <2> QED  BY <2>2, <2>3, FS_Subset
  <1>11. IsFiniteSet(thin)
    <2>1. thin \in SUBSET traded  BY <1>6
    <2> QED  BY <1>5, <2>1, FS_Subset
  <1>12. Cardinality(gone) = 0 /\ Cardinality(thin) = 0
    <2>1. Cardinality(gone) \in Nat /\ Cardinality(thin) \in Nat  BY <1>10, <1>11, FS_CardinalityType
    <2> QED  BY <1>2, <1>3, <1>8, <2>1
  <1>13. gone = {} /\ thin = {}  BY <1>10, <1>11, <1>12, FS_EmptySet
  <1>14. MarketDays \cap (Min(traded)..Max(traded)) \subseteq Tables!DaysHeld(t)
    <2> DEFINE I == Min(traded)..Max(traded)
    <2>1. I \cap (MarketDays \ traded) = {}  BY <1>a, <1>13
    <2> HIDE DEF I
    <2>2. MarketDays \cap I \subseteq Tables!DaysHeld(t)  BY <1>b, <2>1
    <2> QED  BY <2>2 DEF I
  <1>15. \A d \in due : ~Tables!BelowTrailing(count, due, d, 1, 2)  BY <1>7, <1>13
  <1> QED  BY <1>14, <1>15 DEF traded, due, count

\* Four healthy verdicts of a dataset.
LEMMA TablesSolid == ASSUME TableAssumption, Tables!TypeOK PROVE Tables!OkIsSolid
  <1> SUFFICES ASSUME NEW d \in Datasets
      PROVE
        LET c == Bought[d]
            v == Tables!Judged(d, "whole")
            sought == Wanted \ c.voided
            held == Tables!DaysHeld(table[d])
            traded == held \cap MarketDays
            last == Tables!HeldOn(table[d], Max({day \in held : day <= LastDue}))
            b == Tables!Breadth(table[d], c.window, LastDue, Wanted, c.voided, c.judged)
        IN  /\ b.held <= b.of
            /\ c.window = "session" /\ c.cadence = "session" /\ (\A a \in Tables!Axes : v[a] = "ok") =>
                  /\ 2000 * Cardinality(sought \ last) <= 101 * Cardinality(sought)
                  /\ ThisDay - Max(held) <= (c.hours + 23) \div 24 + 1
                  /\ MarketDays \cap (Min(traded)..Max(traded)) \subseteq held
                  /\ \A day \in traded :
                        (day <= LastDue /\ \A e \in MarketDays : e < day => Tables!HeldOn(table[d], e) = sought)
                        /\ Cardinality({e \in MarketDays : e < day}) >= LeastBefore
                           => 2 * Cardinality(Tables!HeldOn(table[d], day)) >= Cardinality(sought)
    BY DEF Tables!OkIsSolid, Tables!Max, Tables!Min, Tables!Cardinality, Max, Min, Cardinality
  <1> DEFINE c == Bought[d]
             t == table[d]
             v == Tables!Judged(d, "whole")
             sought == Wanted \ c.voided
             held == Tables!DaysHeld(t)
             traded == held \cap MarketDays
             due == {e \in traded : e <= LastDue}
             count == [e \in due |-> Cardinality(Tables!HeldOn(t, e))]
             last == Tables!HeldOn(t, Max({day \in held : day <= LastDue}))
             b == Tables!Breadth(t, c.window, LastDue, Wanted, c.voided, c.judged)
  <1>1. t \in TablesJudged  BY DEF Tables!TypeOK
  <1>2. IsFiniteSet(t) /\ \A r \in t : r[1] \in Int  BY <1>1 DEF TableAssumption
  <1>3. b.held <= b.of
    <2> HIDE DEF c, t
    <2> QED  BY NoMoreThanAll
  <1>4. ASSUME c.window = "session", c.cadence = "session", \A a \in Tables!Axes : v[a] = "ok"
        PROVE  /\ 2000 * Cardinality(sought \ last) <= 101 * Cardinality(sought)
               /\ ThisDay - Max(held) <= (c.hours + 23) \div 24 + 1
               /\ MarketDays \cap (Min(traded)..Max(traded)) \subseteq held
               /\ \A day \in traded :
                     (day <= LastDue /\ \A e \in MarketDays : e < day => Tables!HeldOn(t, e) = sought)
                     /\ Cardinality({e \in MarketDays : e < day}) >= LeastBefore
                        => 2 * Cardinality(Tables!HeldOn(t, day)) >= Cardinality(sought)
    <2>1. /\ Tables!BreadthVerdict(FALSE, b) = "ok"
          /\ Tables!FreshnessVerdict(FALSE,
               Tables!Freshness(t, c.cadence, TRUE, ThisDay, Tables!Interval(t, MarketDays)), c.hours) = "ok"
          /\ Tables!ContinuityVerdict(FALSE, Tables!Continuity(t, MarketDays, LastDue)) = "ok"
      <3>1. v = [breadth |-> Tables!BreadthVerdict(FALSE, b),
                 depth |-> Tables!DepthVerdict(FALSE, Tables!Depth(t, c.depth, c.target, ThisDay, Wanted)),
                 freshness |-> Tables!FreshnessVerdict(FALSE,
                    Tables!Freshness(t, c.cadence, TRUE, ThisDay, Tables!Interval(t, MarketDays)), c.hours),
                 continuity |-> Tables!ContinuityVerdict(FALSE, Tables!Continuity(t, MarketDays, LastDue))]
        BY DEF Tables!Judged, Tables!Verdicts
      <3>2. v["breadth"] = "ok" /\ v["freshness"] = "ok" /\ v["continuity"] = "ok"
        BY <1>4 DEF Tables!Axes
      <3> HIDE DEF v, b, c, t
      <3> QED  BY <3>1, <3>2
    <2> HIDE DEF v, c, t
    <2>2. /\ IsFiniteSet(sought) /\ Cardinality(sought) \in Nat \ {0}
          /\ 2000 * Cardinality(sought \ last) <= 101 * Cardinality(sought)
      <3>1. IsFiniteSet(sought) /\ Cardinality(sought) \in Nat \ {0} /\ NearlyAll(Cardinality(sought \ last), Cardinality(sought))
        BY <1>2, <1>4, <2>1, BreadthSays
      <3> HIDE DEF sought, last
      <3> QED  BY <3>1 DEF NearlyAll
    <2>3. ThisDay - Max(held) <= (c.hours + 23) \div 24 + 1  BY <1>4, <2>1, FreshnessSays
    <2>4. /\ MarketDays \cap (Min(traded)..Max(traded)) \subseteq held
          /\ \A e \in due : ~Tables!BelowTrailing(count, due, e, 1, 2)
      BY <1>2, <2>1, ContinuitySays
    <2>5. ASSUME NEW day \in traded, day <= LastDue,
                 \A e \in MarketDays : e < day => Tables!HeldOn(t, e) = sought,
                 Cardinality({e \in MarketDays : e < day}) >= LeastBefore
          PROVE  2 * Cardinality(Tables!HeldOn(t, day)) >= Cardinality(sought)
      <3> DEFINE N == Cardinality(sought)
                 B == Tables!Before(due, day)
                 k == Cardinality(Tables!HeldOn(t, day))
      <3>1. /\ IsFiniteSet(held) /\ held \in SUBSET Int
            /\ \A e : Cardinality(Tables!HeldOn(t, e)) \in Nat
            /\ \A e : Tables!HeldOn(t, e) # {} => e \in held
        BY <1>2, TableIsFinite
      <3>2. sought # {}
        <4> HIDE DEF sought
        <4> QED  BY <2>2, FS_EmptySet
      <3>3. day \in due /\ day \in Int /\ LastDue \in Int  BY <2>5, <3>1 DEF TableAssumption
      <3>4. {e \in due : e < day} = {e \in MarketDays : e < day}
        <4>1. ASSUME NEW e \in MarketDays, e < day PROVE e \in due
          <5>1. e \in held  BY <2>5, <3>1, <3>2, <4>1
          <5>2. e \in Int  BY <3>1, <5>1
          <5>3. e <= LastDue  BY <2>5, <3>3, <4>1, <5>2
          <5> QED  BY <5>1, <5>3
        <4> QED  BY <4>1
      <3>5. due \in SUBSET Int /\ IsFiniteSet(due)
        <4>1. due \in SUBSET held  OBVIOUS
        <4> QED  BY <3>1, <4>1, FS_Subset
      <3>6. \A e \in due : count[e] = Cardinality(Tables!HeldOn(t, e))  OBVIOUS
      <3>7. \A e \in due : e < day => count[e] = N
        BY <2>5, <3>6
      <3>8. ~Tables!BelowTrailing(count, due, day, 1, 2)  BY <2>4, <3>3
      <3>9. N \in Nat \ {0} /\ k \in Nat /\ count[day] = k  BY <2>2, <3>1, <3>3, <3>6
      <3>10. Cardinality({e \in due : e < day}) >= LeastBefore  BY <2>5, <3>4
      <3> HIDE DEF due, count, N, k, sought
      <3>11. /\ B \in SUBSET {e \in due : e < day} /\ IsFiniteSet(B)
             /\ Cardinality(B) >= LeastBefore /\ B # {}
        BY <3>3, <3>5, <3>10, EnoughBefore
      <3>12. \A e \in B : count[e] = N  BY <3>7, <3>11
      <3> HIDE DEF B
      <3>13. Tables!Median2(count, B) = 2 * N  BY <3>9, <3>11, <3>12, SteadyMedian
      <3>14. ~(2 * 2 * k < 1 * (2 * N))
        <4>1. ~(/\ Cardinality(B) >= LeastBefore /\ 2 * N > 0 /\ 2 * 2 * count[day] < 1 * (2 * N))
          BY <3>8, <3>13, SameHere DEF Tables!BelowTrailing, B
        <4>2. 2 * N > 0  BY <3>9
        <4> QED  BY <3>9, <3>11, <4>1, <4>2
      <3>15. 2 * k >= N  BY <3>9, <3>14
      <3> QED  BY <3>15 DEF N, k
    <2> QED  BY <2>2, <2>3, <2>4, <2>5
  <1> HIDE DEF v
  <1>5. /\ b.held <= b.of
        /\ c.window = "session" /\ c.cadence = "session" /\ (\A a \in Tables!Axes : v[a] = "ok") =>
               /\ 2000 * Cardinality(sought \ last) <= 101 * Cardinality(sought)
               /\ ThisDay - Max(held) <= (c.hours + 23) \div 24 + 1
               /\ MarketDays \cap (Min(traded)..Max(traded)) \subseteq held
               /\ \A day \in traded :
                     (day <= LastDue /\ \A e \in MarketDays : e < day => Tables!HeldOn(t, e) = sought)
                     /\ Cardinality({e \in MarketDays : e < day}) >= LeastBefore
                        => 2 * Cardinality(Tables!HeldOn(t, day)) >= Cardinality(sought)
    <2> HIDE DEF sought, held, traded, last, b
    <2> QED  BY <1>3, <1>4
  <1> QED  BY <1>5, Zenon DEF v

-----------------------------------------------------------------------------
(* The width of sessions.  A heal orders days of its window and no others (doctor.py). *)

\* The first sessions are whole, narrow or missing.
LEMMA WidthInit == ASSUME WidthAssumption, Width!Init PROVE Width!TypeOK
  BY DEF WidthAssumption, Width!Init, Width!TypeOK

\* A heal orders days, and a refill makes one whole or narrow.
LEMMA WidthNext == ASSUME WidthAssumption, Width!TypeOK, [Width!Next]_(Width!vars) PROVE Width!TypeOK'
  <1>1. ASSUME NEW presence \in BOOLEAN, NEW breadth \in BOOLEAN, Width!Heal(presence, breadth)
        PROVE  Width!TypeOK'
    <2>1. Width!Absent \subseteq Width!Window /\ Width!Narrow \subseteq Width!Window
      <3>1. Width!Absent \subseteq Width!Window
        <4> DEFINE held == {d \in Width!Window : width[d] > 0}
        <4>1. \/ Width!Absent = {}
              \/ Width!Absent = {d \in Width!Window : width[d] = 0} \cap (Width!Min(held)..Width!Max(held))
          BY Zenon DEF Width!Absent
        <4> QED  BY <4>1
      <3> QED  BY <3>1 DEF Width!Narrow
    <2>2. refills' \subseteq Width!Window
      BY <1>1, <2>1 DEF Width!Heal, Width!TypeOK, Width!Oldest
    <2>3. misses' \in 0..HealFaults /\ width' = width
      BY <1>1 DEF Width!Heal, Width!Misses, Width!TypeOK, WidthAssumption
    <2> QED  BY <2>2, <2>3 DEF Width!TypeOK
  <1>2. ASSUME NEW d \in Width!Window, Width!Refill(d) PROVE Width!TypeOK'
    BY <1>2 DEF Width!Refill, Width!TypeOK
  <1>3. ASSUME NEW d \in Width!Window, Width!RefillFails(d) PROVE Width!TypeOK'
    BY <1>3 DEF Width!RefillFails, Width!Misses, Width!TypeOK, WidthAssumption
  <1>4. CASE Width!Lands  BY <1>4 DEF Width!Lands, Width!TypeOK
  <1>5. CASE UNCHANGED Width!vars  BY <1>5 DEF Width!vars, Width!TypeOK
  <1> QED  BY <1>1, <1>2, <1>3, <1>4, <1>5 DEF Width!Next

-----------------------------------------------------------------------------
(* The evidence.  Nothing a slot has left is later than the present tick, and there is a last *)
(* fire to judge it by, because every slot has fired before the first tick (doctor.py).       *)

\* The inductive invariant of the evidence.
SlotInv ==
    /\ watched \in Evidence!Names /\ hour \in FirstTick..LastTick /\ mishaps \in 0..SlotFaults
    /\ IsFiniteSet(made)
    /\ \A j \in made : j \in [slot: Evidence!Names, made: Int, status: {"pending", "done", "failed"},
                              rows: BOOLEAN, at: Int]
    /\ \A d \in DOMAIN bumped : bumped[d] \in Int /\ (bumped[d] = Evidence!None \/ bumped[d] <= hour)
    /\ DOMAIN ran = Evidence!Names /\ DOMAIN active = Evidence!Names /\ DOMAIN got = Evidence!Names /\ DOMAIN noted = Evidence!Names
    /\ \A s \in Evidence!Names : /\ ran[s] \in Int /\ active[s] \in Int /\ got[s] \in Int /\ noted[s] \in Int
                                 /\ ran[s] <= hour /\ active[s] <= hour /\ got[s] <= hour /\ noted[s] <= got[s]

\* It is more than the types.
LEMMA SlotMeans == ASSUME SlotInv PROVE Evidence!TypeOK
  <1>1. \A j \in made : j.slot \in Evidence!Names /\ j.status \in {"pending", "done", "failed"}
    BY DEF SlotInv
  <1> QED  BY <1>1 DEF SlotInv, Evidence!TypeOK

\* Before the first tick every slot has fired, and left what it leaves.
LEMMA SlotInit == ASSUME SlotAssumption, Evidence!Init PROVE SlotInv
  <1> DEFINE last == [s \in Evidence!Names |-> Max(Evidence!OwedFires(s))]
             done(s) == last[s] + Roster[s].lag
  <1>1. ASSUME NEW s \in Evidence!Names PROVE last[s] \in Int /\ done(s) \in Int /\ done(s) <= FirstTick /\ last[s] <= done(s)
    <2> DEFINE S == Evidence!OwedFires(s)
    <2>1. S = {t \in Evidence!Fires(s, 0, FirstTick) : Evidence!Owed(s, t)}
      BY DEF Evidence!Init, Evidence!OwedFires, Evidence!Seen
    <2>2. S \in SUBSET (0..FirstTick) /\ S # {}  BY <2>1 DEF Evidence!Fires, SlotAssumption
    <2>3. S \in SUBSET Int
      <3>1. \A e \in 0..FirstTick : e \in Int  OBVIOUS
      <3> QED  BY <2>2, <3>1, Zenon
    <2>4. IsFiniteSet(0..FirstTick)  BY FS_Interval DEF SlotAssumption
    <2>5. IsFiniteSet(S)  BY <2>2, <2>4, FS_Subset
    <2>6. last[s] = Max(S)  OBVIOUS
    <2>7. \A t \in S : t + Roster[s].lag <= FirstTick  BY <2>1 DEF SlotAssumption
    <2>8. Roster[s].lag \in Nat  BY DEF SlotAssumption
    <2> HIDE DEF S
    <2>9. Max(S) \in S  BY <2>2, <2>3, <2>5, MaxIsGreatest
    <2>10. Max(S) \in Int  BY <2>3, <2>9
    <2> HIDE DEF last
    <2>11. last[s] \in Int /\ last[s] + Roster[s].lag <= FirstTick  BY <2>6, <2>7, <2>9, <2>10
    <2> QED  BY <2>8, <2>11 DEF SlotAssumption
  <1>2. PICK introduced \in BOOLEAN :
           /\ ran = last /\ active = [s \in Evidence!Names |-> done(s)]
           /\ got = active /\ noted = active
           /\ made = {[slot |-> s, made |-> done(s), status |-> "done", rows |-> TRUE,
                       at |-> done(s)] : s \in Evidence!Names}
           /\ bumped = [d \in Evidence!Tables \cup {Evidence!OwnRow(s) : s \in Evidence!Names} |->
                 IF d \in Evidence!Tables THEN Max({done(s) : s \in {r \in Evidence!Names : Evidence!TableRow(r) = d}})
                 ELSE IF introduced
                      THEN done(CHOOSE s \in Evidence!Names : Evidence!OwnRow(s) = d) ELSE Evidence!None]
    BY DEF Evidence!Init, Evidence!Max, Max
  <1>3. watched \in Evidence!Names /\ hour = FirstTick /\ mishaps = 0  BY DEF Evidence!Init
  <1>4. ran = last /\ DOMAIN last = Evidence!Names  BY <1>2
  <1> HIDE DEF last
  <1>5. \A s \in Evidence!Names : active[s] = done(s) /\ got[s] = done(s) /\ noted[s] = done(s)
    BY <1>2
  <1>6. IsFiniteSet(made)
    <2> DEFINE f == [s \in Evidence!Names |-> [slot |-> s, made |-> done(s), status |-> "done", rows |-> TRUE,
                       at |-> done(s)]]
    <2>1. made = {f[s] : s \in Evidence!Names}  BY <1>2
    <2> HIDE DEF f
    <2>2. IsFiniteSet(Evidence!Names)  BY DEF SlotAssumption
    <2>3. IsFiniteSet({f[s] : s \in Evidence!Names})  BY <2>2, ImageIsFinite
    <2> QED  BY <2>1, <2>3
  <1>7. \A j \in made : j \in [slot: Evidence!Names, made: Int, status: {"pending", "done", "failed"},
                              rows: BOOLEAN, at: Int]
    <2> SUFFICES ASSUME NEW s \in Evidence!Names
                 PROVE  [slot |-> s, made |-> done(s), status |-> "done", rows |-> TRUE, at |-> done(s)]
                          \in [slot: Evidence!Names, made: Int, status: {"pending", "done", "failed"},
                              rows: BOOLEAN, at: Int]
      BY <1>2
    <2>1. done(s) \in Int  BY <1>1
    <2> HIDE DEF done
    <2> QED  BY <2>1
  <1>8. ASSUME NEW d \in DOMAIN bumped PROVE bumped[d] \in Int /\ (bumped[d] = Evidence!None \/ bumped[d] <= hour)
    <2>0. d \in Evidence!Tables \cup {Evidence!OwnRow(s) : s \in Evidence!Names}  BY <1>2
    <2>1. CASE d \in Evidence!Tables
      <3> DEFINE R == {r \in Evidence!Names : Evidence!TableRow(r) = d}
                 g == [s \in Evidence!Names |-> done(s)]
                 S == {g[s] : s \in R}
      <3>1. R # {} /\ R \in SUBSET Evidence!Names  BY <2>1 DEF Evidence!Tables
      <3>2. bumped[d] = Max(S)
        <4>1. bumped[d] = Max({done(s) : s \in {r \in Evidence!Names : Evidence!TableRow(r) = d}})
          BY <1>2, <2>0, <2>1
        <4>2. {done(s) : s \in {r \in Evidence!Names : Evidence!TableRow(r) = d}} = S  OBVIOUS
        <4> QED  BY <4>1, <4>2
      <3>3. \A s \in Evidence!Names : g[s] \in Int /\ g[s] <= FirstTick  BY <1>1
      <3> HIDE DEF g, R
      <3>4. IsFiniteSet(R)  BY <3>1, FS_Subset DEF SlotAssumption
      <3>5. IsFiniteSet(S)  BY <3>4, ImageIsFinite
      <3>6. S \in SUBSET Int /\ S # {} /\ \A e \in S : e <= FirstTick  BY <3>1, <3>3
      <3> HIDE DEF S
      <3>7. Max(S) \in S  BY <3>5, <3>6, MaxIsGreatest
      <3> QED  BY <3>2, <3>6, <3>7, <1>3
    <2>2. CASE d \notin Evidence!Tables
      <3>1. PICK s \in Evidence!Names : d = Evidence!OwnRow(s)  BY <2>0, <2>2
      <3> DEFINE t == CHOOSE r \in Evidence!Names : Evidence!OwnRow(r) = d
      <3>2. t \in Evidence!Names  BY <3>1
      <3>3. bumped[d] = IF introduced THEN done(t) ELSE Evidence!None  BY <1>2, <2>0, <2>2
      <3> HIDE DEF t, done
      <3>4. done(t) \in Int /\ done(t) <= FirstTick  BY <1>1, <3>2
      <3> QED  BY <1>3, <3>3, <3>4 DEF Evidence!None
    <2> QED  BY <2>1, <2>2
  <1>9. \A s \in Evidence!Names : /\ ran[s] \in Int /\ active[s] \in Int /\ got[s] \in Int /\ noted[s] \in Int
                                  /\ ran[s] <= hour /\ active[s] <= hour /\ got[s] <= hour /\ noted[s] <= got[s]
    <2> SUFFICES ASSUME NEW s \in Evidence!Names
        PROVE /\ ran[s] \in Int /\ active[s] \in Int /\ got[s] \in Int /\ noted[s] \in Int
              /\ ran[s] <= hour /\ active[s] <= hour /\ got[s] <= hour /\ noted[s] <= got[s]
      OBVIOUS
    <2>1. ran[s] = last[s] /\ active[s] = done(s) /\ got[s] = done(s) /\ noted[s] = done(s)
      BY <1>4, <1>5
    <2> HIDE DEF done
    <2>2. last[s] \in Int /\ done(s) \in Int /\ done(s) <= FirstTick /\ last[s] <= done(s)  BY <1>1
    <2> QED  BY <1>3, <2>1, <2>2 DEF SlotAssumption
  <1>10. DOMAIN ran = Evidence!Names /\ DOMAIN active = Evidence!Names /\ DOMAIN got = Evidence!Names /\ DOMAIN noted = Evidence!Names
    BY <1>2, <1>4
  <1>11. hour \in FirstTick..LastTick /\ mishaps \in 0..SlotFaults  BY <1>3 DEF SlotAssumption
  <1> QED  BY <1>3, <1>6, <1>7, <1>8, <1>9, <1>10, <1>11 DEF SlotInv

\* A step leaves nothing that is later than itself.
LEMMA SlotNext == ASSUME SlotAssumption, SlotInv, [Evidence!Next]_(Evidence!vars) PROVE SlotInv'
  <1> DEFINE Jobs == [slot: Evidence!Names, made: Int, status: {"pending", "done", "failed"},
                      rows: BOOLEAN, at: Int]
  <1>0. /\ hour \in Int /\ FirstTick \in Nat /\ LastTick \in Nat /\ SlotFaults \in Nat /\ mishaps \in Int /\ hour <= LastTick /\ FirstTick <= hour
        /\ IsFiniteSet(made) /\ \A j \in made : j \in Jobs
    BY DEF SlotAssumption, SlotInv
  <1>a. ASSUME NEW s \in Evidence!Names PROVE Evidence!Job(s) \in Jobs /\ [Evidence!Job(s) EXCEPT !.made = hour + 1] \in Jobs
    <2>1. Evidence!None \in Int  BY DEF Evidence!None
    <2>2. [slot |-> s, made |-> hour, status |-> "pending", rows |-> FALSE, at |-> Evidence!None] \in Jobs
      BY <1>0, <2>1
    <2> DEFINE a == Evidence!Job(s)
    <2>3. a \in Jobs  BY <2>2 DEF Evidence!Job
    <2> HIDE DEF a
    <2>4. [a EXCEPT !.made = hour + 1] \in Jobs  BY <1>0, <2>3
    <2> QED  BY <2>3, <2>4 DEF a
  <1>1. ASSUME NEW up \in BOOLEAN, Evidence!Tick(up) PROVE SlotInv'
    <2> DEFINE late == {j \in made : j.status = "pending"}
               S == {s \in Evidence!Due(hour + 1) : s = watched => up}
    <2>1. /\ hour < LastTick /\ hour' = hour + 1
          /\ mishaps' = mishaps + Cardinality(late) /\ mishaps + Cardinality(late) <= SlotFaults
          /\ made' = made \cup {[Evidence!Job(s) EXCEPT !.made = hour + 1] : s \in S}
          /\ ran' = [s \in Evidence!Names |-> IF s \in S THEN hour + 1 - Roster[s].lag ELSE ran[s]]
          /\ active' = [s \in Evidence!Names |-> IF s \in S THEN hour' ELSE active[s]]
          /\ UNCHANGED <<watched, bumped, got, noted>>
      BY <1>1, SameCardinality DEF Evidence!Tick, Evidence!Touched
    <2>2. S \in SUBSET Evidence!Names  BY DEF Evidence!Due, Evidence!Circle
    <2>3. IsFiniteSet(late) /\ Cardinality(late) \in Nat
      BY <1>0, FS_Subset, FS_CardinalityType
    <2> HIDE DEF S, late
    <2>4. IsFiniteSet(S)  BY <2>2, FS_Subset DEF SlotAssumption
    <2>5. IsFiniteSet({[Evidence!Job(s) EXCEPT !.made = hour + 1] : s \in S})
      <3> DEFINE f == [s \in S |-> [Evidence!Job(s) EXCEPT !.made = hour + 1]]
      <3>1. {[Evidence!Job(s) EXCEPT !.made = hour + 1] : s \in S} = {f[s] : s \in S}  OBVIOUS
      <3> HIDE DEF f
      <3>2. IsFiniteSet({f[s] : s \in S})  BY <2>4, ImageIsFinite
      <3> QED  BY <3>1, <3>2
    <2>6. IsFiniteSet(made')  BY <1>0, <2>1, <2>5, FS_Union
    <2>7. \A j \in made' : j \in Jobs
      <3> HIDE DEF Jobs
      <3> QED  BY <1>0, <1>a, <2>1, <2>2
    <2>8. hour' \in FirstTick..LastTick /\ mishaps' \in 0..SlotFaults
      BY <1>0, <2>1, <2>3 DEF SlotInv
    <2>9. \A d \in DOMAIN bumped' : bumped'[d] \in Int /\ (bumped'[d] = Evidence!None \/ bumped'[d] <= hour')
      BY <1>0, <2>1 DEF SlotInv
    <2>10. ASSUME NEW s \in Evidence!Names
           PROVE  /\ ran'[s] \in Int /\ active'[s] \in Int /\ got'[s] \in Int /\ noted'[s] \in Int
                  /\ ran'[s] <= hour' /\ active'[s] <= hour' /\ got'[s] <= hour' /\ noted'[s] <= got'[s]
      <3>1. Roster[s].lag \in Nat  BY DEF SlotAssumption
      <3>2. /\ ran[s] \in Int /\ active[s] \in Int /\ got[s] \in Int /\ noted[s] \in Int
            /\ ran[s] <= hour /\ active[s] <= hour /\ got[s] <= hour /\ noted[s] <= got[s]
        BY DEF SlotInv
      <3>3. ran'[s] = (IF s \in S THEN hour + 1 - Roster[s].lag ELSE ran[s])
            /\ active'[s] = (IF s \in S THEN hour' ELSE active[s])
        BY <2>1
      <3> QED  BY <1>0, <2>1, <3>1, <3>2, <3>3
    <2>11. DOMAIN ran' = Evidence!Names /\ DOMAIN active' = Evidence!Names /\ DOMAIN got' = Evidence!Names /\ DOMAIN noted' = Evidence!Names
           /\ watched' \in Evidence!Names
      BY <2>1 DEF SlotInv
    <2> QED  BY <2>6, <2>7, <2>8, <2>9, <2>10, <2>11 DEF SlotInv
  <1>2. ASSUME NEW j \in made, NEW brought \in BOOLEAN, NEW bumps \in 0..2, Evidence!Finish(j, brought, bumps)
        PROVE  SlotInv'
    <2> DEFINE trouble == IF brought /\ bumps = 2 THEN 0 ELSE 1
    <2>1. /\ mishaps + trouble <= SlotFaults /\ mishaps' = mishaps + trouble /\ hour' = hour
          /\ noted' = IF trouble = 0 THEN [noted EXCEPT ![j.slot] = hour] ELSE noted
          /\ bumped' = [d \in DOMAIN bumped |-> IF d \in Evidence!Bumped(j, brought, bumps) THEN hour ELSE bumped[d]]
          /\ got' = IF brought THEN [got EXCEPT ![j.slot] = hour] ELSE got
          /\ made' = (made \ {j}) \cup {[j EXCEPT !.status = "done", !.rows = brought, !.at = hour]}
          /\ active' = [s \in Evidence!Names |-> IF s \in {j.slot} THEN hour' ELSE active[s]]
          /\ UNCHANGED <<watched, ran>>
      BY <1>2 DEF Evidence!Finish, Evidence!Touched
    <2>2. j.slot \in Evidence!Names /\ [j EXCEPT !.status = "done", !.rows = brought, !.at = hour] \in Jobs
      BY <1>0
    <2>3. IsFiniteSet(made')  BY <1>0, <2>1, FS_AddElement, FS_RemoveElement
    <2>4. \A k \in made' : k \in Jobs
      <3> HIDE DEF Jobs
      <3> QED  BY <1>0, <2>1, <2>2
    <2>5. hour' \in FirstTick..LastTick /\ mishaps' \in 0..SlotFaults  BY <1>0, <2>1 DEF SlotInv
    <2>6. \A d \in DOMAIN bumped' : bumped'[d] \in Int /\ (bumped'[d] = Evidence!None \/ bumped'[d] <= hour')
      BY <1>0, <2>1 DEF SlotInv
    <2>7. ASSUME NEW s \in Evidence!Names
          PROVE  /\ ran'[s] \in Int /\ active'[s] \in Int /\ got'[s] \in Int /\ noted'[s] \in Int
                 /\ ran'[s] <= hour' /\ active'[s] <= hour' /\ got'[s] <= hour' /\ noted'[s] <= got'[s]
      <3>1. /\ ran[s] \in Int /\ active[s] \in Int /\ got[s] \in Int /\ noted[s] \in Int
            /\ ran[s] <= hour /\ active[s] <= hour /\ got[s] <= hour /\ noted[s] <= got[s]
            /\ DOMAIN got = Evidence!Names /\ DOMAIN noted = Evidence!Names
        BY DEF SlotInv
      <3>2. got'[s] = IF brought /\ s = j.slot THEN hour ELSE got[s]  BY <2>1, <3>1
      <3>3. noted'[s] = IF trouble = 0 /\ s = j.slot THEN hour ELSE noted[s]  BY <2>1, <3>1
      <3>4. active'[s] = IF s = j.slot THEN hour ELSE active[s]  BY <2>1
      <3> QED  BY <1>0, <2>1, <3>1, <3>2, <3>3, <3>4
    <2>8. DOMAIN ran' = Evidence!Names /\ DOMAIN active' = Evidence!Names /\ DOMAIN got' = Evidence!Names /\ DOMAIN noted' = Evidence!Names
          /\ watched' \in Evidence!Names
      BY <2>1 DEF SlotInv
    <2> QED  BY <2>3, <2>4, <2>5, <2>6, <2>7, <2>8 DEF SlotInv
  <1>3. ASSUME NEW j \in made, Evidence!Fail(j) PROVE SlotInv'
    <2>1. /\ mishaps < SlotFaults /\ mishaps' = mishaps + 1 /\ hour' = hour
          /\ made' = (made \ {j}) \cup {[j EXCEPT !.status = "failed", !.at = hour]}
          /\ active' = [s \in Evidence!Names |-> IF s \in {j.slot} THEN hour' ELSE active[s]]
          /\ UNCHANGED <<watched, bumped, ran, got, noted>>
      BY <1>3 DEF Evidence!Fail, Evidence!Touched
    <2>2. [j EXCEPT !.status = "failed", !.at = hour] \in Jobs  BY <1>0
    <2>3. IsFiniteSet(made')  BY <1>0, <2>1, FS_AddElement, FS_RemoveElement
    <2>4. \A k \in made' : k \in Jobs
      <3> HIDE DEF Jobs
      <3> QED  BY <1>0, <2>1, <2>2
    <2>5. mishaps' \in 0..SlotFaults  BY <1>0, <2>1 DEF SlotInv
    <2>6. DOMAIN active' = Evidence!Names /\ \A s \in Evidence!Names : active'[s] \in Int /\ active'[s] <= hour
      BY <1>0, <2>1 DEF SlotInv
    <2> QED  BY <2>1, <2>3, <2>4, <2>5, <2>6 DEF SlotInv
  <1>4. CASE Evidence!Trim
    <2>1. made' \subseteq made /\ UNCHANGED <<watched, hour, bumped, mishaps, ran, active, got, noted>>
      BY <1>4 DEF Evidence!Trim
    <2>2. IsFiniteSet(made')  BY <1>0, <2>1, FS_Subset
    <2> QED  BY <1>0, <2>1, <2>2 DEF SlotInv
  <1>5. ASSUME NEW s \in Evidence!Names, NEW readable \in BOOLEAN, Evidence!Heal(s, readable) PROVE SlotInv'
    <2>1. /\ made' = made \cup {Evidence!Job(s)} /\ hour' = hour
          /\ active' = [r \in Evidence!Names |-> IF r \in {s} THEN hour' ELSE active[r]]
          /\ UNCHANGED <<watched, bumped, mishaps, ran, got, noted>>
      BY <1>5 DEF Evidence!Heal, Evidence!Touched
    <2>2. IsFiniteSet(made')  BY <1>0, <2>1, FS_AddElement
    <2>3. \A k \in made' : k \in Jobs
      <3> HIDE DEF Jobs
      <3> QED  BY <1>0, <1>a, <2>1
    <2>4. DOMAIN active' = Evidence!Names /\ \A r \in Evidence!Names : active'[r] \in Int /\ active'[r] <= hour
      BY <1>0, <2>1 DEF SlotInv
    <2> QED  BY <2>1, <2>2, <2>3, <2>4 DEF SlotInv
  <1>6. CASE UNCHANGED Evidence!vars
    <2>1. made' = made /\ watched' = watched /\ hour' = hour /\ mishaps' = mishaps /\ bumped' = bumped
          /\ ran' = ran /\ active' = active /\ got' = got /\ noted' = noted
      BY <1>6 DEF Evidence!vars
    <2> QED  BY <2>1 DEF SlotInv
  <1> QED  BY <1>1, <1>2, <1>3, <1>4, <1>5, <1>6 DEF Evidence!Next

-----------------------------------------------------------------------------
(* What the evidence tells.  A slot that runs has a job or a row for its last fire, which   *)
(* is why no other slot of the table is blamed; one that does not run leaves nothing, and   *)
(* its row stands where its last rows were noted (enqueue.py, doctor.py).                   *)

\* A fire of a slot on a day it is owed.
Fire(s, t) == t \in Nat /\ t % TicksADay = Roster[s].cron /\ Evidence!Owed(s, t)

\* In a range of ticks.
LEMMA FireIs ==
    ASSUME NEW s \in Evidence!Names, NEW a \in Nat, NEW b \in Int, NEW t
    PROVE  t \in Evidence!Fires(s, a, b) /\ Evidence!Owed(s, t) <=> Fire(s, t) /\ a <= t /\ t <= b
  BY DEF Evidence!Fires, Fire

\* Up to the present tick.
LEMMA OwedIs ==
    ASSUME hour \in Nat, NEW s \in Evidence!Names, NEW t
    PROVE  t \in Evidence!OwedFires(s) <=> Fire(s, t) /\ t <= hour
  BY DEF Evidence!Fires, Fire, Evidence!OwedFires, Evidence!Seen

\* The job that a slot's last fire before the first tick has left.
Relic(s) == [slot |-> s, made |-> LastFire(s) + Roster[s].lag, status |-> "done", rows |-> TRUE,
             at |-> LastFire(s) + Roster[s].lag]

\* A job is made no later than its slot was active, ends no earlier, and its rows are no news.
JobsInTime ==
    \A j \in made : /\ j.made <= active[j.slot]
                    /\ j.status # "pending" => j.made <= j.at
                    /\ j.status = "done" /\ j.rows => j.at <= got[j.slot]

\* The rows stand where the slot's last rows were noted, or it has none yet and its relic is there
\* or long gone.
RowTells(s) ==
    /\ Evidence!TableRow(s) \in DOMAIN bumped /\ Evidence!OwnRow(s) \in DOMAIN bumped
    /\ noted[s] <= bumped[Evidence!TableRow(s)] /\ got[s] <= active[s]
    /\ Roster[s].named =>
         /\ bumped[Evidence!OwnRow(s)] \in {Evidence!None, noted[s]}
         /\ bumped[Evidence!OwnRow(s)] = Evidence!None =>
              /\ noted[s] = LastFire(s)
              /\ Relic(s) \in made \/ hour > LastFire(s) + JobsKept

\* The last fire that was run for has its job in the table.
HasJob(s) == \E j \in made : j.slot = s /\ j.made = ran[s] + Roster[s].lag
\* That job while it is to do.
Waits(s) == \E j \in made : j.slot = s /\ j.made = ran[s] + Roster[s].lag /\ j.status = "pending"
\* That fire has its job until the trim takes it; and but for the watched slot it is the last one
\* whose turn has come, and to do or noted.
RunTells(s) ==
    /\ Fire(s, ran[s]) /\ ran[s] + Roster[s].lag <= hour
    /\ HasJob(s) \/ hour > ran[s] + Roster[s].lag + JobsKept
    /\ s # watched =>
         /\ \A g \in Nat : Fire(s, g) /\ g + Roster[s].lag <= hour => g <= ran[s]
         /\ Waits(s) \/ noted[s] >= ran[s]

\* The inductive invariant of what the evidence tells.
WatchInv ==
    /\ SlotInv /\ JobsInTime
    /\ \A s \in Evidence!Names : RowTells(s)
    /\ \A s \in Evidence!Circle : RunTells(s)

\* The last fire before the first tick.
LEMMA LastFireIs ==
    ASSUME SlotAssumption, NEW s \in Evidence!Names
    PROVE  /\ Fire(s, LastFire(s)) /\ LastFire(s) \in Nat /\ LastFire(s) + Roster[s].lag <= FirstTick
           /\ \A t : Fire(s, t) /\ t <= FirstTick => t <= LastFire(s)
  <1> DEFINE S == {t \in Evidence!Fires(s, 0, FirstTick) : Evidence!Owed(s, t)}
  <1>1. \A t : t \in S <=> Fire(s, t) /\ t <= FirstTick  BY DEF Evidence!Fires, Fire
  <1>2. S \in SUBSET (0..FirstTick) /\ S # {}  BY DEF Evidence!Fires, SlotAssumption
  <1>3. S \in SUBSET Int
    <2>1. \A e \in 0..FirstTick : e \in Int  OBVIOUS
    <2> QED  BY <1>2, <2>1, Zenon
  <1>4. IsFiniteSet(0..FirstTick)  BY FS_Interval DEF SlotAssumption
  <1>5. IsFiniteSet(S)  BY <1>2, <1>4, FS_Subset
  <1>6. \A t \in S : t + Roster[s].lag <= FirstTick  BY DEF SlotAssumption
  <1>7. LastFire(s) = Max(S)  BY DEF LastFire
  <1> HIDE DEF S
  <1>8. Max(S) \in S /\ \A e \in S : e <= Max(S)  BY <1>2, <1>3, <1>5, MaxIsGreatest
  <1>9. Max(S) \in 0..FirstTick  BY <1>2, <1>8
  <1> QED  BY <1>1, <1>6, <1>7, <1>8, <1>9 DEF Fire

\* Every slot has fired before the first tick, and its relic is there.
LEMMA WatchInit == ASSUME SlotAssumption, RosterAssumption, Evidence!Init PROVE WatchInv
  <1> DEFINE last == [s \in Evidence!Names |-> Max(Evidence!OwedFires(s))]
             done(s) == last[s] + Roster[s].lag
  <1>0. SlotInv  BY SlotInit
  <1>1. PICK introduced \in BOOLEAN :
           /\ ran = last /\ active = [s \in Evidence!Names |-> done(s)]
           /\ got = active /\ noted = active
           /\ made = {[slot |-> s, made |-> done(s), status |-> "done", rows |-> TRUE,
                       at |-> done(s)] : s \in Evidence!Names}
           /\ bumped = [d \in Evidence!Tables \cup {Evidence!OwnRow(s) : s \in Evidence!Names} |->
                 IF d \in Evidence!Tables THEN Max({done(s) : s \in {r \in Evidence!Names : Evidence!TableRow(r) = d}})
                 ELSE IF introduced
                      THEN done(CHOOSE s \in Evidence!Names : Evidence!OwnRow(s) = d) ELSE Evidence!None]
    BY DEF Evidence!Init, Evidence!Max, Max
  <1>2. hour = FirstTick /\ FirstTick \in Nat  BY DEF Evidence!Init, SlotAssumption
  <1>3. \A s \in Evidence!Names : last[s] = LastFire(s)
    BY <1>2 DEF LastFire, Evidence!OwedFires, Evidence!Seen
  <1> HIDE DEF last
  <1>4. \A s \in Evidence!Names : /\ done(s) = LastFire(s) + Roster[s].lag /\ done(s) \in Nat /\ done(s) <= hour
                                  /\ ran[s] = LastFire(s) /\ LastFire(s) \in Nat /\ Roster[s].lag \in Nat
    BY <1>1, <1>2, <1>3, LastFireIs DEF SlotAssumption
  <1>5. \A s \in Evidence!Names : active[s] = done(s) /\ got[s] = done(s) /\ noted[s] = done(s)
    BY <1>1
  <1> HIDE DEF done
  <1>6. \A s \in Evidence!Names : Relic(s) \in made  BY <1>1, <1>4 DEF Relic
  <1>7. \A j \in made : \E s \in Evidence!Names : j = Relic(s)  BY <1>1, <1>4 DEF Relic
  <1>8. JobsInTime
    <2> SUFFICES ASSUME NEW s \in Evidence!Names
        PROVE  LET j == Relic(s) IN /\ j.made <= active[j.slot]
                                    /\ j.status # "pending" => j.made <= j.at
                                    /\ j.status = "done" /\ j.rows => j.at <= got[j.slot]
      BY <1>7 DEF JobsInTime
    <2> QED  BY <1>4, <1>5 DEF Relic
  <1>9. ASSUME NEW s \in Evidence!Names PROVE RowTells(s)
    <2>1. Evidence!TableRow(s) \in Evidence!Tables /\ Evidence!OwnRow(s) \notin Evidence!Tables
      BY DEF Evidence!Tables, Evidence!TableRow, Evidence!OwnRow
    <2>2. Evidence!TableRow(s) \in DOMAIN bumped /\ Evidence!OwnRow(s) \in DOMAIN bumped
      BY <1>1, <2>1
    <2>3. bumped[Evidence!OwnRow(s)] \in {Evidence!None, noted[s]}
      <3>1. \A r \in Evidence!Names : Evidence!OwnRow(r) = Evidence!OwnRow(s) => r = s
        BY DEF Evidence!OwnRow
      <3>2. (CHOOSE r \in Evidence!Names : Evidence!OwnRow(r) = Evidence!OwnRow(s)) = s  BY <3>1
      <3>3. bumped[Evidence!OwnRow(s)] = IF introduced
              THEN done(CHOOSE r \in Evidence!Names : Evidence!OwnRow(r) = Evidence!OwnRow(s)) ELSE Evidence!None
        BY <1>1, <2>1, <2>2
      <3> QED  BY <1>5, <3>2, <3>3
    <2>4. noted[s] <= bumped[Evidence!TableRow(s)]
      <3> DEFINE d == Evidence!TableRow(s)
                 R == {r \in Evidence!Names : Evidence!TableRow(r) = d}
                 g == [r \in Evidence!Names |-> done(r)]
                 S == {g[r] : r \in R}
      <3>1. R # {} /\ R \in SUBSET Evidence!Names /\ s \in R  OBVIOUS
      <3>2. bumped[d] = Max(S)
        <4>1. bumped[d] = Max({done(r) : r \in {q \in Evidence!Names : Evidence!TableRow(q) = d}})
          BY <1>1, <2>1, <2>2
        <4>2. {done(r) : r \in {q \in Evidence!Names : Evidence!TableRow(q) = d}} = S  OBVIOUS
        <4> QED  BY <4>1, <4>2
      <3>3. \A r \in Evidence!Names : g[r] \in Int /\ g[r] = done(r)  BY <1>4
      <3> HIDE DEF g, R
      <3>4. IsFiniteSet(R)  BY <3>1, FS_Subset DEF SlotAssumption
      <3>5. IsFiniteSet(S)  BY <3>4, ImageIsFinite
      <3>6. S \in SUBSET Int /\ S # {} /\ done(s) \in S  BY <3>1, <3>3
      <3> HIDE DEF S
      <3>7. done(s) <= Max(S)  BY <3>5, <3>6, MaxIsGreatest
      <3> QED  BY <1>5, <3>2, <3>7
    <2>5. Roster[s].named => noted[s] = LastFire(s)
      BY <1>4, <1>5 DEF RosterAssumption, SlotAssumption
    <2>6. got[s] <= active[s]  BY <1>4, <1>5
    <2> QED  BY <1>6, <2>2, <2>3, <2>4, <2>5, <2>6 DEF RowTells
  <1>10. ASSUME NEW s \in Evidence!Circle PROVE RunTells(s)
    <2>0. s \in Evidence!Names  BY DEF Evidence!Circle
    <2>1. Fire(s, ran[s]) /\ ran[s] + Roster[s].lag <= hour  BY <1>2, <1>4, <2>0, LastFireIs
    <2>2. HasJob(s)  BY <1>4, <1>6, <2>0 DEF HasJob, Relic
    <2>3. \A g \in Nat : Fire(s, g) /\ g + Roster[s].lag <= hour => g <= ran[s]
      <3>1. \A g \in Nat : g + Roster[s].lag <= hour => g <= FirstTick  BY <1>2, <1>4, <2>0
      <3> QED  BY <3>1, <1>4, <2>0, LastFireIs
    <2>4. noted[s] >= ran[s]  BY <1>4, <1>5, <2>0
    <2> QED  BY <2>1, <2>2, <2>3, <2>4 DEF RunTells
  <1> QED  BY <1>0, <1>8, <1>9, <1>10 DEF WatchInv

\* What the steps have in common: rows are added with a start of now, time does not go back.
LEMMA WatchKept ==
    ASSUME SlotAssumption, RosterAssumption, WatchInv, SlotInv', UNCHANGED <<watched, hour, bumped, ran, got, noted>>,
           \A j \in made : j \in made' \/ (j.status # "pending" /\ j.at < hour - JobsKept),
           \A j \in made' : j \in made \/ (j.made = hour /\ j.status = "pending" /\ active'[j.slot] = hour),
           \A s \in Evidence!Names : active[s] <= active'[s]
    PROVE  WatchInv'
  <1>0. /\ hour \in Nat /\ hour' \in Nat /\ hour <= hour' /\ JobsKept \in Nat
        /\ \A j \in made' : j.slot \in Evidence!Names /\ j.made \in Int /\ j.at \in Int
        /\ \A s \in Evidence!Names : active[s] \in Int /\ active'[s] \in Int /\ LastFire(s) \in Nat /\ Roster[s].lag \in Nat
    BY LastFireIs DEF SlotInv, WatchInv, SlotAssumption, RosterAssumption
  <1>1. JobsInTime'
    <2> SUFFICES ASSUME NEW j \in made'
        PROVE  /\ j.made <= active'[j.slot]
               /\ j.status # "pending" => j.made <= j.at
               /\ j.status = "done" /\ j.rows => j.at <= got'[j.slot]
      BY DEF JobsInTime
    <2>1. CASE j \in made  BY <1>0, <2>1 DEF JobsInTime, WatchInv
    <2>2. CASE j \notin made  BY <2>2, <1>0
    <2> QED  BY <2>1, <2>2
  <1>2. ASSUME NEW s \in Evidence!Names PROVE RowTells(s)'
    <2>1. RowTells(s)  BY DEF WatchInv
    <2>2. Relic(s)' = Relic(s) /\ Relic(s).at = LastFire(s) + Roster[s].lag  BY DEF Relic
    <2>3. Roster[s].named => Roster[s].lag = 0  BY <1>0 DEF RosterAssumption, SlotAssumption
    <2>4. Roster[s].named /\ Relic(s) \in made => Relic(s) \in made' \/ hour' > LastFire(s) + JobsKept
      BY <1>0, <2>2, <2>3
    <2>5. got'[s] <= active'[s]  BY <1>0, <2>1 DEF RowTells, SlotInv, WatchInv
    <2> QED  BY <1>0, <2>1, <2>2, <2>4, <2>5 DEF RowTells, Evidence!TableRow, Evidence!OwnRow
  <1>3. ASSUME NEW s \in Evidence!Circle PROVE RunTells(s)'
    <2>0. s \in Evidence!Names  BY DEF Evidence!Circle
    <2>1. RunTells(s)  BY DEF WatchInv
    <2>2. ran[s] \in Int /\ Roster[s].lag \in Nat  BY <1>0, <2>0, <2>1 DEF RunTells, Fire
    <2>3. HasJob(s)' \/ hour' > ran[s] + Roster[s].lag + JobsKept
      <3>1. CASE HasJob(s)
        <4>1. PICK j \in made : j.slot = s /\ j.made = ran[s] + Roster[s].lag  BY <3>1 DEF HasJob
        <4>2. CASE j \in made'  BY <4>1, <4>2 DEF HasJob
        <4>3. CASE j \notin made'
          <5>1. j.status # "pending" /\ j.at < hour - JobsKept  BY <4>3
          <5>2. j.made <= j.at  BY <5>1 DEF JobsInTime, WatchInv
          <5>3. j.made \in Int /\ j.at \in Int  BY DEF SlotInv, WatchInv
          <5> QED  BY <1>0, <2>2, <4>1, <5>1, <5>2, <5>3
        <4> QED  BY <4>2, <4>3
      <3>2. CASE hour > ran[s] + Roster[s].lag + JobsKept  BY <3>2, <1>0, <2>2
      <3> QED  BY <3>1, <3>2, <2>1 DEF RunTells
    <2>4. Fire(s, ran[s])' = Fire(s, ran[s])  BY DEF Fire, Evidence!Owed
    <2>5. \A g : Fire(s, g)' = Fire(s, g)  BY DEF Fire, Evidence!Owed
    <2>6. s # watched' =>
               /\ \A g \in Nat : Fire(s, g)' /\ g + Roster[s].lag <= hour' => g <= ran'[s]
               /\ Waits(s)' \/ noted'[s] >= ran'[s]
      <3>1. Waits(s) => Waits(s)'
        <4>1. ASSUME NEW j \in made, j.status = "pending" PROVE j \in made'  BY <4>1
        <4> QED  BY <4>1 DEF Waits
      <3> QED  BY <2>1, <2>5, <3>1 DEF RunTells
    <2>7. ran'[s] + Roster[s].lag <= hour'  BY <1>0, <2>1, <2>2 DEF RunTells
    <2> QED  BY <2>1, <2>3, <2>4, <2>5, <2>6, <2>7 DEF RunTells
  <1>4. Evidence!Circle' = Evidence!Circle  BY DEF Evidence!Circle, Evidence!TableRow
  <1> QED  BY <1>1, <1>2, <1>3, <1>4 DEF WatchInv

\* Time passes: the slots whose turn it is make jobs, and no other slot is behind.
LEMMA WatchTick ==
    ASSUME SlotAssumption, RosterAssumption, WatchInv, NEW up \in BOOLEAN, Evidence!Tick(up), SlotInv'
    PROVE  WatchInv'
  <1> DEFINE late == {j \in made : j.status = "pending"}
             S == {s \in Evidence!Due(hour + 1) : s = watched => up}
  <1>1. /\ hour' = hour + 1 /\ \A j \in late : j.slot = watched
        /\ made' = made \cup {[Evidence!Job(s) EXCEPT !.made = hour + 1] : s \in S}
        /\ ran' = [s \in Evidence!Names |-> IF s \in S THEN hour + 1 - Roster[s].lag ELSE ran[s]]
        /\ active' = [s \in Evidence!Names |-> IF s \in S THEN hour' ELSE active[s]]
        /\ UNCHANGED <<watched, bumped, got, noted>>
    BY DEF Evidence!Tick, Evidence!Touched
  <1>2. \A s : s \in S <=> /\ s \in Evidence!Circle /\ (s = watched => up)
                           /\ \E f \in Nat : Fire(s, f) /\ f + Roster[s].lag = hour + 1
    <2>1. \A s \in Evidence!Circle, f \in Nat :
             f \in Evidence!Fires(s, 0, hour + 1) /\ f + Roster[s].lag = hour + 1 /\ Evidence!Owed(s, f)
               <=> Fire(s, f) /\ f + Roster[s].lag = hour + 1
      <3> SUFFICES ASSUME NEW s \in Evidence!Circle, NEW f \in Nat, f + Roster[s].lag = hour + 1
                   PROVE  f \in Evidence!Fires(s, 0, hour + 1) /\ Evidence!Owed(s, f) <=> Fire(s, f)
        OBVIOUS
      <3>1. s \in Evidence!Names /\ Roster[s].lag \in Nat /\ hour \in Nat
        BY DEF Evidence!Circle, SlotAssumption, SlotInv, WatchInv
      <3>2. f <= hour + 1  BY <3>1
      <3> QED  BY <3>1, <3>2 DEF Evidence!Fires, Fire
    <2>2. \A s, f : f \in Evidence!Fires(s, 0, hour + 1) => f \in Nat
      BY DEF Evidence!Fires, SlotInv, WatchInv, SlotAssumption
    <2> QED  BY <2>1, <2>2 DEF Evidence!Due
  <1>a. late = {j \in made : j.status = "pending"}  OBVIOUS
  <1> HIDE DEF S, late
  <1>3. Evidence!Circle' = Evidence!Circle /\ Evidence!Circle \subseteq Evidence!Names
    BY <1>1 DEF Evidence!Circle, Evidence!TableRow
  <1>4. S \subseteq Evidence!Circle  BY <1>2
  <1>5. \A s \in S : LET j == [Evidence!Job(s) EXCEPT !.made = hour + 1]
                     IN  j \in made' /\ j.slot = s /\ j.made = hour + 1 /\ j.status = "pending"
    BY <1>1 DEF Evidence!Job
  <1>6. \A j \in made' : j \in made \/ (j.slot \in S /\ j.made = hour + 1 /\ j.status = "pending")
    <2> DEFINE n(s) == [Evidence!Job(s) EXCEPT !.made = hour + 1]
    <2>1. \A s \in S : n(s).slot = s /\ n(s).made = hour + 1 /\ n(s).status = "pending"  BY <1>5
    <2>2. \A j \in made' : j \in made \/ \E s \in S : j = n(s)  BY <1>1
    <2> HIDE DEF n
    <2> QED  BY <2>1, <2>2
  <1>7. /\ hour \in Nat /\ JobsKept \in Nat
        /\ \A j \in made : j.slot \in Evidence!Names /\ j.made \in Int /\ j.at \in Int
        /\ \A s \in Evidence!Names : /\ active[s] \in Int /\ active[s] <= hour /\ LastFire(s) \in Nat /\ Roster[s].lag \in Nat
                                     /\ ran[s] \in Int
    BY LastFireIs DEF SlotInv, WatchInv, SlotAssumption, RosterAssumption
  <1>8. JobsInTime'
    <2> SUFFICES ASSUME NEW j \in made'
        PROVE  /\ j.made <= active'[j.slot]
               /\ j.status # "pending" => j.made <= j.at
               /\ j.status = "done" /\ j.rows => j.at <= got'[j.slot]
      BY DEF JobsInTime
    <2>1. CASE j \in made
      <3>1. /\ j.made <= active[j.slot]
            /\ j.status # "pending" => j.made <= j.at
            /\ j.status = "done" /\ j.rows => j.at <= got[j.slot]
        BY <2>1 DEF JobsInTime, WatchInv
      <3>2. active'[j.slot] = IF j.slot \in S THEN hour + 1 ELSE active[j.slot]  BY <1>1, <1>7, <2>1
      <3> QED  BY <1>1, <1>7, <2>1, <3>1, <3>2
    <2>2. CASE j \notin made
      <3>1. j.slot \in S /\ j.made = hour + 1 /\ j.status = "pending"  BY <1>6, <2>2
      <3>2. active'[j.slot] = hour + 1  BY <1>1, <1>3, <1>4, <3>1
      <3> QED  BY <1>7, <3>1, <3>2
    <2> QED  BY <2>1, <2>2
  <1>9. ASSUME NEW s \in Evidence!Names PROVE RowTells(s)'
    <2>1. RowTells(s)  BY DEF WatchInv
    <2>2. Relic(s)' = Relic(s) /\ made \subseteq made'  BY <1>1 DEF Relic
    <2>3. got'[s] <= active'[s]
      <3>1. got[s] \in Int /\ got[s] <= hour /\ got[s] <= active[s]
        BY <2>1 DEF RowTells, SlotInv, WatchInv
      <3>2. active'[s] = IF s \in S THEN hour + 1 ELSE active[s]  BY <1>1
      <3> QED  BY <1>1, <1>7, <3>1, <3>2
    <2> QED  BY <1>1, <1>7, <2>1, <2>2, <2>3 DEF RowTells, Evidence!TableRow, Evidence!OwnRow
  <1>10. ASSUME NEW s \in Evidence!Circle PROVE RunTells(s)'
    <2>0. s \in Evidence!Names  BY DEF Evidence!Circle
    <2>1. RunTells(s)  BY DEF WatchInv
    <2>2. \A g : Fire(s, g)' = Fire(s, g)  BY DEF Fire, Evidence!Owed
    <2>3. \A g \in Nat : Fire(s, g)' /\ g + Roster[s].lag <= hour'
                         => Fire(s, g) /\ (g + Roster[s].lag <= hour \/ g + Roster[s].lag = hour + 1)
      <3>1. hour' = hour + 1 /\ hour \in Nat /\ Roster[s].lag \in Nat  BY <1>1, <1>7, <2>0
      <3>2. \A g \in Nat : g + Roster[s].lag <= hour + 1 => g + Roster[s].lag <= hour \/ g + Roster[s].lag = hour + 1
        BY <3>1
      <3> QED  BY <2>2, <3>1, <3>2
    <2>4. CASE s \in S
      <3>1. PICK f \in Nat : Fire(s, f) /\ f + Roster[s].lag = hour + 1  BY <1>2, <2>4
      <3>2. ran'[s] = hour + 1 - Roster[s].lag  BY <1>1, <2>0, <2>4
      <3>3. ran'[s] = f  BY <1>7, <2>0, <3>1, <3>2
      <3>4. Fire(s, ran[s])'  BY <2>2, <3>1, <3>3 DEF Fire
      <3>5. Waits(s)' /\ HasJob(s)'
        <4>1. PICK j \in made' : j.slot = s /\ j.made = hour + 1 /\ j.status = "pending"  BY <1>5, <2>4
        <4>2. j.made = ran'[s] + Roster[s].lag  BY <3>1, <3>3, <4>1
        <4> QED  BY <4>1, <4>2 DEF Waits, HasJob
      <3>6. \A g \in Nat : Fire(s, g)' /\ g + Roster[s].lag <= hour' => g <= ran'[s]
        BY <1>1, <1>7, <2>0, <3>1, <3>3
      <3>7. ran'[s] + Roster[s].lag <= hour'  BY <1>1, <1>7, <3>1, <3>3
      <3> QED  BY <3>4, <3>5, <3>6, <3>7 DEF RunTells
    <2>5. CASE s \notin S
      <3>1. ran'[s] = ran[s]  BY <1>1, <2>0, <2>5
      <3>2. Fire(s, ran[s])'  BY <2>1, <3>1 DEF Fire, RunTells, Evidence!Owed
      <3>3. HasJob(s)' \/ hour' > ran'[s] + Roster[s].lag + JobsKept
        BY <1>1, <1>7, <2>0, <2>1, <3>1 DEF HasJob, RunTells
      <3>4. ASSUME s # watched'
            PROVE  /\ \A g \in Nat : Fire(s, g)' /\ g + Roster[s].lag <= hour' => g <= ran'[s]
                   /\ noted'[s] >= ran'[s]
        <4>1. s # watched  BY <1>1, <3>4
        <4>2. ~\E g \in Nat : Fire(s, g) /\ g + Roster[s].lag = hour + 1  BY <1>2, <2>5, <4>1
        <4>3. ~Waits(s)  BY <1>1, <1>a, <4>1 DEF Waits
        <4> QED  BY <1>1, <2>1, <2>3, <3>1, <4>1, <4>2, <4>3 DEF RunTells
      <3>5. ran'[s] + Roster[s].lag <= hour'  BY <1>1, <1>7, <2>0, <2>1, <3>1 DEF RunTells
      <3> QED  BY <3>2, <3>3, <3>4, <3>5 DEF RunTells
    <2> QED  BY <2>4, <2>5
  <1> QED  BY <1>3, <1>8, <1>9, <1>10 DEF WatchInv

\* A job ends: the rows it brought are noted, in the table's row and in the slot's own.
LEMMA WatchFinish ==
    ASSUME SlotAssumption, RosterAssumption, WatchInv, NEW j \in made, NEW brought \in BOOLEAN, NEW bumps \in 0..2,
           Evidence!Finish(j, brought, bumps), SlotInv'
    PROVE  WatchInv'
  <1> DEFINE trouble == IF brought /\ bumps = 2 THEN 0 ELSE 1
             k == [j EXCEPT !.status = "done", !.rows = brought, !.at = hour]
  <1>1. /\ j.status = "pending" /\ (trouble = 1 => j.slot = watched) /\ hour' = hour
        /\ noted' = IF trouble = 0 THEN [noted EXCEPT ![j.slot] = hour] ELSE noted
        /\ bumped' = [d \in DOMAIN bumped |-> IF d \in Evidence!Bumped(j, brought, bumps) THEN hour ELSE bumped[d]]
        /\ got' = IF brought THEN [got EXCEPT ![j.slot] = hour] ELSE got
        /\ made' = (made \ {j}) \cup {k}
        /\ active' = [s \in Evidence!Names |-> IF s \in {j.slot} THEN hour' ELSE active[s]]
        /\ UNCHANGED <<watched, ran>>
    BY DEF Evidence!Finish, Evidence!Touched
  <1>2. /\ hour \in Nat /\ JobsKept \in Nat /\ "none" \notin Evidence!Names
        /\ \A i \in made : /\ i.slot \in Evidence!Names /\ i.made \in Int /\ i.at \in Int
                           /\ i \in [slot: Evidence!Names, made: Int, status: {"pending", "done", "failed"},
                                     rows: BOOLEAN, at: Int]
        /\ DOMAIN got = Evidence!Names /\ DOMAIN noted = Evidence!Names
        /\ \A s \in Evidence!Names : /\ active[s] \in Int /\ active[s] <= hour /\ LastFire(s) \in Nat /\ Roster[s].lag \in Nat
                                     /\ ran[s] \in Int /\ got[s] \in Int /\ got[s] <= hour /\ noted[s] \in Int /\ noted[s] <= hour
    BY LastFireIs DEF SlotInv, WatchInv, SlotAssumption, RosterAssumption
  <1>3. k.slot = j.slot /\ k.made = j.made /\ k.status = "done" /\ k.rows = brought /\ k.at = hour
    BY <1>2
  <1>4. \A s \in Evidence!Names : /\ active'[s] = IF s = j.slot THEN hour ELSE active[s]
                                  /\ got'[s] = IF brought /\ s = j.slot THEN hour ELSE got[s]
                                  /\ noted'[s] = IF trouble = 0 /\ s = j.slot THEN hour ELSE noted[s]
    BY <1>1, <1>2
  <1>5. trouble \in {0, 1} /\ (trouble = 0 <=> brought /\ bumps = 2)  OBVIOUS
  <1>6. j.slot \in Evidence!Names /\ j.made \in Int /\ j.made <= hour
    BY <1>2 DEF JobsInTime, WatchInv
  <1> HIDE DEF trouble, k
  <1>7. JobsInTime'
    <2> SUFFICES ASSUME NEW i \in made'
        PROVE  /\ i.made <= active'[i.slot]
               /\ i.status # "pending" => i.made <= i.at
               /\ i.status = "done" /\ i.rows => i.at <= got'[i.slot]
      BY DEF JobsInTime
    <2>1. CASE i = k  BY <2>1, <1>3, <1>4, <1>6, <1>2
    <2>2. CASE i \in made
      <3>1. /\ i.made <= active[i.slot]
            /\ i.status # "pending" => i.made <= i.at
            /\ i.status = "done" /\ i.rows => i.at <= got[i.slot]
        BY <2>2 DEF JobsInTime, WatchInv
      <3> QED  BY <2>2, <3>1, <1>2, <1>4
    <2> QED  BY <1>1, <2>1, <2>2
  <1>8. ASSUME NEW s \in Evidence!Names PROVE RowTells(s)'
    <2> DEFINE t == Evidence!TableRow(s)
               o == Evidence!OwnRow(s)
    <2>0. RowTells(s)  BY DEF WatchInv
    <2>1. t \in DOMAIN bumped /\ o \in DOMAIN bumped /\ noted[s] <= bumped[t] /\ bumped[t] \in Int
      BY <2>0 DEF RowTells, SlotInv, WatchInv
    <2>2. DOMAIN bumped' = DOMAIN bumped  BY <1>1
    <2>3. t \in Evidence!Bumped(j, brought, bumps) => bumped'[t] = hour  BY <1>1, <2>1
    <2>4. t \notin Evidence!Bumped(j, brought, bumps) => bumped'[t] = bumped[t]  BY <1>1, <2>1
    <2>5. noted'[s] <= bumped'[t]
      <3>1. CASE s = j.slot /\ trouble = 0
        <4>1. t \in Evidence!Bumped(j, brought, bumps)  BY <3>1, <2>1, <1>5 DEF Evidence!Bumped
        <4> QED  BY <3>1, <4>1, <2>3, <1>4, <1>2
      <3>2. CASE ~(s = j.slot /\ trouble = 0)  BY <3>2, <2>1, <2>3, <2>4, <1>4, <1>2
      <3> QED  BY <3>1, <3>2
    <2>6. Roster[s].named => (o \in Evidence!Bumped(j, brought, bumps) <=> s = j.slot /\ trouble = 0)
      <3>1. o # Evidence!TableRow(j.slot)  BY DEF Evidence!OwnRow, Evidence!TableRow
      <3>2. o = Evidence!OwnRow(Evidence!SlotOf(j)) <=> Evidence!SlotOf(j) = s  BY DEF Evidence!OwnRow
      <3>3. Roster[s].named => (Evidence!SlotOf(j) = s <=> s = j.slot)  BY <1>2 DEF Evidence!SlotOf
      <3> QED  BY <2>1, <3>1, <3>2, <3>3, <1>5 DEF Evidence!Bumped
    <2>7. /\ o \in Evidence!Bumped(j, brought, bumps) => bumped'[o] = hour
          /\ o \notin Evidence!Bumped(j, brought, bumps) => bumped'[o] = bumped[o]
      BY <1>1, <2>1
    <2>8. Relic(s) \in made => Relic(s) \in made'  BY <1>1 DEF Relic
    <2>9. Roster[s].named =>
         /\ bumped'[o] \in {Evidence!None, noted'[s]}
         /\ bumped'[o] = Evidence!None =>
              /\ noted'[s] = LastFire(s)
              /\ Relic(s) \in made' \/ hour > LastFire(s) + JobsKept
      <3>1. CASE s = j.slot /\ trouble = 0
        <4>1. Roster[s].named => bumped'[o] = hour  BY <3>1, <2>6, <2>7
        <4>2. hour # Evidence!None  BY <1>2 DEF Evidence!None
        <4> QED  BY <4>1, <4>2, <3>1, <1>4
      <3>2. CASE ~(s = j.slot /\ trouble = 0)
        <4>1. Roster[s].named => bumped'[o] = bumped[o]  BY <3>2, <2>6, <2>7
        <4>2. noted'[s] = noted[s]  BY <3>2, <1>4
        <4> QED  BY <4>1, <4>2, <2>0, <2>8 DEF RowTells
      <3> QED  BY <3>1, <3>2
    <2>10. Relic(s)' = Relic(s)  BY DEF Relic
    <2>11. Evidence!TableRow(s)' = t /\ Evidence!OwnRow(s)' = o
      BY DEF Evidence!OwnRow, Evidence!TableRow
    <2>12. got'[s] <= active'[s]  BY <1>2, <1>4, <2>0 DEF RowTells
    <2> HIDE DEF t, o
    <2> QED  BY <1>1, <2>1, <2>2, <2>5, <2>9, <2>10, <2>11, <2>12 DEF RowTells
  <1>9. ASSUME NEW s \in Evidence!Circle PROVE RunTells(s)'
    <2>0. s \in Evidence!Names  BY DEF Evidence!Circle
    <2>1. RunTells(s)  BY DEF WatchInv
    <2>2. \A g : Fire(s, g)' = Fire(s, g)  BY DEF Fire, Evidence!Owed
    <2>3. ran'[s] = ran[s] /\ hour' = hour /\ watched' = watched  BY <1>1
    <2>4. HasJob(s) => HasJob(s)'
      <3> SUFFICES ASSUME NEW i \in made, i.slot = s, i.made = ran[s] + Roster[s].lag PROVE HasJob(s)'
        BY DEF HasJob
      <3>1. \E x \in made' : x.slot = s /\ x.made = ran[s] + Roster[s].lag  BY <1>1, <1>3
      <3> QED  BY <3>1, <2>3 DEF HasJob
    <2>5. s # watched /\ Waits(s) => Waits(s)' \/ noted'[s] >= ran'[s]
      <3> SUFFICES ASSUME s # watched, NEW i \in made, i.slot = s, i.made = ran[s] + Roster[s].lag, i.status = "pending"
                   PROVE  Waits(s)' \/ noted'[s] >= ran'[s]
        BY DEF Waits
      <3>1. CASE i = j
        <4>1. trouble = 0 /\ noted'[s] = hour  BY <3>1, <1>1, <1>4, <1>5, <2>0
        <4> QED  BY <4>1, <2>1, <2>3, <1>2, <2>0 DEF RunTells
      <3>2. CASE i # j
        <4>1. i \in made'  BY <1>1, <3>2
        <4> QED  BY <4>1, <2>3 DEF Waits
      <3> QED  BY <3>1, <3>2
    <2>6. noted[s] >= ran[s] => noted'[s] >= ran'[s]  BY <1>2, <1>4, <2>0, <2>3
    <2>7. Fire(s, ran[s])'  BY <2>1, <2>2, <2>3 DEF RunTells, Fire, Evidence!Owed
    <2>8. \A g \in Nat : s # watched /\ Fire(s, g)' /\ g + Roster[s].lag <= hour' => g <= ran'[s]
      BY <2>1, <2>2, <2>3 DEF RunTells
    <2> QED  BY <2>1, <2>3, <2>4, <2>5, <2>6, <2>7, <2>8 DEF RunTells
  <1>10. Evidence!Circle' = Evidence!Circle  BY <1>1 DEF Evidence!Circle, Evidence!TableRow
  <1> QED  BY <1>7, <1>8, <1>9, <1>10 DEF WatchInv

\* A job of the watched slot fails: the rows stay as they were.
LEMMA WatchFail ==
    ASSUME SlotAssumption, RosterAssumption, WatchInv, NEW j \in made, Evidence!Fail(j), SlotInv'
    PROVE  WatchInv'
  <1> DEFINE k == [j EXCEPT !.status = "failed", !.at = hour]
  <1>1. /\ j.status = "pending" /\ j.slot = watched /\ hour' = hour
        /\ made' = (made \ {j}) \cup {k}
        /\ active' = [s \in Evidence!Names |-> IF s \in {j.slot} THEN hour' ELSE active[s]]
        /\ UNCHANGED <<watched, ran, bumped, got, noted>>
    BY DEF Evidence!Fail, Evidence!Touched
  <1>2. /\ hour \in Nat
        /\ \A i \in made : /\ i.slot \in Evidence!Names /\ i.made \in Int /\ i.at \in Int
                           /\ i \in [slot: Evidence!Names, made: Int, status: {"pending", "done", "failed"},
                                     rows: BOOLEAN, at: Int]
        /\ \A s \in Evidence!Names : active[s] \in Int /\ active[s] <= hour
    BY DEF SlotInv, WatchInv, SlotAssumption
  <1>3. k.slot = j.slot /\ k.made = j.made /\ k.status = "failed" /\ k.at = hour
    BY <1>2
  <1>4. \A s \in Evidence!Names : active'[s] = IF s = j.slot THEN hour ELSE active[s]
    BY <1>1
  <1>6. j.slot \in Evidence!Names /\ j.made \in Int /\ j.made <= hour
    BY <1>2 DEF JobsInTime, WatchInv
  <1> HIDE DEF k
  <1>7. JobsInTime'
    <2> SUFFICES ASSUME NEW i \in made'
        PROVE  /\ i.made <= active'[i.slot]
               /\ i.status # "pending" => i.made <= i.at
               /\ i.status = "done" /\ i.rows => i.at <= got'[i.slot]
      BY DEF JobsInTime
    <2>1. CASE i = k  BY <2>1, <1>3, <1>4, <1>6, <1>2
    <2>2. CASE i \in made
      <3>1. /\ i.made <= active[i.slot]
            /\ i.status # "pending" => i.made <= i.at
            /\ i.status = "done" /\ i.rows => i.at <= got[i.slot]
        BY <2>2 DEF JobsInTime, WatchInv
      <3> QED  BY <2>2, <3>1, <1>1, <1>2, <1>4
    <2> QED  BY <1>1, <2>1, <2>2
  <1>8. ASSUME NEW s \in Evidence!Names PROVE RowTells(s)'
    <2>0. RowTells(s)  BY DEF WatchInv
    <2>1. Relic(s) \in made => Relic(s) \in made'  BY <1>1 DEF Relic
    <2>2. Relic(s)' = Relic(s)  BY DEF Relic
    <2>3. got'[s] <= active'[s]  BY <1>1, <1>2, <1>4, <2>0 DEF RowTells, SlotInv, WatchInv
    <2> QED  BY <1>1, <2>0, <2>1, <2>2, <2>3 DEF RowTells, Evidence!OwnRow, Evidence!TableRow
  <1>9. ASSUME NEW s \in Evidence!Circle PROVE RunTells(s)'
    <2>1. RunTells(s)  BY DEF WatchInv
    <2>2. \A g : Fire(s, g)' = Fire(s, g)  BY DEF Fire, Evidence!Owed
    <2>4. HasJob(s) => HasJob(s)'
      <3> SUFFICES ASSUME NEW i \in made, i.slot = s, i.made = ran[s] + Roster[s].lag PROVE HasJob(s)'
        BY DEF HasJob
      <3>1. \E x \in made' : x.slot = s /\ x.made = ran[s] + Roster[s].lag  BY <1>1, <1>3
      <3> QED  BY <3>1, <1>1 DEF HasJob
    <2>5. s # watched /\ Waits(s) => Waits(s)'
      <3> SUFFICES ASSUME s # watched, NEW i \in made, i.slot = s, i.made = ran[s] + Roster[s].lag, i.status = "pending"
                   PROVE  Waits(s)'
        BY DEF Waits
      <3>1. i \in made'  BY <1>1
      <3> QED  BY <3>1, <1>1 DEF Waits
    <2>7. Fire(s, ran[s])'  BY <1>1, <2>1, <2>2 DEF RunTells, Fire, Evidence!Owed
    <2> QED  BY <1>1, <2>1, <2>2, <2>4, <2>5, <2>7 DEF RunTells
  <1>10. Evidence!Circle' = Evidence!Circle  BY <1>1 DEF Evidence!Circle, Evidence!TableRow
  <1> QED  BY <1>7, <1>8, <1>9, <1>10 DEF WatchInv

\* Every step of the slots, the jobs, the trim and the heal.
LEMMA WatchNext ==
    ASSUME SlotAssumption, RosterAssumption, WatchInv, [Evidence!Next]_(Evidence!vars)
    PROVE  WatchInv'
  <1>0. SlotInv'  BY SlotNext DEF WatchInv
  <1>1. ASSUME NEW up \in BOOLEAN, Evidence!Tick(up) PROVE WatchInv'  BY <1>0, <1>1, WatchTick
  <1>2. ASSUME NEW j \in made, NEW brought \in BOOLEAN, NEW bumps \in 0..2, Evidence!Finish(j, brought, bumps)
        PROVE  WatchInv'
    BY <1>0, <1>2, WatchFinish
  <1>3. ASSUME NEW j \in made, Evidence!Fail(j) PROVE WatchInv'  BY <1>0, <1>3, WatchFail
  <1>a. /\ hour \in Nat /\ JobsKept \in Nat /\ \A j \in made : j.at \in Int
        /\ \A s \in Evidence!Names : active[s] \in Int /\ active[s] <= hour
    BY DEF SlotInv, WatchInv, SlotAssumption, RosterAssumption
  <1>4. CASE Evidence!Trim
    <2>1. /\ made' = made \ {j \in made : j.status # "pending" /\ j.at < hour - JobsKept}
          /\ UNCHANGED <<watched, hour, bumped, mishaps, ran, active, got, noted>>
      BY <1>4 DEF Evidence!Trim
    <2> QED  BY <1>0, <1>a, <2>1, WatchKept
  <1>5. ASSUME NEW s \in Evidence!Names, NEW readable \in BOOLEAN, Evidence!Heal(s, readable) PROVE WatchInv'
    <2>1. /\ made' = made \cup {Evidence!Job(s)} /\ hour' = hour
          /\ active' = [r \in Evidence!Names |-> IF r \in {s} THEN hour' ELSE active[r]]
          /\ UNCHANGED <<watched, bumped, ran, got, noted>>
      BY <1>5 DEF Evidence!Heal, Evidence!Touched
    <2>2. Evidence!Job(s).made = hour /\ Evidence!Job(s).status = "pending" /\ Evidence!Job(s).slot = s
      BY DEF Evidence!Job
    <2>3. \A r \in Evidence!Names : active[r] <= active'[r]  BY <1>a, <2>1
    <2>4. active'[s] = hour  BY <2>1
    <2>5. \A j \in made' : j \in made \/ (j.made = hour /\ j.status = "pending" /\ active'[j.slot] = hour)
      BY <2>1, <2>2, <2>4
    <2>6. \A j \in made : j \in made'  BY <2>1
    <2> QED  BY <1>0, <2>1, <2>3, <2>5, <2>6, WatchKept
  <1>6. CASE UNCHANGED Evidence!vars
    <2>1. made' = made /\ watched' = watched /\ hour' = hour /\ bumped' = bumped
          /\ ran' = ran /\ active' = active /\ got' = got /\ noted' = noted
      BY <1>6 DEF Evidence!vars
    <2> QED  BY <1>0, <1>a, <2>1, WatchKept
  <1> QED  BY <1>1, <1>2, <1>3, <1>4, <1>5, <1>6 DEF Evidence!Next

-----------------------------------------------------------------------------
(* The dashboard says no more and no less than the evidence.                                *)

\* The types that the readers need.
LEMMA WatchTypes ==
    ASSUME SlotAssumption, RosterAssumption, WatchInv
    PROVE  /\ hour \in Nat /\ FirstTick <= hour /\ JobsKept \in Nat /\ TicksADay \in Nat \ {0} /\ FirstTick \in Nat
           /\ watched \in Evidence!Circle /\ Evidence!Circle \subseteq Evidence!Names
           /\ \A s \in Evidence!Names : /\ Roster[s].lag \in Nat /\ Roster[s].grace \in Nat /\ Roster[s].lag <= Roster[s].grace
                                        /\ Roster[s].named \in BOOLEAN /\ Roster[s].gated \in BOOLEAN
                                        /\ Roster[s].named => Roster[s].grace = 0 /\ Roster[s].lag = 0
           /\ \A s \in Evidence!Names : /\ active[s] \in Int /\ got[s] \in Int /\ noted[s] \in Int
                                        /\ got[s] <= hour /\ noted[s] <= got[s] /\ got[s] <= active[s]
           /\ \A j \in made : j.slot \in Evidence!Names /\ j.made \in Int /\ j.at \in Int
           /\ \A d \in DOMAIN bumped : bumped[d] \in Int
  <1>1. SlotInv /\ \A s \in Evidence!Names : RowTells(s)  BY DEF WatchInv
  <1>2. \A s \in Evidence!Names : got[s] <= active[s]  BY <1>1 DEF RowTells
  <1>3. /\ hour \in Nat /\ FirstTick <= hour /\ JobsKept \in Nat /\ TicksADay \in Nat \ {0} /\ FirstTick \in Nat
    BY <1>1 DEF SlotInv, SlotAssumption, RosterAssumption
  <1>4. watched \in Evidence!Circle /\ Evidence!Circle \subseteq Evidence!Names
    BY <1>1 DEF Evidence!Circle, SlotInv
  <1>5. \A s \in Evidence!Names : /\ Roster[s].lag \in Nat /\ Roster[s].grace \in Nat /\ Roster[s].lag <= Roster[s].grace
                                  /\ Roster[s].named \in BOOLEAN /\ Roster[s].gated \in BOOLEAN
                                  /\ Roster[s].named => Roster[s].grace = 0
    BY DEF SlotAssumption, RosterAssumption
  <1>6. \A s \in Evidence!Names : /\ active[s] \in Int /\ got[s] \in Int /\ noted[s] \in Int
                                  /\ got[s] <= hour /\ noted[s] <= got[s]
    BY <1>1 DEF SlotInv
  <1>7. \A j \in made : j.slot \in Evidence!Names /\ j.made \in Int /\ j.at \in Int
    BY <1>1 DEF SlotInv
  <1>8. \A d \in DOMAIN bumped : bumped[d] \in Int  BY <1>1 DEF SlotInv
  <1>9. \A s \in Evidence!Names : Roster[s].named => Roster[s].lag = 0
    <2> SUFFICES ASSUME NEW s \in Evidence!Names, Roster[s].named PROVE Roster[s].lag = 0  OBVIOUS
    <2> QED  BY <1>5
  <1> QED  BY <1>2, <1>3, <1>4, <1>5, <1>6, <1>7, <1>8, <1>9

\* What the dashboard looks at: the last fire, and if it is not owed the last that is.
LEMMA AdherenceIs ==
    ASSUME SlotAssumption, RosterAssumption, WatchInv, NEW s \in Evidence!Names
    PROVE  \E x \in Nat :
              /\ Evidence!Adherence(s) = Evidence!Judged(s, x)
              /\ \A g \in Nat : Fire(s, g) /\ g <= hour => g <= x
              /\ (Fire(s, x) /\ x <= hour) \/ Evidence!Evidence(s, x)
  <1> DEFINE F == Evidence!Seen(s)
             O == Evidence!OwedFires(s)
  <1>0. hour \in Nat /\ FirstTick \in Nat /\ FirstTick <= hour  BY WatchTypes
  <1>1. \A t : t \in O <=> Fire(s, t) /\ t <= hour  BY <1>0, OwedIs
  <1>2. O \in SUBSET F /\ F \in SUBSET (0..hour) /\ \A t \in F : Evidence!Owed(s, t) <=> t \in O
    BY DEF Evidence!OwedFires, Evidence!Seen, Evidence!Fires
  <1>3. LastFire(s) \in O
    <2>1. LastFire(s) <= hour  BY <1>0, LastFireIs DEF SlotAssumption
    <2> QED  BY <1>1, <2>1, LastFireIs
  <1>4. F \in SUBSET Int /\ O \in SUBSET Int
    <2>1. \A e \in 0..hour : e \in Int  OBVIOUS
    <2> QED  BY <1>2, <2>1, Zenon
  <1>5. IsFiniteSet(0..hour)  BY <1>0, FS_Interval
  <1>6. IsFiniteSet(F)  BY <1>2, <1>5, FS_Subset
  <1>7. IsFiniteSet(O)  BY <1>2, <1>6, FS_Subset
  <1>8. Evidence!Max(F) = Max(F) /\ Evidence!Max(O) = Max(O)  BY SameMax
  <1>9. F # {} /\ O # {}  BY <1>2, <1>3
  <1>10. Evidence!Adherence(s) =
           CASE F = {} -> "unknown"
             [] F # {} /\ (Evidence!Owed(s, Max(F)) \/ Evidence!Evidence(s, Max(F))) -> Evidence!Judged(s, Max(F))
             [] OTHER -> IF O = {} THEN "on_plan" ELSE Evidence!Judged(s, Max(O))
    BY <1>8 DEF Evidence!Adherence
  <1> HIDE DEF F, O
  <1>11. Max(F) \in F /\ \A e \in F : e <= Max(F)  BY <1>4, <1>6, <1>9, MaxIsGreatest
  <1>12. Max(O) \in O /\ \A e \in O : e <= Max(O)  BY <1>4, <1>7, <1>9, MaxIsGreatest
  <1>13. Max(F) \in 0..hour /\ Max(O) \in 0..hour  BY <1>2, <1>11, <1>12
  <1>14. CASE Evidence!Owed(s, Max(F)) \/ Evidence!Evidence(s, Max(F))
    <2>1. Evidence!Adherence(s) = Evidence!Judged(s, Max(F))  BY <1>9, <1>10, <1>14
    <2>2. \A g \in Nat : Fire(s, g) /\ g <= hour => g <= Max(F)  BY <1>1, <1>2, <1>11
    <2>3. (Fire(s, Max(F)) /\ Max(F) <= hour) \/ Evidence!Evidence(s, Max(F))
      BY <1>1, <1>2, <1>11, <1>14
    <2>4. Max(F) \in Nat  BY <1>0, <1>13
    <2> QED  BY <2>1, <2>2, <2>3, <2>4
  <1>15. CASE ~(Evidence!Owed(s, Max(F)) \/ Evidence!Evidence(s, Max(F)))
    <2>1. Evidence!Adherence(s) = Evidence!Judged(s, Max(O))  BY <1>9, <1>10, <1>15
    <2>2. \A g \in Nat : Fire(s, g) /\ g <= hour => g <= Max(O)  BY <1>1, <1>12
    <2>3. Fire(s, Max(O)) /\ Max(O) <= hour  BY <1>1, <1>12
    <2>4. Max(O) \in Nat  BY <1>0, <1>13
    <2> QED  BY <2>1, <2>2, <2>3, <2>4
  <1> QED  BY <1>14, <1>15

\* A job of a fire, or a bump since, is evidence of it.
LEMMA JobIsEvidence ==
    ASSUME SlotAssumption, RosterAssumption, WatchInv, NEW s \in Evidence!Names, NEW x \in Int,
           NEW j \in made, j.slot = s, j.made = x + Roster[s].lag
    PROVE  Evidence!Evidence(s, x)
  <1>1. Roster[s].lag \in Nat /\ Roster[s].grace \in Nat /\ Roster[s].lag <= Roster[s].grace /\ "none" \notin Evidence!Names
    BY WatchTypes DEF RosterAssumption
  <1>2. j.made \in x..Evidence!GraceEnd(s, x)  BY <1>1 DEF Evidence!GraceEnd
  <1>3. Roster[s].named => Evidence!SlotOf(j) = s  BY DEF Evidence!SlotOf
  <1>4. j \in Evidence!Created(s, x)  BY <1>2, <1>3 DEF Evidence!Created
  <1> QED  BY <1>4 DEF Evidence!Evidence

\* What was noted since the last fire whose turn has come shows: the row that is read says
\* so, or the job that was there when the slots began is still there.
LEMMA NotedIsEvidence ==
    ASSUME SlotAssumption, RosterAssumption, WatchInv, NEW s \in Evidence!Names, NEW x \in Nat,
           Fire(s, x), x + Roster[s].lag <= hour, noted[s] >= x,
           \A g \in Nat : Fire(s, g) /\ g + Roster[s].lag <= hour => g <= x
    PROVE  Evidence!Evidence(s, x)
  <1>0. RowTells(s)  BY DEF WatchInv
  <1>1. /\ noted[s] \in Int /\ hour \in Nat /\ FirstTick \in Nat /\ FirstTick <= hour /\ JobsKept \in Nat
        /\ Roster[s].named \in BOOLEAN /\ Roster[s].lag \in Nat /\ (Roster[s].named => Roster[s].lag = 0)
        /\ \A d \in DOMAIN bumped : bumped[d] \in Int
    BY WatchTypes
  <1>2. CASE ~Roster[s].named
    <2>1. bumped[Evidence!TableRow(s)] >= x  BY <1>0, <1>1 DEF RowTells
    <2> QED  BY <1>2, <2>1 DEF Evidence!Evidence, Evidence!Row
  <1>3. CASE Roster[s].named /\ bumped[Evidence!OwnRow(s)] # Evidence!None
    <2>1. bumped[Evidence!OwnRow(s)] = noted[s]  BY <1>0, <1>3 DEF RowTells
    <2> QED  BY <1>3, <2>1 DEF Evidence!Evidence, Evidence!Row
  <1>4. CASE Roster[s].named /\ bumped[Evidence!OwnRow(s)] = Evidence!None
    <2>1. noted[s] = LastFire(s) /\ (Relic(s) \in made \/ hour > LastFire(s) + JobsKept)
      BY <1>0, <1>4 DEF RowTells
    <2>2. LastFire(s) <= x  BY <1>1, LastFireIs
    <2>3. LastFire(s) = x  BY <1>1, <2>1, <2>2
    <2>4. CASE Relic(s) \in made
      <3>1. Relic(s).slot = s /\ Relic(s).made = x + Roster[s].lag  BY <2>3 DEF Relic
      <3> QED  BY <2>4, <3>1, JobIsEvidence
    <2>5. CASE hour > LastFire(s) + JobsKept
      <3>1. PICK g \in Evidence!Fires(s, LastFire(s) + 1, LastFire(s) + JobsKept - 1) : Evidence!Owed(s, g)
        BY <1>4 DEF RosterAssumption
      <3>2. LastFire(s) + 1 \in Nat /\ LastFire(s) + JobsKept - 1 \in Int  BY <1>1, LastFireIs
      <3>3. Fire(s, g) /\ LastFire(s) + 1 <= g /\ g <= LastFire(s) + JobsKept - 1  BY <3>1, <3>2, FireIs
      <3>4. g \in Nat  BY <3>3 DEF Fire
      <3>5. g + Roster[s].lag <= hour  BY <1>1, <1>4, <2>5, <3>3, <3>4, LastFireIs
      <3>6. g <= x  BY <3>3, <3>4, <3>5
      <3> QED  BY <2>3, <3>3, <3>4, <3>6
    <2> QED  BY <2>1, <2>4, <2>5
  <1> QED  BY <1>1, <1>2, <1>3, <1>4

\* A slot that has run for every fire whose turn has come is not called missed.
LEMMA NotMissed ==
    ASSUME SlotAssumption, RosterAssumption, WatchInv, NEW s \in Evidence!Circle,
           \A g \in Nat : Fire(s, g) /\ g + Roster[s].lag <= hour => g <= ran[s],
           HasJob(s) \/ noted[s] >= ran[s]
    PROVE  Evidence!Adherence(s) # "missed"
  <1>0. s \in Evidence!Names  BY DEF Evidence!Circle
  <1>1. Fire(s, ran[s]) /\ ran[s] + Roster[s].lag <= hour /\ ran[s] \in Nat
    BY DEF WatchInv, RunTells, Fire
  <1>2. Evidence!Evidence(s, ran[s])
    <2>1. CASE HasJob(s)
      <3>1. PICK j \in made : j.slot = s /\ j.made = ran[s] + Roster[s].lag  BY <2>1 DEF HasJob
      <3> QED  BY <1>0, <1>1, <3>1, JobIsEvidence
    <2>2. CASE noted[s] >= ran[s]  BY <1>0, <1>1, <2>2, NotedIsEvidence
    <2> QED  BY <2>1, <2>2
  <1>3. PICK x \in Nat :
           /\ Evidence!Adherence(s) = Evidence!Judged(s, x)
           /\ \A g \in Nat : Fire(s, g) /\ g <= hour => g <= x
           /\ (Fire(s, x) /\ x <= hour) \/ Evidence!Evidence(s, x)
    BY <1>0, AdherenceIs
  <1>4. hour \in Nat /\ Roster[s].lag \in Nat /\ Roster[s].grace \in Nat /\ Roster[s].lag <= Roster[s].grace
    BY <1>0, WatchTypes
  <1>5. Evidence!Evidence(s, x) \/ hour < Evidence!GraceEnd(s, x)
    <2> SUFFICES ASSUME Fire(s, x), x <= hour, ~(hour < Evidence!GraceEnd(s, x)) PROVE Evidence!Evidence(s, x)
      BY <1>3
    <2>1. x + Roster[s].lag <= hour  BY <1>4 DEF Evidence!GraceEnd
    <2>2. x <= ran[s]  BY <2>1
    <2>3. ran[s] <= x  BY <1>1, <1>3, <1>4
    <2>4. ran[s] = x  BY <1>1, <2>2, <2>3
    <2> QED  BY <1>2, <2>4
  <1> QED  BY <1>3, <1>5 DEF Evidence!Judged

\* A named slot of which nothing has been heard since a fire whose turn has come is.
LEMMA Missed ==
    ASSUME SlotAssumption, RosterAssumption, WatchInv, NEW s \in Evidence!Names, Roster[s].named,
           NEW f \in Nat, Fire(s, f), f + Roster[s].lag <= hour, active[s] < f
    PROVE  Evidence!Adherence(s) = "missed"
  <1>0. /\ hour \in Nat /\ Roster[s].lag = 0 /\ Roster[s].grace = 0
        /\ active[s] \in Int /\ got[s] \in Int /\ noted[s] \in Int /\ noted[s] <= got[s] /\ got[s] <= active[s]
        /\ \A j \in made : j.slot \in Evidence!Names /\ j.made \in Int
    BY WatchTypes
  <1>1. PICK x \in Nat :
           /\ Evidence!Adherence(s) = Evidence!Judged(s, x)
           /\ \A g \in Nat : Fire(s, g) /\ g <= hour => g <= x
           /\ (Fire(s, x) /\ x <= hour) \/ Evidence!Evidence(s, x)
    BY AdherenceIs
  <1>2. f <= x  BY <1>0, <1>1
  <1>3. Evidence!Created(s, x) = {}
    <2> SUFFICES ASSUME NEW j \in Evidence!Created(s, x) PROVE FALSE  OBVIOUS
    <2>1. j \in made /\ Evidence!SlotOf(j) = s /\ j.made \in x..Evidence!GraceEnd(s, x)
      BY DEF Evidence!Created
    <2>2. j.slot = s  BY <2>1 DEF Evidence!SlotOf, RosterAssumption
    <2>3. j.made <= active[s]  BY <2>1, <2>2 DEF WatchInv, JobsInTime
    <2>4. x <= j.made  BY <2>1, <1>0
    <2> QED  BY <1>0, <1>2, <2>1, <2>3, <2>4
  <1>4. ~(Evidence!Row(s) >= x)
    <2>1. bumped[Evidence!OwnRow(s)] \in {Evidence!None, noted[s]}  BY DEF WatchInv, RowTells
    <2>2. Evidence!Row(s) = bumped[Evidence!OwnRow(s)]  BY DEF Evidence!Row
    <2>3. Evidence!Row(s) \in Int /\ Evidence!Row(s) < x  BY <1>0, <1>2, <2>1, <2>2 DEF Evidence!None
    <2> QED  BY <2>3
  <1>5. ~Evidence!Evidence(s, x)  BY <1>3, <1>4 DEF Evidence!Evidence
  <1>6. x <= hour  BY <1>1, <1>5
  <1>7. ~(hour < Evidence!GraceEnd(s, x))  BY <1>0, <1>6 DEF Evidence!GraceEnd
  <1> QED  BY <1>1, <1>5, <1>7 DEF Evidence!Judged

\* What the dashboard says of the watched slot.
LEMMA MissesMeans == ASSUME SlotAssumption, RosterAssumption, WatchInv PROVE Evidence!MissesTold(watched)
  <1> DEFINE s == watched
             S == {g \in Evidence!OwedFires(s) : g + Roster[s].lag <= hour}
             f == Max(S)
  <1>0. /\ s \in Evidence!Circle /\ s \in Evidence!Names /\ hour \in Nat /\ JobsKept \in Nat /\ Roster[s].lag \in Nat
        /\ FirstTick \in Nat /\ FirstTick <= hour
    BY WatchTypes
  <1> HIDE DEF s
  <1>1. \A t : t \in S <=> Fire(s, t) /\ t + Roster[s].lag <= hour
    <2>1. \A t : t \in S <=> Fire(s, t) /\ t <= hour /\ t + Roster[s].lag <= hour  BY <1>0, OwedIs
    <2>2. \A t \in Nat : t + Roster[s].lag <= hour => t <= hour  BY <1>0
    <2> QED  BY <2>1, <2>2 DEF Fire
  <1>2. S \in SUBSET (0..hour)  BY <1>0 DEF Evidence!OwedFires, Evidence!Seen, Evidence!Fires
  <1>3. S \in SUBSET Int
    <2>1. \A e \in 0..hour : e \in Int  OBVIOUS
    <2> QED  BY <1>2, <2>1, Zenon
  <1>4. IsFiniteSet(0..hour)
    <2> HIDE DEF S, f
    <2>1. 0 \in Int /\ hour \in Int  BY <1>0
    <2> QED  BY <2>1, FS_Interval
  <1>5. IsFiniteSet(S)  BY <1>2, <1>4, FS_Subset
  <1>6. LastFire(s) \in S
    <2>1. LastFire(s) + Roster[s].lag <= hour  BY <1>0, LastFireIs
    <2> QED  BY <1>0, <1>1, <2>1, LastFireIs
  <1>7. Evidence!MissesTold(s) <=>
           /\ ran[s] >= f /\ (noted[s] >= f \/ hour - f <= JobsKept) => Evidence!Adherence(s) # "missed"
           /\ Roster[s].named /\ active[s] < f => Evidence!Adherence(s) = "missed"
    BY SameMax DEF Evidence!MissesTold
  <1>8. S # {}  BY <1>6
  <1> HIDE DEF S
  <1>9. f \in S /\ \A e \in S : e <= f  BY <1>3, <1>5, <1>8, MaxIsGreatest
  <1>10. f \in Nat /\ Fire(s, f) /\ f + Roster[s].lag <= hour  BY <1>1, <1>9 DEF Fire
  <1>11. \A g \in Nat : Fire(s, g) /\ g + Roster[s].lag <= hour => g <= f  BY <1>1, <1>9
  <1> HIDE DEF f
  <1>12. ASSUME ran[s] >= f, noted[s] >= f \/ hour - f <= JobsKept PROVE Evidence!Adherence(s) # "missed"
    <2>1. RunTells(s)  BY <1>0 DEF WatchInv
    <2>2. Fire(s, ran[s]) /\ ran[s] + Roster[s].lag <= hour /\ ran[s] \in Nat
      BY <2>1 DEF RunTells, Fire
    <2>3. ran[s] = f  BY <1>10, <1>11, <1>12, <2>2
    <2>4. HasJob(s) \/ noted[s] >= ran[s]
      <3>1. ASSUME hour - f <= JobsKept PROVE ~(hour > ran[s] + Roster[s].lag + JobsKept)
        BY <1>0, <1>10, <2>3, <3>1
      <3> QED  BY <1>12, <2>1, <2>3, <3>1 DEF RunTells
    <2> QED  BY <1>0, <1>11, <2>3, <2>4, NotMissed
  <1>13. ASSUME Roster[s].named, active[s] < f PROVE Evidence!Adherence(s) = "missed"
    BY <1>0, <1>10, <1>13, Missed
  <1>14. Evidence!MissesTold(s)  BY <1>7, <1>12, <1>13
  <1> QED  BY <1>14 DEF s

\* What it says of all slots of the table is what it says of the watched one.
LEMMA VerdictMeans ==
    ASSUME SlotAssumption, RosterAssumption, WatchInv, Evidence!Verdict = "missed"
    PROVE  Evidence!Adherence(watched) = "missed"
  <1>1. PICK s \in Evidence!Circle : Evidence!Adherence(s) = "missed"
    <2> SUFFICES ASSUME \A s \in Evidence!Circle : Evidence!Adherence(s) # "missed" PROVE FALSE  OBVIOUS
    <2>1. Evidence!Verdict \in {"due", "on_plan"}  BY DEF Evidence!Verdict
    <2> QED  BY <2>1
  <1>2. s = watched
    <2> SUFFICES ASSUME s # watched PROVE FALSE  OBVIOUS
    <2>1. RunTells(s)  BY DEF WatchInv
    <2>2. HasJob(s) \/ noted[s] >= ran[s]  BY <2>1 DEF RunTells, Waits, HasJob
    <2>3. Evidence!Adherence(s) # "missed"  BY <2>1, <2>2, NotMissed DEF RunTells
    <2> QED  BY <1>1, <2>3
  <1> QED  BY <1>1, <1>2

-----------------------------------------------------------------------------
(* The doctor's clock: fires are a day apart, and closed days do not count.                 *)

\* A number is made of its quotient and its rest.
LEMMA Rest ==
    ASSUME NEW e \in Nat \ {0}, NEW q \in Int, NEW r \in 0..(e - 1)
    PROVE  (e * q + r) % e = r /\ (e * q + r) \div e = q
  <1> DEFINE t == e * q + r
             d == t \div e
             n == t % e
  <1>1. t \in Int  OBVIOUS
  <1>2. d \in Int /\ t - n = e * d /\ n \in 0..(e - 1)  BY <1>1, Multiple
  <1>3. t = e * q + r  OBVIOUS
  <1> HIDE DEF t, d, n
  <1>4. ASSUME d < q PROVE FALSE
    <2>1. e * d + e <= e * q  BY <1>2, <1>4, Spacing
    <2>2. e * d \in Int /\ e * q \in Int  BY <1>2
    <2> QED  BY <1>1, <1>2, <1>3, <2>1, <2>2
  <1>5. ASSUME q < d PROVE FALSE
    <2>1. e * q + e <= e * d  BY <1>2, <1>5, Spacing
    <2>2. e * d \in Int /\ e * q \in Int  BY <1>2
    <2> QED  BY <1>1, <1>2, <1>3, <2>1, <2>2
  <1>6. d = q  BY <1>2, <1>4, <1>5
  <1>7. n = r
    <2>1. e * q \in Int  OBVIOUS
    <2> QED  BY <1>1, <1>2, <1>3, <1>6, <2>1
  <1> QED  BY <1>6, <1>7 DEF d, n, t

\* The time of day in New York.
Off(t) == (t - 1) % TicksADay

\* A moment is its day and its time.
LEMMA DayIs ==
    ASSUME SlotAssumption, NEW t \in Int
    PROVE  Evidence!Ny(t) \in Int /\ Off(t) \in 0..(TicksADay - 1) /\ t - 1 = TicksADay * Evidence!Ny(t) + Off(t)
           /\ TicksADay * Evidence!Ny(t) \in Int
  <1>1. t - 1 \in Int /\ TicksADay \in Nat \ {0}  BY DEF SlotAssumption
  <1>2. (t - 1) \div TicksADay \in Int /\ (t - 1) - ((t - 1) % TicksADay) = TicksADay * ((t - 1) \div TicksADay)
        /\ (t - 1) % TicksADay \in 0..(TicksADay - 1)
    BY <1>1, Multiple
  <1> DEFINE d == (t - 1) \div TicksADay
             n == (t - 1) % TicksADay
  <1> HIDE DEF d, n
  <1>3. d \in Int /\ (t - 1) - n = TicksADay * d /\ n \in 0..(TicksADay - 1)  BY <1>2 DEF d, n
  <1>4. TicksADay * d \in Int  BY <1>1, <1>3
  <1>5. t - 1 = TicksADay * d + n  BY <1>1, <1>3, <1>4
  <1> QED  BY <1>3, <1>4, <1>5 DEF d, n, Evidence!Ny, Off

\* Days follow each other.
LEMMA DaysFollow ==
    ASSUME SlotAssumption, NEW t \in Int, NEW u \in Int, t <= u
    PROVE  Evidence!Ny(t) <= Evidence!Ny(u)
  <1> DEFINE a == Evidence!Ny(t)
             b == Evidence!Ny(u)
  <1>0. TicksADay \in Nat \ {0}  BY DEF SlotAssumption
  <1>1. a \in Int /\ Off(t) \in 0..(TicksADay - 1) /\ t - 1 = TicksADay * a + Off(t) /\ TicksADay * a \in Int
    BY DayIs
  <1>2. b \in Int /\ Off(u) \in 0..(TicksADay - 1) /\ u - 1 = TicksADay * b + Off(u) /\ TicksADay * b \in Int
    BY DayIs
  <1> HIDE DEF a, b
  <1>3. ASSUME b < a PROVE FALSE
    <2>1. TicksADay * b + TicksADay <= TicksADay * a  BY <1>0, <1>1, <1>2, <1>3, Spacing
    <2> QED  BY <1>0, <1>1, <1>2, <2>1
  <1>4. a <= b  BY <1>1, <1>2, <1>3
  <1> QED  BY <1>4 DEF a, b

\* Two fires are a day apart at least, and on two days.
LEMMA FiresApart ==
    ASSUME SlotAssumption, NEW s \in Evidence!Names, NEW f, NEW g, Fire(s, f), Fire(s, g), f < g
    PROVE  f + TicksADay <= g /\ Evidence!Ny(f) < Evidence!Ny(g)
  <1>0. TicksADay \in Nat \ {0} /\ f \in Nat /\ g \in Nat /\ f % TicksADay = g % TicksADay
    BY DEF SlotAssumption, Fire
  <1> DEFINE a == f \div TicksADay
             b == g \div TicksADay
             c == f % TicksADay
  <1>a. f \in Int /\ g \in Int  BY <1>0
  <1>1. a \in Int /\ f - c = TicksADay * a /\ c \in 0..(TicksADay - 1)  BY <1>0, <1>a, Multiple
  <1>b. b \in Int /\ g - (g % TicksADay) = TicksADay * b  BY <1>0, <1>a, Multiple
  <1>2. b \in Int /\ g - c = TicksADay * b  BY <1>0, <1>b
  <1> HIDE DEF a, b, c
  <1>3. ASSUME ~(a < b) PROVE FALSE
    <2>1. CASE a = b
      <3>1. f - c = g - c  BY <1>1, <1>2, <2>1, Zenon
      <3>2. c \in Int  BY <1>0, <1>1
      <3> QED  BY <1>0, <3>1, <3>2
    <2>2. CASE b < a
      <3>1. TicksADay * b + TicksADay <= TicksADay * a  BY <1>0, <1>1, <1>2, <2>2, Spacing
      <3> QED  BY <1>0, <1>1, <1>2, <3>1
    <2> QED  BY <1>1, <1>2, <1>3, <2>1, <2>2
  <1>4. TicksADay * a + TicksADay <= TicksADay * b  BY <1>0, <1>1, <1>2, <1>3, Spacing
  <1>5. f + TicksADay <= g  BY <1>0, <1>1, <1>2, <1>4
  <1> DEFINE p == Evidence!Ny(f)
             q == Evidence!Ny(g)
  <1>6. p \in Int /\ Off(f) \in 0..(TicksADay - 1) /\ f - 1 = TicksADay * p + Off(f) /\ TicksADay * p \in Int
    BY <1>0, DayIs
  <1>7. q \in Int /\ Off(g) \in 0..(TicksADay - 1) /\ g - 1 = TicksADay * q + Off(g) /\ TicksADay * q \in Int
    BY <1>0, DayIs
  <1> HIDE DEF p, q
  <1>8. ASSUME ~(p < q) PROVE FALSE
    <2>1. CASE p = q  BY <1>0, <1>5, <1>6, <1>7, <2>1
    <2>2. CASE q < p
      <3>1. TicksADay * q + TicksADay <= TicksADay * p  BY <1>0, <1>6, <1>7, <2>2, Spacing
      <3> QED  BY <1>0, <1>5, <1>6, <1>7, <3>1
    <2> QED  BY <1>6, <1>7, <1>8, <2>1, <2>2
  <1>9. p < q  BY <1>6, <1>7, <1>8
  <1> QED  BY <1>5, <1>9 DEF p, q

\* A day on which the slot is owed has a fire.
LEMMA FireOfDay ==
    ASSUME SlotAssumption, RosterAssumption, NEW s \in Evidence!Names, NEW d \in Nat,
           Roster[s].gated => d \in OpenDates
    PROVE  \E g : Fire(s, g) /\ Evidence!Ny(g) = d
  <1> DEFINE c == Roster[s].cron
             g == IF c = 0 THEN TicksADay * (d + 1) + 0 ELSE TicksADay * d + c
  <1>0. TicksADay \in Nat \ {0} /\ c \in 0..(TicksADay - 1)  BY DEF SlotAssumption, RosterAssumption
  <1>1. TicksADay * d \in Nat /\ TicksADay * (d + 1) \in Nat /\ TicksADay * (d + 1) = TicksADay * d + TicksADay
    BY <1>0
  <1>2. g \in Nat  BY <1>0, <1>1
  <1>3. g % TicksADay = c
    <2>1. CASE c = 0
      <3>1. d + 1 \in Int /\ 0 \in 0..(TicksADay - 1)  BY <1>0
      <3> HIDE DEF c
      <3> QED  BY <1>0, <2>1, <3>1, Rest
    <2>2. CASE c # 0
      <3> HIDE DEF c
      <3> QED  BY <1>0, <2>2, Rest
    <2> QED  BY <2>1, <2>2
  <1>4. Evidence!Ny(g) = d
    <2> DEFINE r == IF c = 0 THEN TicksADay - 1 ELSE c - 1
    <2>1. r \in 0..(TicksADay - 1) /\ g - 1 = TicksADay * d + r  BY <1>0, <1>1
    <2> HIDE DEF r, g, c
    <2>2. (TicksADay * d + r) \div TicksADay = d  BY <1>0, <2>1, Rest
    <2> QED  BY <2>1, <2>2 DEF Evidence!Ny
  <1> HIDE DEF g
  <1>5. Fire(s, g)  BY <1>2, <1>3, <1>4 DEF Fire, Evidence!Owed
  <1> QED  BY <1>4, <1>5

\* The days since on which the market was open.
OpenSince(t) == (Evidence!Ny(t) + 1 .. Evidence!Ny(hour)) \cap OpenDates

\* The age that counts is made of them, and of the times of day.
LEMMA AgeIs ==
    ASSUME SlotAssumption, NEW s \in Evidence!Names, Roster[s].gated, hour \in Int, NEW t \in Int, t <= hour
    PROVE  /\ IsFiniteSet(OpenSince(t)) /\ Cardinality(OpenSince(t)) \in Nat
           /\ hour - t - TicksADay * Evidence!ClosedSince(s, t)
                = TicksADay * Cardinality(OpenSince(t)) + Off(hour) - Off(t)
  <1> DEFINE a == Evidence!Ny(t)
             b == Evidence!Ny(hour)
             D == a + 1 .. b
             o == Cardinality(OpenSince(t))
             k == Cardinality(D \ OpenDates)
  <1>0. TicksADay \in Nat \ {0}  BY DEF SlotAssumption
  <1>1. a \in Int /\ Off(t) \in 0..(TicksADay - 1) /\ t - 1 = TicksADay * a + Off(t) /\ TicksADay * a \in Int
    BY DayIs
  <1>2. b \in Int /\ Off(hour) \in 0..(TicksADay - 1) /\ hour - 1 = TicksADay * b + Off(hour) /\ TicksADay * b \in Int  BY DayIs
  <1>3. a <= b  BY DaysFollow
  <1>4. Evidence!ClosedSince(s, t) = k  BY SameCardinality DEF Evidence!ClosedSince
  <1>5. OpenSince(t) = D \cap OpenDates  BY DEF OpenSince
  <1> HIDE DEF a, b
  <1>6. IsFiniteSet(D) /\ Cardinality(D) = b - a
    <2>1. a + 1 \in Int /\ b \in Int  BY <1>1, <1>2
    <2>2. IsFiniteSet(D) /\ Cardinality(D) = IF a + 1 > b THEN 0 ELSE b - (a + 1) + 1
      BY <2>1, FS_Interval
    <2> QED  BY <1>1, <1>2, <1>3, <2>2
  <1> HIDE DEF D
  <1>7. IsFiniteSet(OpenSince(t)) /\ IsFiniteSet(D \ OpenDates)
    <2>1. OpenSince(t) \in SUBSET D /\ (D \ OpenDates) \in SUBSET D  BY <1>5
    <2> QED  BY <1>6, <2>1, FS_Subset
  <1>8. o \in Nat /\ k \in Nat  BY <1>7, FS_CardinalityType
  <1>9. k = b - a - o
    <2>1. Cardinality(D \ OpenDates) = Cardinality(D) - Cardinality(D \cap OpenDates)
      BY <1>6, FS_Difference
    <2> QED  BY <1>5, <1>6, <2>1
  <1> HIDE DEF o, k
  <1>10. TicksADay * k = TicksADay * b - TicksADay * a - TicksADay * o  BY <1>0, <1>1, <1>2, <1>8, <1>9
  <1>11. TicksADay * o \in Int /\ TicksADay * k \in Int  BY <1>0, <1>8
  <1>12. hour - t - TicksADay * k = TicksADay * o + Off(hour) - Off(t)  BY <1>1, <1>2, <1>10, <1>11
  <1> QED  BY <1>4, <1>7, <1>8, <1>12 DEF o

\* What the doctor last saw of a named slot is nothing, or no later than its last rows.
LEMMA SeenIs ==
    ASSUME SlotAssumption, RosterAssumption, WatchInv, NEW s \in Evidence!Names, Roster[s].named
    PROVE  LET t == Evidence!LastSeen(s, TRUE)
           IN  /\ t \in Int /\ (t = Evidence!None \/ t <= got[s])
               /\ bumped[Evidence!OwnRow(s)] # Evidence!None => t = noted[s]
               /\ bumped[Evidence!OwnRow(s)] = Evidence!None => \A a \in Evidence!Delivered(s) : a <= t
  <1> DEFINE t == Evidence!LastSeen(s, TRUE)
             D == Evidence!Delivered(s)
             S == D \cup {Evidence!None}
             own == bumped[Evidence!OwnRow(s)]
  <1>0. /\ noted[s] \in Int /\ got[s] \in Int /\ noted[s] <= got[s]
        /\ \A j \in made : j.slot \in Evidence!Names /\ j.at \in Int
    BY WatchTypes
  <1>1. own \in {Evidence!None, noted[s]}  BY DEF WatchInv, RowTells
  <1>2. \A a \in D : a \in Int /\ a <= got[s]
    <2> SUFFICES ASSUME NEW j \in made, j.status = "done", j.rows, Evidence!SlotOf(j) = s PROVE j.at \in Int /\ j.at <= got[s]
      BY DEF Evidence!Delivered
    <2>1. j.slot = s  BY DEF Evidence!SlotOf, RosterAssumption
    <2> QED  BY <1>0, <2>1 DEF WatchInv, JobsInTime
  <1>3. IsFiniteSet(D)
    <2> DEFINE K == {k \in made : k.status = "done" /\ k.rows /\ Evidence!SlotOf(k) = s}
               f == [k \in made |-> k.at]
    <2>1. IsFiniteSet(made) /\ K \in SUBSET made  BY DEF WatchInv, SlotInv
    <2>2. IsFiniteSet(K)  BY <2>1, FS_Subset
    <2>3. D = {f[k] : k \in K}  BY DEF Evidence!Delivered
    <2> HIDE DEF K, f, D
    <2> QED  BY <2>2, <2>3, ImageIsFinite
  <1> HIDE DEF D
  <1>4. S \in SUBSET Int /\ S # {}  BY <1>2 DEF Evidence!None
  <1>5. IsFiniteSet(S)  BY <1>3, FS_AddElement
  <1>6. t = IF own # Evidence!None THEN own ELSE Max(S)
    BY <1>0, SameMax DEF Evidence!LastSeen, D
  <1>7. \A a \in S : a = Evidence!None \/ a <= got[s]  BY <1>2
  <1>8. \A a \in D : a \in S  OBVIOUS
  <1> HIDE DEF S, t, own
  <1>9. Max(S) \in S /\ \A a \in S : a <= Max(S)  BY <1>4, <1>5, MaxIsGreatest
  <1>10. t \in Int /\ (t = Evidence!None \/ t <= got[s])  BY <1>0, <1>1, <1>4, <1>6, <1>7, <1>9
  <1>11. own # Evidence!None => t = noted[s]  BY <1>1, <1>6
  <1>12. own = Evidence!None => \A a \in D : a <= t  BY <1>6, <1>8, <1>9
  <1> QED  BY <1>10, <1>11, <1>12 DEF t, D, own

\* A slot that brought its rows after its last settled fire has been seen since.
LEMMA SeenSince ==
    ASSUME SlotAssumption, RosterAssumption, WatchInv, NEW s \in Evidence!Names, Roster[s].named,
           NEW m \in Nat, Fire(s, m), m + 1 < hour, noted[s] >= m,
           \A g \in Nat : Fire(s, g) /\ g + 1 < hour => g <= m
    PROVE  Evidence!LastSeen(s, TRUE) \in m..hour
  <1> DEFINE t == Evidence!LastSeen(s, TRUE)
             own == bumped[Evidence!OwnRow(s)]
  <1>0. /\ noted[s] \in Int /\ got[s] \in Int /\ got[s] <= hour /\ noted[s] <= got[s]
        /\ hour \in Nat /\ FirstTick \in Nat /\ FirstTick <= hour /\ JobsKept \in Nat /\ Roster[s].lag = 0
    BY WatchTypes
  <1>1. RowTells(s)  BY DEF WatchInv
  <1>2. /\ t \in Int /\ (t = Evidence!None \/ t <= got[s])
        /\ own # Evidence!None => t = noted[s]
        /\ own = Evidence!None => \A a \in Evidence!Delivered(s) : a <= t
    BY SeenIs
  <1>a. own # Evidence!None \/ own = Evidence!None  OBVIOUS
  <1>b. own = Evidence!None =>
           noted[s] = LastFire(s) /\ (Relic(s) \in made \/ hour > LastFire(s) + JobsKept)
    BY <1>1 DEF RowTells
  <1> HIDE DEF t, own
  <1>3. t >= m
    <2>1. CASE own # Evidence!None  BY <1>2, <2>1
    <2>2. CASE own = Evidence!None
      <3>1. noted[s] = LastFire(s) /\ (Relic(s) \in made \/ hour > LastFire(s) + JobsKept)
        BY <1>b, <2>2
      <3>2. CASE Relic(s) \in made
        <4>1. /\ Relic(s).status = "done" /\ Relic(s).rows /\ Relic(s).slot = s
              /\ Relic(s).at = LastFire(s) + Roster[s].lag
          BY DEF Relic
        <4>2. Evidence!SlotOf(Relic(s)) = s  BY <4>1 DEF Evidence!SlotOf
        <4>3. Relic(s).at \in Evidence!Delivered(s)  BY <3>2, <4>1, <4>2 DEF Evidence!Delivered
        <4>4. Relic(s).at <= t  BY <1>2, <2>2, <4>3
        <4>5. LastFire(s) <= t  BY <1>0, <4>1, <4>4, LastFireIs
        <4> QED  BY <1>0, <1>2, <3>1, <4>5
      <3>3. CASE hour > LastFire(s) + JobsKept
        <4>1. PICK g \in Evidence!Fires(s, LastFire(s) + 1, LastFire(s) + JobsKept - 1) : Evidence!Owed(s, g)
          BY DEF RosterAssumption
        <4>2. LastFire(s) + 1 \in Nat /\ LastFire(s) + JobsKept - 1 \in Int  BY <1>0, LastFireIs
        <4>3. Fire(s, g) /\ LastFire(s) + 1 <= g /\ g <= LastFire(s) + JobsKept - 1
          BY <4>1, <4>2, FireIs
        <4>4. g \in Nat  BY <4>3 DEF Fire
        <4>5. g + 1 < hour  BY <1>0, <3>3, <4>3, <4>4, LastFireIs
        <4>6. g <= m  BY <4>3, <4>4, <4>5
        <4> QED  BY <1>0, <3>1, <4>3, <4>4, <4>6, LastFireIs
      <3> QED  BY <3>1, <3>2, <3>3
    <2> QED  BY <2>1, <2>2
  <1>4. t <= hour
    <2>1. t # Evidence!None  BY <1>2, <1>3 DEF Evidence!None
    <2> QED  BY <1>0, <1>2, <2>1
  <1>5. t \in m..hour  BY <1>0, <1>2, <1>3, <1>4
  <1> QED  BY <1>5 DEF t

\* Such a slot is not stale.
LEMMA NotStale ==
    ASSUME SlotAssumption, RosterAssumption, WatchInv, NEW s \in Evidence!Names, Roster[s].limit > 0,
           NEW m \in Nat, Fire(s, m), m + 1 < hour, noted[s] >= m,
           \A g \in Nat : Fire(s, g) /\ g + 1 < hour => g <= m
    PROVE  ~Evidence!Stale(s, TRUE)
  <1> DEFINE t == Evidence!LastSeen(s, TRUE)
             limit == Roster[s].limit
  <1>0. hour \in Nat /\ TicksADay \in Nat \ {0} /\ Roster[s].lag \in Nat /\ Roster[s].gated \in BOOLEAN
    BY WatchTypes
  <1>1. /\ limit \in Nat /\ Roster[s].named
        /\ IF Roster[s].gated THEN limit = 2 * TicksADay ELSE limit \in (TicksADay + 1)..(3 * TicksADay)
    BY DEF RosterAssumption
  <1>2. t \in m..hour  BY <1>1, SeenSince
  <1>4. Evidence!Stale(s, TRUE) <=> t = Evidence!None \/ hour - t - TicksADay * Evidence!ClosedSince(s, t) > limit
    BY DEF Evidence!Stale
  <1> HIDE DEF t, limit
  <1>3. t \in Nat /\ m <= t /\ t <= hour /\ t # Evidence!None  BY <1>0, <1>2 DEF Evidence!None
  <1>5. CASE ~Roster[s].gated
    <2>1. Evidence!ClosedSince(s, t) = 0  BY <1>5 DEF Evidence!ClosedSince
    <2>2. Fire(s, m + TicksADay)
      <3>1. m + TicksADay \in Nat  BY <1>0
      <3>2. (m + TicksADay) % TicksADay = m % TicksADay
        <4> DEFINE a == m \div TicksADay
                   c == m % TicksADay
        <4>1. m \in Int /\ m + TicksADay \in Int  BY <1>0
        <4>2. a \in Int /\ m - c = TicksADay * a /\ c \in 0..(TicksADay - 1)  BY <1>0, <4>1, Multiple
        <4> HIDE DEF a, c
        <4>3. a + 1 \in Int /\ TicksADay * a \in Int /\ TicksADay * (a + 1) = TicksADay * a + TicksADay
          BY <1>0, <4>2
        <4>4. m + TicksADay = TicksADay * (a + 1) + c  BY <1>0, <4>2, <4>3
        <4>5. (TicksADay * (a + 1) + c) % TicksADay = c  BY <1>0, <4>2, <4>3, Rest
        <4> QED  BY <4>4, <4>5 DEF c
      <3> QED  BY <1>5, <3>1, <3>2 DEF Fire, Evidence!Owed
    <2>3. m + TicksADay \in Nat /\ ~(m + TicksADay + 1 < hour)
      <3>1. m + TicksADay \in Nat /\ m + TicksADay > m  BY <1>0
      <3> QED  BY <1>0, <2>2, <3>1
    <2>4. hour - t <= TicksADay + 1  BY <1>0, <1>3, <2>3
    <2>5. TicksADay + 1 <= limit  BY <1>0, <1>1, <1>5
    <2>6. hour - t - TicksADay * 0 = hour - t  BY <1>0, <1>3
    <2>7. ~(hour - t - TicksADay * 0 > limit)  BY <1>0, <1>1, <1>3, <2>4, <2>5, <2>6
    <2> QED  BY <1>3, <1>4, <2>1, <2>7
  <1>6. CASE Roster[s].gated
    <2> DEFINE O == OpenSince(t)
               o == Cardinality(O)
               b == Evidence!Ny(hour)
               a == Evidence!Ny(t)
               c == Evidence!Ny(hour - 1)
    <2>1. IsFiniteSet(O) /\ o \in Nat /\ hour - t - TicksADay * Evidence!ClosedSince(s, t) = TicksADay * o + Off(hour) - Off(t)
      BY <1>0, <1>3, <1>6, AgeIs
    <2>2. b \in Int /\ Off(hour) \in 0..(TicksADay - 1) /\ hour - 1 = TicksADay * b + Off(hour) /\ TicksADay * b \in Int
      BY <1>0, DayIs
    <2>3. a \in Int /\ Off(t) \in 0..(TicksADay - 1) /\ t - 1 = TicksADay * a + Off(t) /\ TicksADay * a \in Int
      BY <1>3, DayIs
    <2>4. hour - 1 \in Int  BY <1>0
    <2>5. c \in Int /\ Off(hour - 1) \in 0..(TicksADay - 1) /\ hour - 1 - 1 = TicksADay * c + Off(hour - 1) /\ TicksADay * c \in Int
      BY <2>4, DayIs
    <2>6. \A d \in O : d \in Int /\ a < d /\ d <= b /\ d \in OpenDates  BY <2>2, <2>3 DEF OpenSince
    <2> HIDE DEF O, a, b, c
    \* A day since that was open has a fire, which is not settled.
    <2>7. ASSUME NEW d \in O PROVE c <= d
      <3>1. d \in Nat
        <4>1. a >= -1
          <5> SUFFICES ASSUME a < -1 PROVE FALSE  BY <2>3
          <5>1. TicksADay * a + TicksADay <= TicksADay * (-1)  BY <1>0, <2>3, Spacing
          <5>2. TicksADay * (-1) = 0 - TicksADay  BY <1>0
          <5> QED  BY <1>0, <1>3, <2>3, <5>1, <5>2
        <4> QED  BY <2>3, <2>6, <4>1
      <3>2. d \in OpenDates  BY <2>6
      <3>3. PICK g : Fire(s, g) /\ Evidence!Ny(g) = d  BY <3>1, <3>2, FireOfDay
      <3>4. g \in Nat  BY <3>3 DEF Fire
      <3>5. t < g
        <4> SUFFICES ASSUME g <= t PROVE FALSE  BY <1>3, <3>4
        <4>1. d <= a  BY <1>3, <3>3, <3>4, DaysFollow DEF a
        <4> QED  BY <2>3, <2>6, <3>1, <4>1
      <3>6. hour - 1 <= g
        <4> SUFFICES ASSUME g < hour - 1 PROVE FALSE  BY <1>0, <3>4
        <4>1. g + 1 < hour  BY <1>0, <3>4
        <4>2. g <= m  BY <3>3, <3>4, <4>1
        <4> QED  BY <1>3, <3>4, <3>5, <4>2
      <3>7. g \in Int  BY <3>4
      <3>8. c <= Evidence!Ny(g)  BY <2>4, <3>6, <3>7, DaysFollow DEF c
      <3> QED  BY <3>3, <3>8
    <2>8. b = c \/ (b = c + 1 /\ Off(hour) = 0)
      <3>1. CASE b = c  BY <3>1
      <3>2. CASE b < c
        <4>1. TicksADay * b + TicksADay <= TicksADay * c  BY <1>0, <2>2, <2>5, <3>2, Spacing
        <4> QED  BY <1>0, <2>2, <2>5, <4>1
      <3>3. CASE c < b
        <4>1. TicksADay * c + TicksADay <= TicksADay * b  BY <1>0, <2>2, <2>5, <3>3, Spacing
        <4>2. Off(hour) = 0  BY <1>0, <2>2, <2>5, <4>1
        <4>3. b = c + 1
          <5> SUFFICES ASSUME c + 1 < b PROVE FALSE  BY <2>2, <2>5, <3>3
          <5>1. c + 1 \in Int /\ TicksADay * (c + 1) = TicksADay * c + TicksADay  BY <1>0, <2>5
          <5>2. TicksADay * (c + 1) + TicksADay <= TicksADay * b  BY <1>0, <2>2, <5>1, Spacing
          <5> QED  BY <1>0, <2>2, <2>5, <5>1, <5>2
        <4> QED  BY <4>2, <4>3
      <3> QED  BY <2>2, <2>5, <3>1, <3>2, <3>3
    <2>9. o <= 1 \/ (o <= 2 /\ Off(hour) = 0)
      <3>1. CASE b = c
        <4>1. O \in SUBSET {b}  BY <2>2, <2>5, <2>6, <2>7, <3>1
        <4>2. IsFiniteSet({b}) /\ Cardinality({b}) = 1  BY FS_Singleton
        <4>3. o <= 1  BY <4>1, <4>2, FS_Subset
        <4> QED  BY <4>3
      <3>2. CASE b = c + 1 /\ Off(hour) = 0
        <4>1. O \in SUBSET (c..b)  BY <2>2, <2>5, <2>6, <2>7
        <4>2. IsFiniteSet(c..b) /\ Cardinality(c..b) = IF c > b THEN 0 ELSE b - c + 1
          BY <2>2, <2>5, FS_Interval
        <4>3. o <= Cardinality(c..b)  BY <4>1, <4>2, FS_Subset
        <4>4. o <= 2  BY <2>1, <2>2, <2>5, <3>2, <4>2, <4>3
        <4> QED  BY <3>2, <4>4
      <3> QED  BY <2>8, <3>1, <3>2
    <2> HIDE DEF o
    <2>10. TicksADay * o + Off(hour) - Off(t) <= 2 * TicksADay
      <3>1. TicksADay * 0 = 0 /\ TicksADay * 1 = TicksADay /\ TicksADay * 2 = 2 * TicksADay  BY <1>0
      <3>2. CASE o = 0  BY <1>0, <2>2, <2>3, <3>1, <3>2
      <3>3. CASE o = 1  BY <1>0, <2>2, <2>3, <3>1, <3>3
      <3>4. CASE o = 2 /\ Off(hour) = 0  BY <1>0, <2>2, <2>3, <3>1, <3>4
      <3> QED  BY <2>1, <2>9, <3>2, <3>3, <3>4
    <2>11. limit = 2 * TicksADay  BY <1>1, <1>6
    <2>12. TicksADay * o + Off(hour) - Off(t) \in Int
      <3>1. TicksADay * o \in Int  BY <1>0, <2>1
      <3> QED  BY <1>0, <2>2, <2>3, <3>1
    <2>13. ~(TicksADay * o + Off(hour) - Off(t) > limit)  BY <1>0, <2>10, <2>11, <2>12
    <2> QED  BY <1>3, <1>4, <2>1, <2>13
  <1> QED  BY <1>0, <1>5, <1>6

\* A slot that brought no rows since a fire after which three more came is stale.
LEMMA IsStale ==
    ASSUME SlotAssumption, RosterAssumption, WatchInv, NEW s \in Evidence!Names, Roster[s].limit > 0,
           NEW f, NEW f1, NEW f2, NEW f3, Fire(s, f), Fire(s, f1), Fire(s, f2), Fire(s, f3),
           got[s] < f, f < f1, f1 < f2, f2 < f3, f3 <= hour
    PROVE  Evidence!Stale(s, TRUE)
  <1> DEFINE t == Evidence!LastSeen(s, TRUE)
             limit == Roster[s].limit
  <1>0. hour \in Nat /\ TicksADay \in Nat \ {0} /\ got[s] \in Int /\ Roster[s].gated \in BOOLEAN
    BY WatchTypes
  <1>1. /\ limit \in Nat /\ Roster[s].named
        /\ IF Roster[s].gated THEN limit = 2 * TicksADay ELSE limit \in (TicksADay + 1)..(3 * TicksADay)
    BY DEF RosterAssumption
  <1>2. f \in Nat /\ f1 \in Nat /\ f2 \in Nat /\ f3 \in Nat  BY DEF Fire
  <1>3. t \in Int /\ (t = Evidence!None \/ t <= got[s])  BY <1>1, SeenIs
  <1>4. Evidence!Stale(s, TRUE) <=> t = Evidence!None \/ hour - t - TicksADay * Evidence!ClosedSince(s, t) > limit
    BY DEF Evidence!Stale
  <1> HIDE DEF t, limit
  <1>5. CASE t = Evidence!None  BY <1>4, <1>5
  <1> SUFFICES ASSUME t # Evidence!None PROVE hour - t - TicksADay * Evidence!ClosedSince(s, t) > limit
    BY <1>4, <1>5
  <1>6. t < f /\ t <= hour  BY <1>0, <1>2, <1>3
  <1>7. CASE ~Roster[s].gated
    <2>1. Evidence!ClosedSince(s, t) = 0  BY <1>7 DEF Evidence!ClosedSince
    <2>2. f + TicksADay <= f1 /\ f1 + TicksADay <= f2 /\ f2 + TicksADay <= f3  BY FiresApart
    <2>3. hour - t > 3 * TicksADay  BY <1>0, <1>2, <1>3, <1>6, <2>2
    <2>4. limit <= 3 * TicksADay  BY <1>0, <1>1, <1>7
    <2>5. hour - t - TicksADay * 0 = hour - t  BY <1>0, <1>3
    <2>6. hour - t - TicksADay * 0 > limit  BY <1>0, <1>1, <1>3, <2>3, <2>4, <2>5
    <2> QED  BY <2>1, <2>6
  <1>8. CASE Roster[s].gated
    <2> DEFINE O == OpenSince(t)
               o == Cardinality(O)
               d1 == Evidence!Ny(f1)
               d2 == Evidence!Ny(f2)
               d3 == Evidence!Ny(f3)
    <2>1. IsFiniteSet(O) /\ o \in Nat /\ hour - t - TicksADay * Evidence!ClosedSince(s, t) = TicksADay * o + Off(hour) - Off(t)
      BY <1>0, <1>3, <1>6, <1>8, AgeIs
    <2>2. Off(hour) \in 0..(TicksADay - 1) /\ Off(t) \in 0..(TicksADay - 1)  BY <1>0, <1>3, DayIs
    <2>3. d1 \in Int /\ d2 \in Int /\ d3 \in Int /\ Evidence!Ny(t) \in Int /\ Evidence!Ny(hour) \in Int /\ Evidence!Ny(f) \in Int
      BY <1>0, <1>2, <1>3, DayIs
    <2>4. Evidence!Ny(t) <= Evidence!Ny(f)  BY <1>2, <1>3, <1>6, DaysFollow
    <2>5. Evidence!Ny(f) < d1 /\ d1 < d2 /\ d2 < d3  BY FiresApart
    <2>6. d3 <= Evidence!Ny(hour)  BY <1>0, <1>2, DaysFollow
    <2>7. d1 \in OpenDates /\ d2 \in OpenDates /\ d3 \in OpenDates  BY <1>8 DEF Fire, Evidence!Owed
    <2>8. {d1, d2, d3} \in SUBSET O
      <3>1. d1 \in O /\ d2 \in O /\ d3 \in O  BY <2>3, <2>4, <2>5, <2>6, <2>7 DEF OpenSince
      <3> QED  BY <3>1
    <2> HIDE DEF O, d1, d2, d3
    <2>9. Cardinality({d1, d2, d3}) = 3
      <3>1. IsFiniteSet({d1}) /\ Cardinality({d1}) = 1  BY FS_Singleton
      <3>2. d2 \notin {d1} /\ d3 \notin {d1, d2}  BY <2>3, <2>5
      <3>a. \A S, x : IsFiniteSet(S) /\ x \notin S
                      => IsFiniteSet(S \cup {x}) /\ Cardinality(S \cup {x}) = Cardinality(S) + 1
        BY FS_AddElement, Zenon
      <3>3. IsFiniteSet({d1} \cup {d2}) /\ Cardinality({d1} \cup {d2}) = 1 + 1  BY <3>1, <3>2, <3>a
      <3>4. {d1} \cup {d2} = {d1, d2} /\ {d1, d2} \cup {d3} = {d1, d2, d3}  OBVIOUS
      <3>5. IsFiniteSet({d1, d2}) /\ Cardinality({d1, d2}) = 2  BY <3>3, <3>4
      <3>6. Cardinality({d1, d2} \cup {d3}) = 2 + 1  BY <3>2, <3>5, <3>a
      <3> QED  BY <3>4, <3>6
    <2>10. o >= 3
      <3>1. Cardinality({d1, d2, d3}) <= o  BY <2>1, <2>8, FS_Subset
      <3> QED  BY <2>1, <2>9, <3>1
    <2> HIDE DEF o
    <2>11. TicksADay * o >= 3 * TicksADay /\ TicksADay * o \in Int
      <3>1. TicksADay * o \in Int /\ TicksADay * 2 = 2 * TicksADay  BY <1>0, <2>1
      <3>2. TicksADay * 2 + TicksADay <= TicksADay * o  BY <1>0, <2>1, <2>10, Spacing
      <3> QED  BY <1>0, <3>1, <3>2
    <2>12. limit = 2 * TicksADay  BY <1>1, <1>8
    <2>13. TicksADay * o + Off(hour) - Off(t) > limit  BY <1>0, <2>2, <2>11, <2>12
    <2> QED  BY <2>1, <2>13
  <1> QED  BY <1>0, <1>7, <1>8

\* What the doctor says of the watched slot.
LEMMA StopsMeans ==
    ASSUME SlotAssumption, RosterAssumption, WatchInv, NEW s \in Evidence!Names PROVE Evidence!StopsTold(s)
  <1> DEFINE F == Evidence!OwedFires(s)
             settled == {f \in F : f + Roster[s].lag + 1 < hour}
             fourth == {f \in F : Cardinality({g \in F : g > f}) = 3}
  <1>0. hour \in Nat /\ Roster[s].lag \in Nat /\ got[s] \in Int  BY WatchTypes
  <1>1. \A t : t \in F <=> Fire(s, t) /\ t <= hour  BY <1>0, OwedIs
  <1>2. F \in SUBSET (0..hour)  BY DEF Evidence!OwedFires, Evidence!Seen, Evidence!Fires
  <1>3. Evidence!StopsTold(s) <=>
          (Roster[s].limit > 0 =>
             /\ settled # {} /\ noted[s] >= Max(settled) => ~Evidence!Stale(s, TRUE)
             /\ fourth # {} /\ got[s] < Max(fourth) => Evidence!Stale(s, TRUE))
    BY SameMax, SameCardinality DEF Evidence!StopsTold
  <1> SUFFICES ASSUME Roster[s].limit > 0
               PROVE  /\ settled # {} /\ noted[s] >= Max(settled) => ~Evidence!Stale(s, TRUE)
                      /\ fourth # {} /\ got[s] < Max(fourth) => Evidence!Stale(s, TRUE)
    BY <1>3
  <1>4. Roster[s].lag = 0  BY WatchTypes DEF RosterAssumption
  <1> HIDE DEF F
  <1>5. F \in SUBSET Int
    <2>1. \A e \in 0..hour : e \in Int  OBVIOUS
    <2> QED  BY <1>2, <2>1, Zenon
  <1>6. IsFiniteSet(F)
    <2>1. 0 \in Int /\ hour \in Int  BY <1>0
    <2>2. IsFiniteSet(0..hour)  BY <2>1, FS_Interval
    <2> QED  BY <1>2, <2>2, FS_Subset
  <1>7. ASSUME settled # {}, noted[s] >= Max(settled) PROVE ~Evidence!Stale(s, TRUE)
    <2>1. settled \in SUBSET F  OBVIOUS
    <2>2. \A t : t \in settled <=> Fire(s, t) /\ t + 1 < hour
      <3>1. \A t : t \in settled <=> Fire(s, t) /\ t <= hour /\ t + 0 + 1 < hour  BY <1>1, <1>4
      <3>2. \A t \in Nat : t + 0 + 1 < hour => t <= hour /\ t + 1 < hour  BY <1>0
      <3>3. \A t \in Nat : t + 1 < hour => t <= hour /\ t + 0 + 1 < hour  BY <1>0
      <3> QED  BY <3>1, <3>2, <3>3 DEF Fire
    <2> HIDE DEF settled
    <2>3. settled \in SUBSET Int  BY <1>5, <2>1
    <2>4. IsFiniteSet(settled)  BY <1>6, <2>1, FS_Subset
    <2> DEFINE m == Max(settled)
    <2>5. m \in settled /\ \A e \in settled : e <= m  BY <1>7, <2>3, <2>4, MaxIsGreatest
    <2>6. noted[s] >= m  BY <1>7
    <2> HIDE DEF m
    <2>7. Fire(s, m) /\ m + 1 < hour /\ m \in Nat  BY <2>2, <2>5 DEF Fire
    <2>8. \A g \in Nat : Fire(s, g) /\ g + 1 < hour => g <= m  BY <2>2, <2>5
    <2> QED  BY <2>6, <2>7, <2>8, NotStale
  <1>8. ASSUME fourth # {}, got[s] < Max(fourth) PROVE Evidence!Stale(s, TRUE)
    <2>1. fourth \in SUBSET F  OBVIOUS
    <2>2. \A f \in fourth : Cardinality({g \in F : g > f}) = 3  OBVIOUS
    <2> HIDE DEF fourth
    <2>3. fourth \in SUBSET Int  BY <1>5, <2>1
    <2>4. IsFiniteSet(fourth)  BY <1>6, <2>1, FS_Subset
    <2> DEFINE f == Max(fourth)
               G == {g \in F : g > f}
    <2>5. f \in fourth  BY <1>8, <2>3, <2>4, MaxIsGreatest
    <2>6. got[s] < f  BY <1>8
    <2> HIDE DEF f
    <2>7. Fire(s, f)  BY <1>1, <2>1, <2>5
    <2>8. Cardinality(G) = 3  BY <2>2, <2>5
    <2>9. \A g \in G : g \in Int /\ Fire(s, g) /\ g <= hour /\ f < g  BY <1>1, <1>5
    <2>10. G \in SUBSET F  OBVIOUS
    <2> HIDE DEF G
    <2>11. G \in SUBSET Int  BY <2>9
    <2>12. IsFiniteSet(G)  BY <1>6, <2>10, FS_Subset
    <2>13. \A n \in 1..3 : \E e \in G : Cardinality(Upto(G, e)) = n  BY <2>8, <2>11, <2>12, RankExists
    <2>14. PICK e1 \in G : Cardinality(Upto(G, e1)) = 1  BY <2>13
    <2>15. PICK e2 \in G : Cardinality(Upto(G, e2)) = 2  BY <2>13
    <2>16. PICK e3 \in G : Cardinality(Upto(G, e3)) = 3  BY <2>13
    <2>17. ASSUME NEW c \in G, NEW d \in G, Cardinality(Upto(G, c)) \in Int, Cardinality(Upto(G, d)) \in Int,
                  Cardinality(Upto(G, c)) < Cardinality(Upto(G, d))
           PROVE  c < d
      <3> SUFFICES ASSUME ~(c < d) PROVE FALSE  OBVIOUS
      <3>1. c \in Int /\ d \in Int  BY <2>9
      <3>2. c # d  BY <2>17
      <3>3. d < c  BY <3>1, <3>2
      <3>4. Cardinality(Upto(G, d)) < Cardinality(Upto(G, c))  BY <2>11, <2>12, <3>1, <3>3, RankGrows
      <3> QED  BY <2>17, <3>4
    <2>18. e1 < e2  BY <2>14, <2>15, <2>17
    <2>19. e2 < e3  BY <2>15, <2>16, <2>17
    <2>20. /\ Fire(s, e1) /\ Fire(s, e2) /\ Fire(s, e3) /\ f < e1 /\ e3 <= hour
      BY <2>9
    <2> QED  BY <2>6, <2>7, <2>18, <2>19, <2>20, IsStale
  <1> QED  BY <1>7, <1>8

\* The invariant says what the run checks.
LEMMA WatchMeans == ASSUME SlotAssumption, RosterAssumption, WatchInv PROVE Evidence!StoppedIsFound
  <1>1. watched \in Evidence!Names  BY WatchTypes
  <1>2. Evidence!StopsTold(watched)  BY <1>1, StopsMeans
  <1> QED  BY <1>2, MissesMeans, VerdictMeans DEF Evidence!StoppedIsFound

-----------------------------------------------------------------------------
(* The report.  Reads come in chains: one that leaves the transaction aborted when it fails *)
(* is followed by its heir, which is blamed with it, and the last of a chain mends what it  *)
(* breaks.  So an aborted transaction reaches no read that was not to blame (doctor.py).    *)

\* A read of the script.
Reading == [name: Doctor!Names, limit: {0, 20, 25, 30, 60, 120}, mends: BOOLEAN, commits: BOOLEAN,
            sinks: BOOLEAN, unless: SUBSET Doctor!Names]

\* The read after one that leaves the transaction aborted: it is made whatever was unread,
\* and it is one that is blamed with it, or one no check hangs on.
Heir(r, q) ==
    /\ q.unless = {} /\ q.name # "evidence"
    /\ \/ r.name = "trading" /\ (q.sinks \/ (q.mends /\ q.name \in {"stored", "cached"}))
       \/ r.name = "optionable" /\ q.name = "chain_day"
       \/ r.name = "chain_day" /\ q.name = "live" /\ q.mends

\* All reads but the last are sound: they mend what they break, or an heir comes next.
Linked(s) ==
    /\ s \in Seq(Reading) /\ Len(s) > 0
    /\ \A i \in 1..(Len(s) - 1) : s[i].mends \/ Heir(s[i], s[i + 1])

\* The last read mends what it breaks.
Ends(s) == s[Len(s)].mends

\* Two scripts after one another are linked when the first mends, or its last read has an heir.
LEMMA Chained ==
    ASSUME NEW s, NEW t, Linked(s), Linked(t), Ends(s) \/ Heir(s[Len(s)], t[1])
    PROVE  Linked(s \o t) /\ (Ends(t) => Ends(s \o t))
  <1> USE DEF Linked
  <1>1. /\ s \o t \in Seq(Reading) /\ Len(s \o t) = Len(s) + Len(t)
        /\ Len(s) \in Nat /\ Len(t) \in Nat
    BY DEF Linked
  <1>2. \A i \in 1..(Len(s) + Len(t)) : (s \o t)[i] = IF i <= Len(s) THEN s[i] ELSE t[i - Len(s)]
    BY DEF Linked
  <1>3. ASSUME NEW i \in 1..(Len(s \o t) - 1)
        PROVE  (s \o t)[i].mends \/ Heir((s \o t)[i], (s \o t)[i + 1])
    <2>1. i \in 1..(Len(s) + Len(t)) /\ i + 1 \in 1..(Len(s) + Len(t))  BY <1>1
    <2>2. CASE i < Len(s)
      <3>1. (s \o t)[i] = s[i] /\ (s \o t)[i + 1] = s[i + 1] /\ i \in 1..(Len(s) - 1)
        BY <1>1, <1>2, <2>1, <2>2
      <3> QED  BY <3>1
    <2>3. CASE i = Len(s)
      <3>1. (s \o t)[i] = s[Len(s)] /\ (s \o t)[i + 1] = t[1]  BY <1>1, <1>2, <2>1, <2>3
      <3> QED  BY <3>1 DEF Ends
    <2>4. CASE i > Len(s)
      <3>1. /\ (s \o t)[i] = t[i - Len(s)] /\ (s \o t)[i + 1] = t[(i - Len(s)) + 1]
            /\ i - Len(s) \in 1..(Len(t) - 1)
        BY <1>1, <1>2, <2>1, <2>4
      <3> QED  BY <3>1
    <2> QED  BY <1>1, <2>2, <2>3, <2>4
  <1>4. (s \o t)[Len(s \o t)] = t[Len(t)]  BY <1>1, <1>2
  <1> QED  BY <1>1, <1>3, <1>4 DEF Ends

\* A read that mends what it breaks, alone or with others of its kind.
Sound(r) == r \in Reading /\ r.mends

\* What is made of the name of a read is a read, of that name and blamed for itself.
LEMMA Built == \A n \in Doctor!Names :
           /\ Doctor!Read(n) \in Reading /\ Doctor!Read(n).mends /\ Doctor!Read(n).name = n /\ Doctor!Read(n).unless = {}
           /\ Doctor!Unmended(Doctor!Read(n)) \in Reading /\ Doctor!Unmended(Doctor!Read(n)).name = n
           /\ Doctor!Unmended(Doctor!Read(n)).unless = {}
           /\ Doctor!Sinking(Doctor!Read(n)) \in Reading /\ Doctor!Sinking(Doctor!Read(n)).sinks /\ Doctor!Sinking(Doctor!Read(n)).mends
           /\ Doctor!Sinking(Doctor!Read(n)).unless = {} /\ Doctor!Sinking(Doctor!Read(n)).name = n
           /\ Doctor!Committed(Doctor!Read(n)) \in Reading /\ Doctor!Committed(Doctor!Read(n)).mends
           /\ Doctor!Committed(Doctor!Read(n)).unless = {} /\ Doctor!Committed(Doctor!Read(n)).name = n
  BY DEF Doctor!Read, Doctor!Unmended, Doctor!Sinking, Doctor!Committed, Reading

\* A read that mends still does when it is left out, given another limit or committed.
LEMMA Varied ==
    ASSUME NEW r, Sound(r)
    PROVE  /\ \A U \in SUBSET Doctor!Names : Sound(Doctor!Unless(U, r))
           /\ \A sec \in {20, 25, 30, 60, 120} : Sound(Doctor!Within(sec, r))
           /\ Sound(Doctor!Committed(r))
  BY DEF Sound, Doctor!Unless, Doctor!Within, Doctor!Committed, Reading

\* Scripts of one to five reads.
LEMMA One == ASSUME NEW a \in Reading PROVE Linked(<<a>>) /\ (a.mends => Ends(<<a>>))
  BY DEF Linked, Ends
\* Two reads that mend what they break.
LEMMA Two ==
    ASSUME NEW a, NEW b, Sound(a), Sound(b) PROVE Linked(<<a, b>>) /\ Ends(<<a, b>>)
  BY DEF Linked, Ends, Sound
\* Three of them.
LEMMA Three ==
    ASSUME NEW a, NEW b, NEW c, Sound(a), Sound(b), Sound(c)
    PROVE  Linked(<<a, b, c>>) /\ Ends(<<a, b, c>>)
  BY DEF Linked, Ends, Sound
\* Four.
LEMMA Four ==
    ASSUME NEW a, NEW b, NEW c, NEW d, Sound(a), Sound(b), Sound(c), Sound(d)
    PROVE  Linked(<<a, b, c, d>>) /\ Ends(<<a, b, c, d>>)
  BY DEF Linked, Ends, Sound
\* And five.
LEMMA Five ==
    ASSUME NEW a, NEW b, NEW c, NEW d, NEW e, Sound(a), Sound(b), Sound(c), Sound(d), Sound(e)
    PROVE  Linked(<<a, b, c, d, e>>) /\ Ends(<<a, b, c, d, e>>)
  BY DEF Linked, Ends, Sound

\* A read that is made of its name alone mends.
LEMMA Bare == \A n \in Doctor!Names : Sound(Doctor!Read(n)) /\ Sound(Doctor!Sinking(Doctor!Read(n)))
  BY Built DEF Sound

\* Reads that leave nothing aborted, one after the other.
LEMMA Joined ==
    ASSUME NEW s, NEW t, Linked(s), Ends(s), Linked(t), Ends(t)
    PROVE  Linked(s \o t) /\ Ends(s \o t)
  BY Chained

\* The blocks of the script are linked, each for itself.
LEMMA SessionsLinked ==
    ASSUME NEW evening \in BOOLEAN, NEW platform \in BOOLEAN
    PROVE  Linked(Doctor!SessionReads(evening) \o Doctor!WatchReads(platform))
           /\ Ends(Doctor!SessionReads(evening) \o Doctor!WatchReads(platform))
  <1> DEFINE q == Doctor!Unmended(Doctor!Read("trading"))
             w == Doctor!Sinking(Doctor!Read("completed"))
  <1>0. "trading" \in Doctor!Names /\ "completed" \in Doctor!Names /\ "stored" \in Doctor!Names /\ "cached" \in Doctor!Names
    BY DEF Doctor!Names
  <1>1. q \in Reading /\ q.name = "trading"  BY <1>0, Built
  <1>2. PICK r \in Reading : /\ Doctor!WatchReads(platform) = <<r>> /\ r.mends /\ r.unless = {}
                             /\ r.name = "stored" \/ r.name = "cached"
    <2>1. CASE platform
      <3>1. Doctor!WatchReads(platform) = <<Doctor!Committed(Doctor!Read("stored"))>>
        BY <2>1 DEF Doctor!WatchReads, Doctor!Stored
      <3> QED  BY <1>0, <3>1, Built
    <2>2. CASE ~platform
      <3>1. Doctor!WatchReads(platform) = <<Doctor!Read("cached")>>  BY <2>2 DEF Doctor!WatchReads
      <3> QED  BY <1>0, <3>1, Built
    <2> QED  BY <2>1, <2>2
  <1>3. Linked(<<r>>) /\ Ends(<<r>>)  BY <1>2, One
  <1>4. Linked(<<q>>)  BY <1>1, One
  <1>5. \A a : <<a>>[1] = a /\ <<a>>[Len(<<a>>)] = a  OBVIOUS
  <1>6. CASE evening
    <2>1. Doctor!SessionReads(evening) = <<q>>  BY <1>6 DEF Doctor!SessionReads
    <2> HIDE DEF q
    <2>2. "trading" = "trading" /\ q.name = "trading" /\ Heir(q, r)  BY <1>1, <1>2 DEF Heir
    <2> QED  BY <1>2, <1>3, <1>4, <1>5, <2>1, <2>2, Chained
  <1>7. CASE ~evening
    <2>1. Doctor!SessionReads(evening) = <<q>> \o <<w>>  BY <1>7 DEF Doctor!SessionReads
    <2>2. w \in Reading /\ w.sinks /\ w.mends /\ w.unless = {} /\ w.name = "completed"
      BY <1>0, Built
    <2>3. Linked(<<w>>) /\ Ends(<<w>>)  BY <2>2, One
    <2> HIDE DEF q, w
    <2>4. Heir(q, w)  BY <1>1, <2>2 DEF Heir
    <2>5. Linked(<<q>> \o <<w>>) /\ Ends(<<q>> \o <<w>>)
      BY <1>4, <1>5, <2>3, <2>4, Chained
    <2> QED  BY <1>2, <1>3, <2>1, <2>5, Joined
  <1> QED  BY <1>6, <1>7

\* The reads of the chain, after the one that lists the names with options.
LEMMA ChainLinked ==
    Linked(Doctor!Optionable \o Doctor!ChainReads) /\ Ends(Doctor!Optionable \o Doctor!ChainReads)
  <1> DEFINE o == Doctor!Unmended(Doctor!Read("optionable"))
             c == Doctor!Unmended(Doctor!Read("chain_day"))
             l == Doctor!Read("live")
             a == Doctor!Read("snap")
             b == Doctor!Read("oi")
  <1>0. /\ "optionable" \in Doctor!Names /\ "chain_day" \in Doctor!Names /\ "live" \in Doctor!Names
        /\ "snap" \in Doctor!Names /\ "oi" \in Doctor!Names
    BY DEF Doctor!Names
  <1>1. /\ o \in Reading /\ o.name = "optionable"
        /\ c \in Reading /\ c.name = "chain_day" /\ c.unless = {}
        /\ l \in Reading /\ l.name = "live" /\ l.unless = {} /\ l.mends
        /\ a \in Reading /\ a.mends /\ b \in Reading /\ b.mends
    BY <1>0, Built
  <1>2. Doctor!Optionable = <<o>> /\ Doctor!ChainReads = <<c, l, a, b>>
    BY DEF Doctor!Optionable, Doctor!ChainReads
  <1> HIDE DEF o, c, l, a, b
  <1>3. Heir(o, c) /\ Heir(c, l)
    <2>1. c.name # "evidence"  BY <1>1
    <2>2. l.name # "evidence"  BY <1>1
    <2> QED  BY <1>1, <2>1, <2>2 DEF Heir
  <1>4. Linked(<<o>>) /\ <<o>>[Len(<<o>>)] = o  BY <1>1, One
  <1>5. Linked(<<c, l, a, b>>) /\ Ends(<<c, l, a, b>>)
    BY <1>1, <1>3 DEF Linked, Ends
  <1>6. <<c, l, a, b>>[1] = c  OBVIOUS
  <1> QED  BY <1>2, <1>3, <1>4, <1>5, <1>6, Chained

\* The blocks on names, stocks and fundamentals.
LEMMA GroupsLinked ==
    /\ Linked(Doctor!UniverseReads) /\ Ends(Doctor!UniverseReads)
    /\ Linked(Doctor!WindowedReads) /\ Ends(Doctor!WindowedReads)
    /\ Linked(Doctor!SpotReads) /\ Ends(Doctor!SpotReads)
    /\ Linked(Doctor!DegradedReads) /\ Ends(Doctor!DegradedReads)
    /\ Linked(Doctor!StockReads) /\ Ends(Doctor!StockReads)
    /\ Linked(Doctor!FundamentalReads) /\ Ends(Doctor!FundamentalReads)
  <1>0. /\ "universe" \in Doctor!Names /\ "windowed_snap" \in Doctor!Names /\ "windowed_oi" \in Doctor!Names
        /\ "live" \in Doctor!Names /\ "snap" \in Doctor!Names /\ "oi" \in Doctor!Names
        /\ "spot" \in Doctor!Names /\ "base_days" \in Doctor!Names /\ "degraded" \in Doctor!Names
        /\ "daily" \in Doctor!Names /\ "listed" \in Doctor!Names /\ "stock_snapshot" \in Doctor!Names
        /\ "cached" \in Doctor!Names
        /\ "ratios_day" \in Doctor!Names /\ "ratios" \in Doctor!Names /\ "short" \in Doctor!Names
        /\ "ratios_floor" \in Doctor!Names /\ "short_floor" \in Doctor!Names
    BY DEF Doctor!Names
  <1>1. Linked(Doctor!UniverseReads) /\ Ends(Doctor!UniverseReads)
    BY <1>0, Bare, One DEF Doctor!UniverseReads, Sound
  <1>2. Linked(Doctor!WindowedReads) /\ Ends(Doctor!WindowedReads)
    <2> DEFINE U == {"universe", "live", "snap", "oi"}
    <2>1. U \in SUBSET Doctor!Names  BY <1>0
    <2> HIDE DEF U
    <2>2. Sound(Doctor!Unless(U, Doctor!Read("windowed_snap"))) /\ Sound(Doctor!Unless(U, Doctor!Read("windowed_oi")))
      BY <1>0, <2>1, Bare, Varied
    <2> QED  BY <2>2, Two DEF Doctor!WindowedReads, U
  <1>3. Linked(Doctor!SpotReads) /\ Ends(Doctor!SpotReads)
    <2>1. Sound(Doctor!Within(20, Doctor!Read("spot")))  BY <1>0, Bare, Varied
    <2> QED  BY <2>1, One DEF Doctor!SpotReads, Sound
  <1>4. Linked(Doctor!DegradedReads) /\ Ends(Doctor!DegradedReads)
    <2>1. Sound(Doctor!Within(25, Doctor!Read("degraded")))  BY <1>0, Bare, Varied
    <2>2. {"base_days"} \in SUBSET Doctor!Names  BY <1>0
    <2>3. Sound(Doctor!Unless({"base_days"}, Doctor!Within(25, Doctor!Read("degraded"))))
      BY <2>1, <2>2, Varied
    <2> QED  BY <1>0, <2>3, Bare, Two DEF Doctor!DegradedReads
  <1>5. Linked(Doctor!StockReads) /\ Ends(Doctor!StockReads)
    <2>1. {"cached"} \in SUBSET Doctor!Names  BY <1>0
    <2>2. Sound(Doctor!Unless({"cached"}, Doctor!Read("listed")))  BY <1>0, <2>1, Bare, Varied
    <2> QED  BY <1>0, <2>2, Bare, Three DEF Doctor!StockReads
  <1>6. Linked(Doctor!FundamentalReads) /\ Ends(Doctor!FundamentalReads)
    BY <1>0, Bare, Five DEF Doctor!FundamentalReads
  <1> QED  BY <1>1, <1>2, <1>3, <1>4, <1>5, <1>6

\* The blocks on slots, the queue, continuity and depth.
LEMMA LaterGroupsLinked ==
    /\ Linked(Doctor!SlotReads) /\ Ends(Doctor!SlotReads)
    /\ Linked(Doctor!FailedReads) /\ Ends(Doctor!FailedReads)
    /\ Linked(Doctor!QueueReads) /\ Ends(Doctor!QueueReads)
    /\ Linked(Doctor!ContinuityReads) /\ Ends(Doctor!ContinuityReads)
    /\ Linked(Doctor!DepthReads) /\ Ends(Doctor!DepthReads)
  <1>0. /\ "fresh" \in Doctor!Names /\ "evidence" \in Doctor!Names /\ "closed" \in Doctor!Names
        /\ "samples" \in Doctor!Names /\ "failed_rows" \in Doctor!Names
        /\ "runway" \in Doctor!Names /\ "stuck" \in Doctor!Names /\ "pages" \in Doctor!Names
        /\ "sessions" \in Doctor!Names /\ "presence" \in Doctor!Names /\ "width" \in Doctor!Names
        /\ "other_presence" \in Doctor!Names /\ "depth_universe" \in Doctor!Names /\ "planned" \in Doctor!Names
        /\ "oldest" \in Doctor!Names /\ "empty" \in Doctor!Names
    BY DEF Doctor!Names
  <1>1. Linked(Doctor!SlotReads) /\ Ends(Doctor!SlotReads)
    <2>1. Sound(Doctor!Within(20, Doctor!Read("evidence")))  BY <1>0, Bare, Varied
    <2> QED  BY <1>0, <2>1, Bare, Three DEF Doctor!SlotReads
  <1>2. Linked(Doctor!FailedReads) /\ Ends(Doctor!FailedReads)
    BY <1>0, Bare, Two DEF Doctor!FailedReads
  <1>3. Linked(Doctor!QueueReads) /\ Ends(Doctor!QueueReads)
    BY <1>0, Bare, Three DEF Doctor!QueueReads
  <1>4. Linked(Doctor!ContinuityReads) /\ Ends(Doctor!ContinuityReads)
    <2> DEFINE Dated(n) == Doctor!Unless({"sessions"}, Doctor!Within(30, Doctor!Read(n)))
    <2>1. {"sessions"} \in SUBSET Doctor!Names /\ {"sessions", "presence"} \in SUBSET Doctor!Names
      BY <1>0
    <2>2. \A n \in Doctor!Names : Sound(Dated(n))
      <3>1. \A n \in Doctor!Names : Sound(Doctor!Within(30, Doctor!Read(n)))  BY Bare, Varied
      <3> QED  BY <2>1, <3>1, Varied
    <2> HIDE DEF Dated
    <2>3. Sound(Doctor!Unless({"sessions", "presence"}, Dated("width")))
      BY <1>0, <2>1, <2>2, Varied
    <2>4. Doctor!ContinuityReads = <<Doctor!Read("sessions"), Dated("presence"),
             Doctor!Unless({"sessions", "presence"}, Dated("width")), Dated("other_presence")>>
      BY DEF Doctor!ContinuityReads, Dated
    <2> QED  BY <1>0, <2>2, <2>3, <2>4, Bare, Four
  <1>5. Linked(Doctor!DepthReads) /\ Ends(Doctor!DepthReads)
    <2>1. {"oldest"} \in SUBSET Doctor!Names  BY <1>0
    <2>2. Sound(Doctor!Within(120, Doctor!Read("oldest"))) /\ Sound(Doctor!Within(60, Doctor!Read("empty")))
      BY <1>0, Bare, Varied
    <2>3. Sound(Doctor!Committed(Doctor!Within(120, Doctor!Read("oldest"))))
          /\ Sound(Doctor!Committed(Doctor!Within(60, Doctor!Read("empty"))))
      BY <2>2, Varied
    <2>4. Sound(Doctor!Unless({"oldest"}, Doctor!Committed(Doctor!Within(60, Doctor!Read("empty")))))
      BY <2>1, <2>3, Varied
    <2> QED  BY <1>0, <2>3, <2>4, Bare, Four DEF Doctor!DepthReads
  <1> QED  BY <1>1, <1>2, <1>3, <1>4, <1>5

\* Three sequences after one another.
LEMMA Associated ==
    ASSUME NEW a \in Seq(Reading), NEW b \in Seq(Reading), NEW c \in Seq(Reading)
    PROVE  (a \o b) \o c = a \o (b \o c)
  OBVIOUS

\* However the report is made, its reads are linked, and the last of them mends.
LEMMA ScriptLinked ==
    ASSUME NEW evening \in BOOLEAN, NEW platform \in BOOLEAN
    PROVE  Linked(Doctor!Script(evening, platform)) /\ Ends(Doctor!Script(evening, platform))
  <1> DEFINE a == (Doctor!SessionReads(evening) \o Doctor!WatchReads(platform)) \o Doctor!UniverseReads
             b == a \o (Doctor!Optionable \o Doctor!ChainReads)
  <1>1. Linked(a) /\ Ends(a)  BY SessionsLinked, GroupsLinked, Joined
  <1>2. a \in Seq(Reading) /\ Doctor!Optionable \in Seq(Reading) /\ Doctor!ChainReads \in Seq(Reading)
    <2>1. Doctor!Optionable \in Seq(Reading) /\ Doctor!ChainReads \in Seq(Reading)
      <3>0. /\ "optionable" \in Doctor!Names /\ "chain_day" \in Doctor!Names /\ "live" \in Doctor!Names
            /\ "snap" \in Doctor!Names /\ "oi" \in Doctor!Names
        BY DEF Doctor!Names
      <3> QED  BY <3>0, Built DEF Doctor!Optionable, Doctor!ChainReads
    <2> QED  BY <1>1, <2>1 DEF Linked
  <1>3. b = (a \o Doctor!Optionable) \o Doctor!ChainReads
    <2> HIDE DEF a
    <2> QED  BY <1>2
  <1>4. Linked(b) /\ Ends(b)  BY <1>1, ChainLinked, Joined
  <1> DEFINE c == b \o Doctor!WindowedReads \o Doctor!SpotReads \o Doctor!DegradedReads
             d == c \o Doctor!StockReads \o Doctor!FundamentalReads
             e == d \o Doctor!SlotReads \o Doctor!FailedReads \o Doctor!QueueReads
             t == e \o Doctor!ContinuityReads \o Doctor!DepthReads
  <1>5. Linked(c) /\ Ends(c)
    <2>1. Linked(b \o Doctor!WindowedReads) /\ Ends(b \o Doctor!WindowedReads)
      BY <1>4, GroupsLinked, Joined
    <2>2. Linked(b \o Doctor!WindowedReads \o Doctor!SpotReads) /\ Ends(b \o Doctor!WindowedReads \o Doctor!SpotReads)
      BY <2>1, GroupsLinked, Joined
    <2> QED  BY <2>2, GroupsLinked, Joined
  <1>6. Linked(d) /\ Ends(d)
    <2>1. Linked(c \o Doctor!StockReads) /\ Ends(c \o Doctor!StockReads)
      BY <1>5, GroupsLinked, Joined
    <2> QED  BY <2>1, GroupsLinked, Joined
  <1>7. Linked(e) /\ Ends(e)
    <2>1. Linked(d \o Doctor!SlotReads) /\ Ends(d \o Doctor!SlotReads)
      BY <1>6, LaterGroupsLinked, Joined
    <2>2. Linked(d \o Doctor!SlotReads \o Doctor!FailedReads) /\ Ends(d \o Doctor!SlotReads \o Doctor!FailedReads)
      BY <2>1, LaterGroupsLinked, Joined
    <2> QED  BY <2>2, LaterGroupsLinked, Joined
  <1>8. Linked(t) /\ Ends(t)
    <2>1. Linked(e \o Doctor!ContinuityReads) /\ Ends(e \o Doctor!ContinuityReads)
      BY <1>7, LaterGroupsLinked, Joined
    <2> QED  BY <2>1, LaterGroupsLinked, Joined
  <1>9. Doctor!Script(evening, platform) = t
    BY <1>3, Zenon DEF Doctor!Script
  <1> QED  BY <1>8, <1>9

\* What is left when the first read is over is linked as well.
LEMMA TailLinked ==
    ASSUME NEW s, Linked(s), Ends(s), Len(s) # 1
    PROVE  /\ Linked(Tail(s)) /\ Ends(Tail(s))
           /\ Tail(s)[1] = s[2] /\ (s[1].mends \/ Heir(s[1], s[2]))
  <1>1. s \in Seq(Reading) /\ Len(s) \in Nat /\ Len(s) > 1 /\ Tail(s) \in Seq(Reading)
        /\ Len(Tail(s)) = Len(s) - 1
    <2>1. s \in Seq(Reading) /\ Len(s) > 0  BY DEF Linked
    <2>2. Len(s) \in Nat /\ s # << >>  BY <2>1, EmptySeq
    <2> QED  BY <2>1, <2>2, HeadTailProperties
  <1>2. \A i \in 1..(Len(s) - 1) : Tail(s)[i] = s[i + 1]
    BY <1>1
  <1>3. ASSUME NEW i \in 1..(Len(Tail(s)) - 1)
        PROVE  Tail(s)[i].mends \/ Heir(Tail(s)[i], Tail(s)[i + 1])
    <2>1. i \in 1..(Len(s) - 1) /\ i + 1 \in 1..(Len(s) - 1)  BY <1>1
    <2>2. Tail(s)[i] = s[i + 1] /\ Tail(s)[i + 1] = s[(i + 1) + 1]  BY <1>2, <2>1
    <2> QED  BY <2>1, <2>2 DEF Linked
  <1>4. Tail(s)[Len(Tail(s))] = s[Len(s)]  BY <1>1, <1>2
  <1>5. Tail(s)[1] = s[2] /\ (s[1].mends \/ Heir(s[1], s[2]))
    <2>1. 1 \in 1..(Len(s) - 1)  BY <1>1
    <2>2. Tail(s)[1] = s[1 + 1]  BY <1>2, <2>1
    <2> QED  BY <2>1, <2>2 DEF Linked
  <1> QED  BY <1>1, <1>3, <1>4, <1>5 DEF Linked, Ends

-----------------------------------------------------------------------------
\* Reads no check hangs on.
Unhung == {"stored", "completed", "chain_day"}

\* The read an aborted transaction meets is one that is blamed with the read before it.
Inherits(r, F) ==
    /\ r.unless = {} /\ r.name # "evidence"
    /\ \/ r.sinks
       \/ r.mends /\ r.name = "stored"
       \/ r.mends /\ r.name = "cached" /\ "trading" \in F
       \/ r.name = "chain_day" /\ "optionable" \in F
       \/ r.mends /\ r.name = "live" /\ F \cap {"optionable", "chain_day"} # {}

\* The inductive invariant of the report: what is left to read is linked, what is unread is
\* blamed on a fault, and an aborted transaction meets a read that is blamed for it.
ReadsInv ==
    /\ Doctor!TypeOK
    /\ report = "making" => Linked(left) /\ Ends(left)
    /\ report # "none" => unread \subseteq Doctor!Blamed(at_fault) \cup Unhung
    /\ report = "making" /\ aborted => Inherits(left[1], at_fault)

\* A report that is not made yet has nothing unread.
LEMMA ReadsInit == Doctor!Init => ReadsInv
  <1> SUFFICES ASSUME Doctor!Init PROVE ReadsInv  OBVIOUS
  <1>1. Linked(left) /\ Ends(left)  BY ScriptLinked DEF Doctor!Init
  <1> QED  BY <1>1 DEF Doctor!Init, ReadsInv, Doctor!TypeOK, Doctor!Connection

\* What is blamed on some faults is blamed on more of them.
LEMMA BlamedGrows ==
    ASSUME NEW F, NEW G, F \subseteq G PROVE Doctor!Blamed(F) \subseteq Doctor!Blamed(G)
  <1>1. \A n : n \in Doctor!Blamed(F) <=> \/ n \in F
                                          \/ n = "cached" /\ "trading" \in F
                                          \/ n = "live" /\ \E x \in F : x \in {"optionable", "chain_day"}
    BY Zenon DEF Doctor!Blamed
  <1>2. \A n : n \in Doctor!Blamed(G) <=> \/ n \in G
                                          \/ n = "cached" /\ "trading" \in G
                                          \/ n = "live" /\ \E x \in G : x \in {"optionable", "chain_day"}
    BY Zenon DEF Doctor!Blamed
  <1> QED  BY <1>1, <1>2

\* The next read goes well, fails or runs out of time.
LEMMA StepKeeps ==
    ASSUME ReadsInv, NEW cost \in {"quick", "slow", "broken"}, Doctor!Step(cost)
    PROVE  ReadsInv'
  <1> DEFINE r == left[1]
  <1>0. /\ report = "making" /\ Linked(left) /\ Ends(left) /\ left \in Seq(Reading)
        /\ Len(left) > 0 /\ Head(left) = r /\ r \in Reading
        /\ left' = Tail(left)
        /\ at_fault' = IF cost = "quick" THEN at_fault ELSE at_fault \cup {r.name}
        /\ IF Doctor!Fails(r, cost) THEN Doctor!Leave(r) ELSE Doctor!Keep(r)
    <2>1. report = "making" /\ Linked(left) /\ Ends(left)  BY DEF Doctor!Step, ReadsInv
    <2>2. left \in Seq(Reading) /\ Len(left) > 0 /\ Len(left) \in Nat  BY <2>1 DEF Linked
    <2>3. Head(left) = r /\ r \in Reading  BY <2>2
    <2> HIDE DEF r
    <2> QED  BY <2>1, <2>2, <2>3 DEF Doctor!Step
  <1> HIDE DEF r
  <1>1. r.name \in Doctor!Names /\ r.limit \in {0, 20, 25, 30, 60, 120}  BY <1>0 DEF Reading
  <1>2. at_fault \subseteq at_fault' /\ at_fault' \subseteq Doctor!Names
    BY <1>0, <1>1 DEF ReadsInv, Doctor!TypeOK
  <1>3. Doctor!Blamed(at_fault) \subseteq Doctor!Blamed(at_fault')  BY <1>2, BlamedGrows
  <1>4. Len(left) # 1 => /\ Linked(Tail(left)) /\ Ends(Tail(left)) /\ Tail(left)[1] = left[2]
                         /\ (r.mends \/ Heir(r, left[2]))
    BY <1>0, TailLinked DEF r
  <1>5. report' # "making" \/ Len(left) # 1
    BY <1>0 DEF Doctor!Leave, Doctor!Keep
  <1>6. CASE ~Doctor!Fails(r, cost)
    <2>1. Doctor!Keep(r)  BY <1>0, <1>6
    <2>2. ~aborted /\ aborted' = aborted /\ unread' = unread
      BY <1>6, <2>1 DEF Doctor!Keep, Doctor!Fails
    <2>3. budget' \in {20, 25, 30, 60, 120} /\ report' \in {"making", "made", "none"}
      BY <1>0, <1>1, <2>1
         DEF Doctor!Keep, Doctor!InForce, Doctor!Connection, ReadsInv, Doctor!TypeOK
    <2>4. Doctor!TypeOK'  BY <1>2, <2>2, <2>3 DEF ReadsInv, Doctor!TypeOK
    <2> QED  BY <1>0, <1>3, <1>4, <1>5, <2>2, <2>4 DEF ReadsInv
  <1>7. CASE Doctor!Fails(r, cost)
    <2>1. Doctor!Leave(r)  BY <1>0, <1>7
    <2>2. Doctor!TypeOK'
      BY <1>0, <1>1, <1>2, <2>1
         DEF Doctor!Leave, Doctor!Mended, ReadsInv, Doctor!TypeOK, Doctor!Connection
    <2>3. ~aborted => r.name \in at_fault'
      BY <1>0, <1>7 DEF Doctor!Fails
    <2>4. aborted => Inherits(r, at_fault)
      BY <1>0 DEF ReadsInv, r
    <2>5. report' # "none" => ~r.sinks
      BY <2>1 DEF Doctor!Leave
    <2>6. \A n : n \in Doctor!Blamed(at_fault') <=>
                   \/ n \in at_fault'
                   \/ n = "cached" /\ "trading" \in at_fault'
                   \/ n = "live" /\ at_fault' \cap {"optionable", "chain_day"} # {}
      BY Zenon DEF Doctor!Blamed
    <2>7. report' # "none" => r.name \in Doctor!Blamed(at_fault') \cup Unhung
      <3>1. CASE ~aborted
        BY <2>3, <2>6, <3>1
      <3>2. CASE aborted
        BY <1>2, <2>4, <2>5, <2>6, <3>2 DEF Inherits, Unhung
      <3> QED  BY <3>1, <3>2
    <2>8. report' # "none" => unread' \subseteq Doctor!Blamed(at_fault') \cup Unhung
      BY <1>0, <1>3, <2>1, <2>7 DEF Doctor!Leave, ReadsInv
    <2>9. report' = "making" /\ aborted' => Inherits(left[2], at_fault')
      <3> SUFFICES ASSUME report' = "making", aborted' PROVE Inherits(left[2], at_fault')
        OBVIOUS
      <3>1. ~r.mends /\ ~r.sinks /\ Heir(r, left[2])
        BY <1>4, <1>5, <2>1, <2>5 DEF Doctor!Leave, Doctor!Mended
      <3>2. CASE ~aborted
        BY <2>3, <3>1, <3>2 DEF Heir, Inherits
      <3>3. CASE aborted
        <4>1. r.name = "chain_day" /\ "optionable" \in at_fault
          BY <2>4, <3>1, <3>3 DEF Inherits
        <4> QED  BY <1>2, <3>1, <4>1 DEF Heir, Inherits
      <3> QED  BY <3>2, <3>3
    <2> QED  BY <1>0, <1>4, <1>5, <2>2, <2>8, <2>9 DEF ReadsInv
  <1> QED  BY <1>6, <1>7

\* A read that is not made is not unread.
LEMMA SkipKeeps == ASSUME ReadsInv, Doctor!Skip PROVE ReadsInv'
  <1>0. report = "making" /\ Linked(left) /\ Ends(left) /\ left \in Seq(Reading)
        /\ Len(left) > 0 /\ Head(left) = left[1]
    <2>1. report = "making" /\ Linked(left) /\ Ends(left)  BY DEF Doctor!Skip, ReadsInv
    <2> QED  BY <2>1 DEF Linked
  <1>1. ~aborted
    BY <1>0 DEF Doctor!Skip, ReadsInv, Inherits
  <1>2. Len(left) # 1 => Linked(Tail(left)) /\ Ends(Tail(left))
    BY <1>0, TailLinked
  <1> QED  BY <1>0, <1>1, <1>2 DEF Doctor!Skip, ReadsInv, Doctor!TypeOK

\* Every step of the report.
LEMMA ReadsNext == ReadsInv /\ [Doctor!Next]_(Doctor!vars) => ReadsInv'
  <1> SUFFICES ASSUME ReadsInv, [Doctor!Next]_(Doctor!vars) PROVE ReadsInv'  OBVIOUS
  <1>1. CASE Doctor!Step("quick")  BY <1>1, StepKeeps
  <1>2. CASE Doctor!Skip  BY <1>2, SkipKeeps
  <1>3. ASSUME NEW cost \in {"slow", "broken"}, Doctor!Step(cost) PROVE ReadsInv'
    BY <1>3, StepKeeps
  <1>4. CASE UNCHANGED Doctor!vars
    BY <1>4 DEF Doctor!vars, ReadsInv, Doctor!TypeOK
  <1> QED  BY <1>1, <1>2, <1>3, <1>4 DEF Doctor!Next

-----------------------------------------------------------------------------
\* The reads B account for the reads U, but for those no check hangs on.
Covers(B, U) == U \subseteq B \cup Unhung

\* Check by check: what it says with the reads U unread it says without them, or it would say
\* something else of some data with the reads B unread alone.
LEMMA ChainApart ==
    ASSUME NEW U, NEW B, Covers(B, U), NEW bad \in BOOLEAN,
           NEW c \in DOMAIN Doctor!ChainSays({}, bad)
    PROVE  \/ Doctor!ChainSays(U, bad)[c] = Doctor!ChainSays({}, bad)[c]
           \/ \E b \in BOOLEAN : Doctor!ChainSays(B, b)[c] # Doctor!ChainSays({}, b)[c]
  <1>1. c \in {"chain", "windowed", "spot", "degraded"}  BY DEF Doctor!ChainSays
  <1>2. CASE c = "chain"
    BY <1>2 DEF Doctor!ChainSays, Doctor!Lost, Doctor!Judged, Doctor!OtherNames, Unhung, Covers
  <1>3. CASE c = "windowed"
    BY <1>3 DEF Doctor!ChainSays, Doctor!Lost, Doctor!Judged, Doctor!OtherNames, Unhung, Covers
  <1>4. CASE c = "spot"
    BY <1>4 DEF Doctor!ChainSays, Doctor!Lost, Doctor!Judged, Doctor!OtherNames, Unhung, Covers
  <1>5. CASE c = "degraded"
    BY <1>5 DEF Doctor!ChainSays, Doctor!Lost, Doctor!Judged, Doctor!OtherNames, Unhung, Covers
  <1> QED  BY <1>1, <1>2, <1>3, <1>4, <1>5

\* The checks of daily bars, the watch list and their snapshot.
LEMMA StockApart ==
    ASSUME NEW U, NEW B, Covers(B, U), NEW bad \in BOOLEAN,
           NEW c \in DOMAIN Doctor!StockSays({}, bad)
    PROVE  \/ Doctor!StockSays(U, bad)[c] = Doctor!StockSays({}, bad)[c]
           \/ \E b \in BOOLEAN : Doctor!StockSays(B, b)[c] # Doctor!StockSays({}, b)[c]
  <1>1. c \in {"daily", "watchlist", "snapshot"}  BY DEF Doctor!StockSays
  <1>2. CASE c = "daily"
    BY <1>2 DEF Doctor!StockSays, Doctor!Lost, Doctor!Judged, Doctor!OtherNames, Unhung, Covers
  <1>3. CASE c = "watchlist"
    BY <1>3 DEF Doctor!StockSays, Doctor!Lost, Doctor!Judged, Doctor!OtherNames, Unhung, Covers
  <1>4. CASE c = "snapshot"
    BY <1>4 DEF Doctor!StockSays, Doctor!Lost, Doctor!Judged, Doctor!OtherNames, Unhung, Covers
  <1> QED  BY <1>1, <1>2, <1>3, <1>4

\* The check of the fundamentals.
LEMMA FundamentalApart ==
    ASSUME NEW U, NEW B, Covers(B, U), NEW bad \in BOOLEAN,
           NEW c \in DOMAIN Doctor!FundamentalSays({}, bad)
    PROVE  \/ Doctor!FundamentalSays(U, bad)[c] = Doctor!FundamentalSays({}, bad)[c]
           \/ \E b \in BOOLEAN : Doctor!FundamentalSays(B, b)[c] # Doctor!FundamentalSays({}, b)[c]
  <1>1. c \in {"fundamentals"}  BY DEF Doctor!FundamentalSays
  <1>2. CASE c = "fundamentals"
    BY <1>2
       DEF Doctor!FundamentalSays, Doctor!Lost, Doctor!Judged, Doctor!OtherNames, Unhung, Covers
  <1> QED  BY <1>1, <1>2

\* The check of the slots.
LEMMA SlotApart ==
    ASSUME NEW U, NEW B, Covers(B, U), NEW bad \in BOOLEAN,
           NEW c \in DOMAIN Doctor!SlotSays({}, bad)
    PROVE  \/ Doctor!SlotSays(U, bad)[c] = Doctor!SlotSays({}, bad)[c]
           \/ \E b \in BOOLEAN : Doctor!SlotSays(B, b)[c] # Doctor!SlotSays({}, b)[c]
  <1>1. c \in {"slots"}  BY DEF Doctor!SlotSays
  <1>2. CASE c = "slots"
    BY <1>2 DEF Doctor!SlotSays, Doctor!Lost, Doctor!Judged, Doctor!OtherNames, Unhung, Covers
  <1> QED  BY <1>1, <1>2

\* The check of failed jobs.
LEMMA FailedApart ==
    ASSUME NEW U, NEW B, Covers(B, U), NEW bad \in BOOLEAN,
           NEW c \in DOMAIN Doctor!FailedSays({}, bad)
    PROVE  \/ Doctor!FailedSays(U, bad)[c] = Doctor!FailedSays({}, bad)[c]
           \/ \E b \in BOOLEAN : Doctor!FailedSays(B, b)[c] # Doctor!FailedSays({}, b)[c]
  <1>1. c \in {"failed"}  BY DEF Doctor!FailedSays
  <1>2. CASE c = "failed"
    BY <1>2 DEF Doctor!FailedSays, Doctor!Lost, Doctor!Judged, Doctor!OtherNames, Unhung, Covers
  <1> QED  BY <1>1, <1>2

\* The checks of the runway, of stuck jobs and of the page cap.
LEMMA QueueApart ==
    ASSUME NEW U, NEW B, Covers(B, U), NEW bad \in BOOLEAN,
           NEW c \in DOMAIN Doctor!QueueSays({}, bad)
    PROVE  \/ Doctor!QueueSays(U, bad)[c] = Doctor!QueueSays({}, bad)[c]
           \/ \E b \in BOOLEAN : Doctor!QueueSays(B, b)[c] # Doctor!QueueSays({}, b)[c]
  <1>1. c \in {"runway", "stuck", "pages"}  BY DEF Doctor!QueueSays
  <1>2. CASE c = "runway"
    BY <1>2 DEF Doctor!QueueSays, Doctor!Lost, Doctor!Judged, Doctor!OtherNames, Unhung, Covers
  <1>3. CASE c = "stuck"
    BY <1>3 DEF Doctor!QueueSays, Doctor!Lost, Doctor!Judged, Doctor!OtherNames, Unhung, Covers
  <1>4. CASE c = "pages"
    BY <1>4 DEF Doctor!QueueSays, Doctor!Lost, Doctor!Judged, Doctor!OtherNames, Unhung, Covers
  <1> QED  BY <1>1, <1>2, <1>3, <1>4

\* The checks of continuity.
LEMMA ContinuityApart ==
    ASSUME NEW U, NEW B, Covers(B, U), NEW bad \in BOOLEAN,
           NEW c \in DOMAIN Doctor!ContinuitySays({}, bad)
    PROVE  \/ Doctor!ContinuitySays(U, bad)[c] = Doctor!ContinuitySays({}, bad)[c]
           \/ \E b \in BOOLEAN : Doctor!ContinuitySays(B, b)[c] # Doctor!ContinuitySays({}, b)[c]
  <1>1. c \in {"continuity", "continuity_other"}  BY DEF Doctor!ContinuitySays
  <1>2. CASE c = "continuity"
    BY <1>2 DEF Doctor!ContinuitySays, Doctor!Lost, Doctor!Judged, Doctor!OtherNames, Unhung, Covers
  <1>3. CASE c = "continuity_other"
    BY <1>3 DEF Doctor!ContinuitySays, Doctor!Lost, Doctor!Judged, Doctor!OtherNames, Unhung, Covers
  <1> QED  BY <1>1, <1>2, <1>3

\* The check of depth.
LEMMA DepthApart ==
    ASSUME NEW U, NEW B, Covers(B, U), NEW bad \in BOOLEAN,
           NEW c \in DOMAIN Doctor!DepthSays({}, bad)
    PROVE  \/ Doctor!DepthSays(U, bad)[c] = Doctor!DepthSays({}, bad)[c]
           \/ \E b \in BOOLEAN : Doctor!DepthSays(B, b)[c] # Doctor!DepthSays({}, b)[c]
  <1>1. c \in {"depth"}  BY DEF Doctor!DepthSays
  <1>2. CASE c = "depth"
    BY <1>2 DEF Doctor!DepthSays, Doctor!Lost, Doctor!Judged, Doctor!OtherNames, Unhung, Covers
  <1> QED  BY <1>1, <1>2

\* And so does what is said of the names as a whole.
LEMMA NamesApart ==
    ASSUME NEW U, NEW B, Covers(B, U), NEW bad \in BOOLEAN, NEW i \in 1..8,
           NEW c \in DOMAIN Doctor!Says({}, bad)[i]
    PROVE  \/ Doctor!Says(U, bad)[i][c] = Doctor!Says({}, bad)[i][c]
           \/ \E b \in BOOLEAN : Doctor!Says(B, b)[i][c] # Doctor!Says({}, b)[i][c]
  <1>1. CASE i = 1
    <2>1. \A V, b : Doctor!Says(V, b)[i] = Doctor!ChainSays(V, b)  BY <1>1 DEF Doctor!Says
    <2>2. c \in DOMAIN Doctor!ChainSays({}, bad)  BY <2>1
    <2>3. \/ Doctor!ChainSays(U, bad)[c] = Doctor!ChainSays({}, bad)[c]
          \/ \E b \in BOOLEAN : Doctor!ChainSays(B, b)[c] # Doctor!ChainSays({}, b)[c]
      BY <2>2, ChainApart
    <2> QED  BY <2>1, <2>3, Zenon
  <1>2. CASE i = 2
    <2>1. \A V, b : Doctor!Says(V, b)[i] = Doctor!StockSays(V, b)  BY <1>2 DEF Doctor!Says
    <2>2. c \in DOMAIN Doctor!StockSays({}, bad)  BY <2>1
    <2>3. \/ Doctor!StockSays(U, bad)[c] = Doctor!StockSays({}, bad)[c]
          \/ \E b \in BOOLEAN : Doctor!StockSays(B, b)[c] # Doctor!StockSays({}, b)[c]
      BY <2>2, StockApart
    <2> QED  BY <2>1, <2>3, Zenon
  <1>3. CASE i = 3
    <2>1. \A V, b : Doctor!Says(V, b)[i] = Doctor!FundamentalSays(V, b)  BY <1>3 DEF Doctor!Says
    <2>2. c \in DOMAIN Doctor!FundamentalSays({}, bad)  BY <2>1
    <2>3. \/ Doctor!FundamentalSays(U, bad)[c] = Doctor!FundamentalSays({}, bad)[c]
          \/ \E b \in BOOLEAN : Doctor!FundamentalSays(B, b)[c] # Doctor!FundamentalSays({}, b)[c]
      BY <2>2, FundamentalApart
    <2> QED  BY <2>1, <2>3, Zenon
  <1>4. CASE i = 4
    <2>1. \A V, b : Doctor!Says(V, b)[i] = Doctor!SlotSays(V, b)  BY <1>4 DEF Doctor!Says
    <2>2. c \in DOMAIN Doctor!SlotSays({}, bad)  BY <2>1
    <2>3. \/ Doctor!SlotSays(U, bad)[c] = Doctor!SlotSays({}, bad)[c]
          \/ \E b \in BOOLEAN : Doctor!SlotSays(B, b)[c] # Doctor!SlotSays({}, b)[c]
      BY <2>2, SlotApart
    <2> QED  BY <2>1, <2>3, Zenon
  <1>5. CASE i = 5
    <2>1. \A V, b : Doctor!Says(V, b)[i] = Doctor!FailedSays(V, b)  BY <1>5 DEF Doctor!Says
    <2>2. c \in DOMAIN Doctor!FailedSays({}, bad)  BY <2>1
    <2>3. \/ Doctor!FailedSays(U, bad)[c] = Doctor!FailedSays({}, bad)[c]
          \/ \E b \in BOOLEAN : Doctor!FailedSays(B, b)[c] # Doctor!FailedSays({}, b)[c]
      BY <2>2, FailedApart
    <2> QED  BY <2>1, <2>3, Zenon
  <1>6. CASE i = 6
    <2>1. \A V, b : Doctor!Says(V, b)[i] = Doctor!QueueSays(V, b)  BY <1>6 DEF Doctor!Says
    <2>2. c \in DOMAIN Doctor!QueueSays({}, bad)  BY <2>1
    <2>3. \/ Doctor!QueueSays(U, bad)[c] = Doctor!QueueSays({}, bad)[c]
          \/ \E b \in BOOLEAN : Doctor!QueueSays(B, b)[c] # Doctor!QueueSays({}, b)[c]
      BY <2>2, QueueApart
    <2> QED  BY <2>1, <2>3, Zenon
  <1>7. CASE i = 7
    <2>1. \A V, b : Doctor!Says(V, b)[i] = Doctor!ContinuitySays(V, b)  BY <1>7 DEF Doctor!Says
    <2>2. c \in DOMAIN Doctor!ContinuitySays({}, bad)  BY <2>1
    <2>3. \/ Doctor!ContinuitySays(U, bad)[c] = Doctor!ContinuitySays({}, bad)[c]
          \/ \E b \in BOOLEAN : Doctor!ContinuitySays(B, b)[c] # Doctor!ContinuitySays({}, b)[c]
      BY <2>2, ContinuityApart
    <2> QED  BY <2>1, <2>3, Zenon
  <1>8. CASE i = 8
    <2>1. \A V, b : Doctor!Says(V, b)[i] = Doctor!DepthSays(V, b)  BY <1>8 DEF Doctor!Says
    <2>2. c \in DOMAIN Doctor!DepthSays({}, bad)  BY <2>1
    <2>3. \/ Doctor!DepthSays(U, bad)[c] = Doctor!DepthSays({}, bad)[c]
          \/ \E b \in BOOLEAN : Doctor!DepthSays(B, b)[c] # Doctor!DepthSays({}, b)[c]
      BY <2>2, DepthApart
    <2> QED  BY <2>1, <2>3, Zenon
  <1> QED  BY <1>1, <1>2, <1>3, <1>4, <1>5, <1>6, <1>7, <1>8

\* No failed check sinks the report or reaches into the words of another.
LEMMA ReadsApart == ReadsInv => Doctor!FaultsStayApart
  <1> SUFFICES ASSUME ReadsInv, report = "made" PROVE Doctor!FaultsStayApart
    BY DEF Doctor!FaultsStayApart
  <1>1. unread \subseteq Doctor!Blamed(at_fault) \cup Unhung
    <2>1. "made" # "none"  OBVIOUS
    <2> QED  BY <2>1 DEF ReadsInv
  <1> DEFINE B == Doctor!Blamed(at_fault)
  <1>3. Covers(B, unread)  BY <1>1 DEF Covers
  <1> HIDE DEF B
  <1>2. \A bad \in BOOLEAN : \A i \in 1..8 : \A c \in DOMAIN Doctor!Says({}, bad)[i] :
           \/ Doctor!Says(unread, bad)[i][c] = Doctor!Says({}, bad)[i][c]
           \/ \E b \in BOOLEAN : Doctor!Says(B, b)[i][c] # Doctor!Says({}, b)[i][c]
    BY <1>3, NamesApart
  <1> QED  BY <1>2 DEF Doctor!FaultsStayApart, B

-----------------------------------------------------------------------------
(* All parts together.  A step of one is a step that leaves the others alone, so what each *)
(* part's steps preserve, a step of AllNext preserves.                                     *)

\* A step of the whole is a step of a part, and a step of no other.
LEMMA StepsOfParts ==
    ASSUME [AllNext]_allVars
    PROVE  /\ part' = part /\ [Next]_vars
           /\ [Queue!Next]_(Queue!vars) /\ [Width!Next]_(Width!vars)
           /\ [Label!Next]_(Label!vars) /\ [Evidence!Next]_(Evidence!vars)
           /\ [Doctor!Next]_(Doctor!vars) /\ [Memory!Next]_(Memory!vars)
           /\ part # "memory" => UNCHANGED memoryVars
  <1> USE DEF Queue!vars, Width!vars, Label!vars, Evidence!vars, Doctor!vars, Memory!vars,
              queueVars, widthVars, labelVars, slotVars, reportVars, memoryVars
  <1>1. CASE AllNext
    <2>1. Frozen  BY <1>1 DEF AllNext
    <2>2. /\ part = "cache"  => Next
          /\ part = "memory" => Memory!Next
          /\ part = "queue"  => Queue!Next
          /\ part = "width"  => Width!Next
          /\ part = "labels" => Label!Next
          /\ part = "slots"  => Evidence!Next
          /\ part = "report" => Doctor!Next
      BY <1>1 DEF AllNext
    <2> QED  BY <2>1, <2>2 DEF Frozen
  <1>2. CASE UNCHANGED allVars  BY <1>2 DEF allVars
  <1> QED  BY <1>1, <1>2

\* A table that is only judged stays one of the tables there are to judge.
LEMMA JudgedInit == ASSUME MemoryAssumption, Tables!Init PROVE Tables!TypeOK
  BY DEF MemoryAssumption, Tables!Init, Tables!TypeOK

\* And it stays one, for nobody changes it.
LEMMA JudgedStands == ASSUME Tables!TypeOK, UNCHANGED memoryVars PROVE Tables!TypeOK'
  BY DEF Tables!TypeOK, memoryVars

\* The inductive invariant of the whole.
AllInv ==
    /\ TypeOK /\ OneRefresh
    /\ SeriesInv /\ Width!TypeOK /\ FiledInv /\ Forms /\ WatchInv /\ ReadsInv
    /\ IF part = "verdicts" THEN Tables!TypeOK ELSE MemoryTypes

\* Each part starts with its own.
LEMMA AllInvInit == AllInit => AllInv
  <1> SUFFICES ASSUME AllInit PROVE AllInv  OBVIOUS
  <1> USE ObservationAssumption DEF AllInit
  <1>1. TypeOK /\ OneRefresh  BY CacheInit
  <1>2. SeriesInv  BY SeriesInit
  <1>3. Width!TypeOK  BY WidthInit
  <1>4. FiledInv /\ Forms  BY FiledInit
  <1>5. WatchInv  BY WatchInit
  <1>6. ReadsInv  BY ReadsInit
  <1>7. IF part = "verdicts" THEN Tables!TypeOK ELSE MemoryTypes  BY JudgedInit, MemoryTypesInit
  <1> QED  BY <1>1, <1>2, <1>3, <1>4, <1>5, <1>6, <1>7 DEF AllInv

\* A step is a step of one part, which keeps its own.
LEMMA AllInvNext == AllInv /\ [AllNext]_allVars => AllInv'
  <1> SUFFICES ASSUME AllInv, [AllNext]_allVars PROVE AllInv'  OBVIOUS
  <1> USE ObservationAssumption, StepsOfParts DEF AllInv
  <1>1. TypeOK'  BY TypeStep
  <1>2. OneRefresh'  BY OneRefreshStep
  <1>3. SeriesInv'  BY SeriesNext
  <1>4. Width!TypeOK'  BY WidthNext
  <1>5. FiledInv' /\ Forms'  BY FiledNext, FormsStep
  <1>6. WatchInv'  BY WatchNext
  <1>7. ReadsInv'  BY ReadsNext
  <1>8. IF part' = "verdicts" THEN Tables!TypeOK' ELSE MemoryTypes'
    <2>1. CASE part = "verdicts"  BY <2>1, JudgedStands
    <2>2. CASE part # "verdicts"  BY <2>2, MemoryTypesNext
    <2> QED  BY <2>1, <2>2
  <1> QED  BY <1>1, <1>2, <1>3, <1>4, <1>5, <1>6, <1>7, <1>8

\* It is what the runs check.
LEMMA AllInvMeans == AllInv => TypesOK /\ CountedOnce /\ FaultsStayApart /\ StoppedIsFound /\ HealthyIsSolid
  <1> SUFFICES ASSUME AllInv PROVE TypesOK /\ CountedOnce /\ FaultsStayApart /\ StoppedIsFound /\ HealthyIsSolid
    OBVIOUS
  <1> USE ObservationAssumption DEF AllInv
  <1>1. Queue!TypeOK  BY DEF SeriesInv
  <1>2. Label!TypeOK  BY LabelTypes
  <1>3. Evidence!TypeOK  BY SlotMeans DEF WatchInv
  <1>4. Doctor!TypeOK  BY DEF ReadsInv
  <1>5. part # "verdicts" => Memory!TypeOK  BY DEF MemoryTypes
  <1>6. TypesOK  BY <1>1, <1>2, <1>3, <1>4, <1>5 DEF TypesOK
  <1>7. CountedOnce  BY SeriesMeans
  <1>8. FaultsStayApart  BY ReadsApart DEF FaultsStayApart
  <1>9. StoppedIsFound  BY WatchMeans DEF StoppedIsFound
  <1>10. HealthyIsSolid  BY TablesSolid DEF HealthyIsSolid
  <1> QED  BY <1>6, <1>7, <1>8, <1>9, <1>10

\* So it holds always.
LEMMA AllInvHolds == AllSpec => []AllInv
  BY AllInvInit, AllInvNext, PTL DEF AllSpec

\* Every part's variables hold values of their kind, for any number of requests, threads,
\* datasets, jobs, samplers, rows and slots.
THEOREM ObservationTypes == AllSpec => []TypesOK
  BY AllInvHolds, AllInvMeans, PTL

\* At most one background recompute is in flight, however many requests find the cache stale
\* and however threads fail to start (slow_cache.py).
THEOREM OneRefreshInFlight == AllSpec => []OneRefresh
  <1>1. AllInv => OneRefresh  BY DEF AllInv
  <1> QED  BY <1>1, AllInvHolds, PTL

\* No finish is counted by two rows of one writer, however late samplers wake, write or
\* restart, and however often backfills run beside them (queue_history.py).
THEOREM SeriesCountsOnce == AllSpec => []CountedOnce
  BY AllInvHolds, AllInvMeans, PTL

\* A read of the doctor's report that fails or is cut off costs no check but those it is
\* blamed for, wherever in the script it comes and whatever it leaves aborted (doctor.py).
THEOREM DoctorApart == AllSpec => []FaultsStayApart
  BY AllInvHolds, AllInvMeans, PTL

\* A slot that stops is called missed by the dashboard and stale by the doctor, and one that
\* works is not, whatever the other slots of its table do, whichever jobs fail, bring nothing
\* or lose their bumps, and whatever the trim has removed (enqueue.py, doctor.py).
THEOREM StoppedSlotIsFound == AllSpec => []StoppedIsFound
  BY AllInvHolds, AllInvMeans, PTL

\* Of a dataset that comes by the session, four healthy verdicts mean that hardly a name is
\* missing, that it is not old, that no session is blank and that none is half empty, for any
\* table, any tier and any calendar (verdicts.py).
THEOREM HealthyTablesAreSolid == AllSpec => []HealthyIsSolid
  BY AllInvHolds, AllInvMeans, PTL

\* No handler and no repair files a row under a company it has nothing to do with, and no
\* bar of another company's life under the same symbol is taken over.
THEOREM LabelsKeepCompany == AllSpec => CompaniesApart
  <1>1. AllInv /\ [AllNext]_allVars => [LabelsApart /\ LivesApart]_(Label!vars)
    <2> SUFFICES ASSUME AllInv, [AllNext]_allVars PROVE LabelsApart /\ LivesApart  OBVIOUS
    <2> QED  BY ObservationAssumption, StepsOfParts, FiledNext DEF AllInv
  <1>2. [LabelsApart /\ LivesApart]_(Label!vars) =>
          [/\ \A r \in FiledRows : label'[r] # label[r] => label'[r] \in Label!Company(r)
           /\ \A d \in stock'["live"] \ stock["live"], e \in DaysOfAnother : d > e]_(Label!vars)
    BY DEF LabelsApart, LivesApart
  <1> QED  BY <1>1, <1>2, AllInvHolds, PTL DEF AllSpec, CompaniesApart, Label!CompaniesApart

\* With one compute at a time, the newest row of the record tells of every dataset what was
\* last measured and recorded, whatever failed, was lost or trimmed since (coverage_history.py).
THEOREM MemoryKeeps == ASSUME OneCompute PROVE AllSpec => []Remembered
  <1> DEFINE Kept == part = "memory" => MemoryInv
  <1>1. AllInit => Kept  BY ObservationAssumption, MemoryInit DEF AllInit
  <1>2. Kept /\ [AllNext]_allVars => Kept'
    BY ObservationAssumption, StepsOfParts, MemoryNext
  <1>3. Kept => Remembered  BY ObservationAssumption, MemoryMeans DEF Remembered
  <1> QED  BY <1>1, <1>2, <1>3, PTL DEF AllSpec

=============================================================================
