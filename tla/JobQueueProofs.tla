--------------------------- MODULE JobQueueProofs ---------------------------
(***************************************************************************)
(* Theorems about the job queue for every set of slots, kinds, hashes and  *)
(* priorities and every value of the thresholds.                           *)
(***************************************************************************)
EXTENDS JobQueue, SequenceTheorems, TLAPS

-----------------------------------------------------------------------------
(***************************************************************************)
(* Tables.                                                                 *)
(***************************************************************************)
\* An UPDATE of any number of rows yields a table with the same ids.
LEMMA UpdatedTable ==
    ASSUME NEW S, NEW table \in Seq(S), NEW new \in [DOMAIN table -> S]
    PROVE  /\ new \in Seq(S)
           /\ DOMAIN new = DOMAIN table
           /\ Len(new) = Len(table)
<1>1. Len(table) \in Nat /\ DOMAIN table = 1..Len(table)
  BY LenProperties
<1>2. new \in [1..Len(table) -> S]
  BY <1>1
<1>3. new \in Seq(S)
  BY <1>1, <1>2, SeqDef
<1>4. DOMAIN new = 1..Len(table)
  BY <1>2
<1>5. Len(new) = Len(table)
  BY <1>1, <1>3, <1>4, LenProperties
<1> QED
  BY <1>1, <1>3, <1>4, <1>5

\* An INSERT adds one id and leaves the other rows as they were.
LEMMA ExtendedTable ==
    ASSUME NEW S, NEW table \in Seq(S), NEW row \in S
    PROVE  /\ Append(table, row) \in Seq(S)
           /\ DOMAIN Append(table, row) = DOMAIN table \cup {Len(table) + 1}
           /\ Len(table) + 1 \notin DOMAIN table
           /\ Append(table, row)[Len(table) + 1] = row
           /\ \A j \in DOMAIN table : Append(table, row)[j] = table[j]
<1>1. Len(table) \in Nat /\ DOMAIN table = 1..Len(table)
  BY LenProperties
<1> QED
  BY <1>1

-----------------------------------------------------------------------------
(***************************************************************************)
(* Types.                                                                  *)
(***************************************************************************)
\* What an enqueue does to the rows.
LEMMA InsertEffect ==
    ASSUME TypeOK, NEW k \in Kinds, NEW h \in Hashes, NEW p \in Priorities,
           NEW b \in Nat \ {0}, InsertJob(k, h, p, b)
    PROVE  LET n == Len(job) + 1 IN
           /\ TypeOK'
           /\ Ids' = Ids \cup {n} /\ n \notin Ids
           /\ job'[n].status = "pending" /\ job'[n].attempts = 0 /\ job'[n].max = b
           /\ job'[n].kind = k /\ job'[n].hash = h
           /\ \A j \in Ids : job'[j] = job[j]
           /\ slot' = slot
<1> DEFINE row == [status |-> "pending", kind |-> k, hash |-> h, priority |-> p,
                   attempts |-> 0, max |-> b, age |-> 0]
<1>1. row \in Row
  BY QueueAssumption DEF Row, Status, ActiveStatus
<1>2. job' = Append(job, row) /\ slot' = slot /\ job \in Seq(Row)
  BY DEF InsertJob, TypeOK
<1> HIDE DEF row
<1>3. /\ job' \in Seq(Row)
      /\ DOMAIN job' = DOMAIN job \cup {Len(job) + 1}
      /\ Len(job) + 1 \notin DOMAIN job
      /\ job'[Len(job) + 1] = row
      /\ \A j \in DOMAIN job : job'[j] = job[j]
  BY <1>1, <1>2, ExtendedTable
<1>4. TypeOK'
  BY <1>2, <1>3 DEF TypeOK, Ids
<1>5. /\ row.status = "pending" /\ row.attempts = 0 /\ row.max = b
      /\ row.kind = k /\ row.hash = h
  BY DEF row
<1> QED
  BY <1>2, <1>3, <1>4, <1>5 DEF Ids

\* An age that has grown is still an age.
LEMMA OlderType ==
    ASSUME NEW a \in 0..AgeCap PROVE Older(a) \in 0..AgeCap
BY QueueAssumption DEF Older

\* Every entry of the table is a row.
LEMMA RowTypes ==
    ASSUME job \in Seq(Row) PROVE \A j \in Ids : job[j] \in Row
BY LenProperties, ElementOfSeq DEF Ids

\* The statuses, one by one, for the provers.
LEMMA StatusMembers ==
    Status = {"pending", "running", "done", "failed", "trimmed"}
BY DEF Status, ActiveStatus, Finished

\* Rewriting columns leaves the others alone.
LEMMA AgedType ==
    ASSUME NEW row \in Row, NEW age \in 0..AgeCap
    PROVE  /\ Aged(row, age) \in Row
           /\ Aged(row, age).age = age
           /\ Aged(row, age).status = row.status
           /\ Aged(row, age).kind = row.kind
           /\ Aged(row, age).hash = row.hash
           /\ Aged(row, age).max = row.max
           /\ Aged(row, age).attempts = row.attempts
BY DEF Aged, Row

\* A status change restarts the age and keeps the other columns.
LEMMA MovedType ==
    ASSUME NEW row \in Row, NEW status \in Status
    PROVE  /\ Moved(row, status) \in Row
           /\ Moved(row, status).status = status
           /\ Moved(row, status).age = 0
           /\ Moved(row, status).kind = row.kind
           /\ Moved(row, status).hash = row.hash
           /\ Moved(row, status).max = row.max
           /\ Moved(row, status).attempts = row.attempts
<1> DEFINE r == [row EXCEPT !.status = status]
<1>1. /\ r \in Row /\ r.status = status /\ r.kind = row.kind /\ r.hash = row.hash
      /\ r.max = row.max /\ r.attempts = row.attempts
  BY DEF Row
<1>2. Moved(row, status) = Aged(r, 0) /\ 0 \in 0..AgeCap
  BY QueueAssumption DEF Moved
<1> HIDE DEF r
<1> QED
  BY <1>1, <1>2, AgedType

\* A claim sets status, attempts and age and keeps the other columns.
LEMMA StartedType ==
    ASSUME NEW row \in Row, NEW n \in Nat, NEW age \in 0..AgeCap
    PROVE  /\ Started(row, n, age) \in Row
           /\ Started(row, n, age).status = "running"
           /\ Started(row, n, age).age = age
           /\ Started(row, n, age).attempts = n
           /\ Started(row, n, age).kind = row.kind
           /\ Started(row, n, age).hash = row.hash
           /\ Started(row, n, age).max = row.max
<1> DEFINE m == Moved(row, "running")
           r == [m EXCEPT !.attempts = n]
<1>1. /\ m \in Row /\ m.status = "running" /\ m.kind = row.kind /\ m.hash = row.hash
      /\ m.max = row.max
  BY MovedType, StatusMembers
<1> HIDE DEF m
<1>2. /\ r \in Row /\ r.status = "running" /\ r.kind = row.kind /\ r.hash = row.hash
      /\ r.max = row.max /\ r.attempts = n
  BY <1>1 DEF Row
<1>3. Started(row, n, age) = Aged(r, age)
  BY DEF Started, m
<1> HIDE DEF r
<1> QED
  BY <1>2, <1>3, AgedType

\* Settle changes one row of the table.
LEMMA SettleType ==
    ASSUME job \in Seq(Row), NEW j \in Ids, NEW status \in Status
    PROVE  /\ Settle(j, status) \in Seq(Row)
           /\ DOMAIN Settle(j, status) = Ids
           /\ Settle(j, status)[j] = Moved(job[j], status)
           /\ \A i \in Ids : i # j => Settle(j, status)[i] = job[i]
<1>1. \A i \in Ids : job[i] \in Row
  BY RowTypes
<1>2. Settle(j, status) = [i \in Ids |-> IF i = j THEN Moved(job[j], status) ELSE job[i]]
  <2>1. job = [i \in Ids |-> job[i]]
    BY SeqDef DEF Ids
  <2> QED
    BY <2>1 DEF Settle, Ids
<1>3. Settle(j, status) \in [Ids -> Row]
  BY <1>1, <1>2, MovedType
<1>4. Settle(j, status) \in Seq(Row) /\ DOMAIN Settle(j, status) = Ids
  BY <1>3, UpdatedTable DEF Ids
<1> QED
  BY <1>2, <1>4

\* What an action does to the slots: it replaces one of them.
LEMMA SlotUpdate ==
    ASSUME slot \in [Workers -> Slot], NEW w \in Workers, NEW new \in Slot,
           slot' = [slot EXCEPT ![w] = new]
    PROVE  /\ slot' \in [Workers -> Slot]
           /\ slot'[w] = new
           /\ \A v \in Workers : v # w => slot'[v] = slot[v]
OBVIOUS

\* A claim is a slot record with the fields it was made from.
LEMMA HoldingType ==
    ASSUME NEW phase \in {"idle", "claiming", "working"}, NEW j \in Nat,
           NEW n \in Nat, NEW age \in 0..AgeCap
    PROVE  /\ Holding(phase, j, n, age) \in Slot
           /\ Holding(phase, j, n, age).phase = phase
           /\ Holding(phase, j, n, age).id = j
           /\ Holding(phase, j, n, age).attempts = n
           /\ Holding(phase, j, n, age).age = age
BY DEF Holding, Slot

\* The idle slot is a slot record.
LEMMA IdleType == Idle \in Slot /\ Idle.phase = "idle"
BY HoldingType, QueueAssumption DEF Idle

\* Ids are the indices of a sequence.
LEMMA IdsAreNat == ASSUME TypeOK PROVE Ids \subseteq Nat
BY LenProperties DEF TypeOK, Ids

\* LockCandidate changes one slot and no row.
LEMMA LockEffect ==
    ASSUME TypeOK, NEW w \in Workers, NEW j \in Ids, LockCandidate(w, j)
    PROVE  /\ TypeOK'
           /\ job' = job
           /\ slot'[w] = Holding("claiming", j, 0, 0)
           /\ \A v \in Workers : v # w => slot'[v] = slot[v]
<1>1. j \in Nat /\ 0 \in 0..AgeCap
  BY IdsAreNat, QueueAssumption
<1>2. Holding("claiming", j, 0, 0) \in Slot /\ Holding("claiming", j, 0, 0).id = j
  BY <1>1, HoldingType
<1>3. slot' = [slot EXCEPT ![w] = Holding("claiming", j, 0, 0)] /\ job' = job
  BY DEF LockCandidate
<1>4. /\ slot' \in [Workers -> Slot]
      /\ slot'[w] = Holding("claiming", j, 0, 0)
      /\ \A v \in Workers : v # w => slot'[v] = slot[v]
  BY <1>2, <1>3, SlotUpdate DEF TypeOK
<1> QED
  BY <1>2, <1>3, <1>4 DEF TypeOK, Ids

\* CommitClaim changes one slot and the row it claims.
LEMMA ClaimEffect ==
    ASSUME TypeOK, NEW w \in Workers, CommitClaim(w)
    PROVE  LET j == slot[w].id IN
           /\ TypeOK'
           /\ Ids' = Ids /\ j \in Ids
           /\ job'[j].status = "running" /\ job'[j].age = slot[w].age
           /\ job'[j].attempts = job[j].attempts + 1
           /\ job'[j].kind = job[j].kind /\ job'[j].hash = job[j].hash
           /\ job'[j].max = job[j].max
           /\ \A i \in Ids : i # j => job'[i] = job[i]
           /\ slot'[w].phase = "working" /\ slot'[w].id = j
           /\ slot'[w].attempts = job[j].attempts + 1 /\ slot'[w].age = slot[w].age
           /\ \A v \in Workers : v # w => slot'[v] = slot[v]
<1> DEFINE j   == slot[w].id
           n   == job[j].attempts + 1
           a   == slot[w].age
           row == Started(job[j], n, a)
           new == Holding("working", j, n, a)
<1>1. job \in Seq(Row) /\ slot \in [Workers -> Slot] /\ slot[w] \in Slot /\ j \in Ids
  BY DEF TypeOK, CommitClaim
<1>2. \A i \in Ids : job[i] \in Row
  BY <1>1, RowTypes
<1>3. n \in Nat /\ a \in 0..AgeCap /\ j \in Nat
  BY <1>1, <1>2 DEF Row, Slot
<1>4. job' = [job EXCEPT ![j] = row] /\ slot' = [slot EXCEPT ![w] = new]
  BY DEF CommitClaim
<1>n. n = job[j].attempts + 1 /\ a = slot[w].age /\ j = slot[w].id
  OBVIOUS
<1> HIDE DEF n, a, j
<1>5. /\ row \in Row /\ row.status = "running" /\ row.age = a /\ row.attempts = n
      /\ row.kind = job[j].kind /\ row.hash = job[j].hash /\ row.max = job[j].max
  BY <1>1, <1>2, <1>3, StartedType
<1>6. /\ new \in Slot /\ new.phase = "working" /\ new.id = j /\ new.attempts = n
      /\ new.age = a
  BY <1>3, HoldingType
<1> HIDE DEF row, new
<1>7. job = [i \in Ids |-> job[i]]
  BY <1>1, SeqDef DEF Ids
<1>8. job' \in [Ids -> Row] /\ job'[j] = row /\ \A i \in Ids : i # j => job'[i] = job[i]
  BY <1>1, <1>2, <1>4, <1>5, <1>7
<1>9. job' \in Seq(Row) /\ Ids' = Ids
  BY <1>1, <1>8, UpdatedTable DEF Ids
<1>10. /\ slot' \in [Workers -> Slot] /\ slot'[w] = new
       /\ \A v \in Workers : v # w => slot'[v] = slot[v]
  BY <1>1, <1>4, <1>6, SlotUpdate
<1>11. TypeOK'
  BY <1>1, <1>6, <1>9, <1>10 DEF TypeOK
<1> QED
  BY <1>1, <1>n, <1>5, <1>6, <1>8, <1>9, <1>10, <1>11

\* mark_done, mark_failed and a crash leave the slot idle and change at most the
\* row it holds.
LEMMA OutcomeEffect ==
    ASSUME TypeOK, NEW w \in Workers, slot[w].phase # "idle",
           slot' = [slot EXCEPT ![w] = Idle],
           NEW status \in {"done", "failed", "pending"},
           job' = job \/ job' = Settle(slot[w].id, status)
    PROVE  /\ TypeOK'
           /\ Ids' = Ids /\ slot[w].id \in Ids
           /\ \A i \in Ids : i # slot[w].id => job'[i] = job[i]
           /\ slot'[w] = Idle
           /\ \A v \in Workers : v # w => slot'[v] = slot[v]
<1>1. job \in Seq(Row) /\ slot \in [Workers -> Slot] /\ slot[w].id \in Ids
  BY DEF TypeOK
<1>2. /\ slot' \in [Workers -> Slot] /\ slot'[w] = Idle
      /\ \A v \in Workers : v # w => slot'[v] = slot[v]
  BY <1>1, IdleType, SlotUpdate
<1>3. /\ job' \in Seq(Row) /\ Ids' = Ids
      /\ \A i \in Ids : i # slot[w].id => job'[i] = job[i]
  BY <1>1, SettleType, StatusMembers DEF Ids
<1>4. TypeOK'
  BY <1>2, <1>3, IdleType DEF TypeOK
<1> QED
  BY <1>1, <1>2, <1>3, <1>4

\* Reclaim, Trim and Tick rewrite rows in place.
LEMMA BulkEffect ==
    ASSUME TypeOK, job' \in [Ids -> Row], slot' \in [Workers -> Slot],
           \A w \in Workers : slot'[w].phase = slot[w].phase /\ slot'[w].id = slot[w].id
    PROVE  TypeOK' /\ Ids' = Ids
<1>1. job' \in Seq(Row) /\ Ids' = Ids
  BY UpdatedTable DEF TypeOK, Ids
<1> QED
  BY <1>1 DEF TypeOK

\* Reclaim moves the abandoned rows and no other.
LEMMA ReclaimEffect ==
    ASSUME TypeOK, NEW w \in Workers, Reclaim(w)
    PROVE  /\ TypeOK' /\ Ids' = Ids /\ slot' = slot
           /\ \A j \in Ids : IF Abandoned(j, PoolKinds[w])
                THEN job'[j] = Moved(job[j], IF job[j].attempts >= job[j].max
                                             THEN "failed" ELSE "pending")
                ELSE job'[j] = job[j]
<1>1. \A j \in Ids : job[j] \in Row
  BY RowTypes DEF TypeOK
<1>2. \A j \in Ids : IF Abandoned(j, PoolKinds[w])
                THEN job'[j] = Moved(job[j], IF job[j].attempts >= job[j].max
                                             THEN "failed" ELSE "pending")
                ELSE job'[j] = job[j]
  BY DEF Reclaim
<1>3. \A j \in Ids : job'[j] \in Row
  BY <1>1, <1>2, MovedType, StatusMembers
<1>4. job' \in [Ids -> Row]
  BY <1>3 DEF Reclaim
<1>5. slot' = slot /\ slot \in [Workers -> Slot]
  BY DEF Reclaim, TypeOK
<1> QED
  BY <1>2, <1>4, <1>5, BulkEffect

\* Trim forgets the rows of its batch and no other.
LEMMA TrimEffect ==
    ASSUME TypeOK, NEW batch \in SUBSET Expired, Trim(batch)
    PROVE  /\ TypeOK' /\ Ids' = Ids /\ slot' = slot
           /\ \A j \in Ids : job'[j] = IF j \in batch THEN Moved(job[j], "trimmed")
                                                       ELSE job[j]
<1>1. \A j \in Ids : job[j] \in Row
  BY RowTypes DEF TypeOK
<1>2. \A j \in Ids : job'[j] = IF j \in batch THEN Moved(job[j], "trimmed") ELSE job[j]
  BY DEF Trim
<1>3. \A j \in Ids : job'[j] \in Row
  BY <1>1, <1>2, MovedType, StatusMembers
<1>4. job' \in [Ids -> Row]
  BY <1>3 DEF Trim
<1>5. slot' = slot /\ slot \in [Workers -> Slot]
  BY DEF Trim, TypeOK
<1> QED
  BY <1>2, <1>4, <1>5, BulkEffect

\* Tick changes ages alone.
LEMMA TickEffect ==
    ASSUME TypeOK, Tick
    PROVE  /\ TypeOK' /\ Ids' = Ids
           /\ \A j \in Ids : job'[j] = IF Ages(j) THEN Aged(job[j], Older(job[j].age))
                                                  ELSE job[j]
           /\ \A w \in Workers : slot'[w] = IF slot[w].phase # "idle"
                      THEN Aged(slot[w], Older(slot[w].age)) ELSE slot[w]
<1>1. \A j \in Ids : job[j] \in Row
  BY RowTypes DEF TypeOK
<1>2. \A j \in Ids : job'[j] = IF Ages(j) THEN Aged(job[j], Older(job[j].age)) ELSE job[j]
  BY DEF Tick
<1>3. \A j \in Ids : job[j].age \in 0..AgeCap
  BY <1>1 DEF Row
<1>4. \A j \in Ids : job'[j] \in Row
  BY <1>1, <1>2, <1>3, AgedType, OlderType
<1>5. job' \in [Ids -> Row]
  BY <1>4 DEF Tick
<1>6. \A w \in Workers : slot'[w] = IF slot[w].phase # "idle"
                      THEN Aged(slot[w], Older(slot[w].age)) ELSE slot[w]
  BY DEF Tick
<1>7. ASSUME NEW w \in Workers
      PROVE  /\ slot'[w] \in Slot
             /\ slot'[w].phase = slot[w].phase /\ slot'[w].id = slot[w].id
  <2>1. slot[w] \in Slot
    BY DEF TypeOK
  <2>2. Older(slot[w].age) \in 0..AgeCap
    BY <2>1, OlderType DEF Slot
  <2>3. ASSUME NEW a \in 0..AgeCap
        PROVE  /\ Aged(slot[w], a) \in Slot
               /\ Aged(slot[w], a).phase = slot[w].phase
               /\ Aged(slot[w], a).id = slot[w].id
    BY <2>1 DEF Aged, Slot
  <2> QED
    BY <1>6, <2>1, <2>2, <2>3
<1>8. slot' \in [Workers -> Slot]
  BY <1>7 DEF Tick
<1> QED
  BY <1>2, <1>5, <1>6, <1>7, <1>8, BulkEffect

-----------------------------------------------------------------------------
(***************************************************************************)
(* The actions, one case each.  Outcome(w, status) is what the three ways  *)
(* of giving up a claim have in common.                                    *)
(***************************************************************************)
Outcome(w, status) ==
    /\ slot[w].phase # "idle"
    /\ slot' = [slot EXCEPT ![w] = Idle]
    /\ \/ job' = job
       \/ /\ Reaches(w) /\ Exists(slot[w].id)
          /\ (status = "pending" => ~Refused(w))
          /\ status # "done" => status = Verdict(w)
          /\ job' = Settle(slot[w].id, status)

\* A failed attempt ends as failed or pending.
LEMMA VerdictType == \A w : Verdict(w) \in {"failed", "pending"}
BY DEF Verdict

\* MarkDone, MarkFailed and Crash are outcomes.
LEMMA Outcomes ==
    ASSUME NEW w \in Workers, MarkDone(w) \/ MarkFailed(w) \/ Crash(w)
    PROVE  \E status \in {"done", "failed", "pending"} : Outcome(w, status)
<1>1. CASE MarkDone(w)
  <2>1. Outcome(w, "done")
    BY <1>1 DEF MarkDone, Outcome, Reaches
  <2> QED
    BY <2>1
<1>2. CASE MarkFailed(w)
  <2>1. Outcome(w, Verdict(w))
    BY <1>2, VerdictType DEF MarkFailed, Outcome, Reaches
  <2> QED
    BY <2>1, VerdictType
<1>3. CASE Crash(w)
  BY <1>3 DEF Crash, Outcome
<1> QED
  BY <1>1, <1>2, <1>3

\* Every step is an insert, one of a worker's, one of housekeeping, or a stutter.
LEMMA StepCases ==
    ASSUME TypeOK, [Next]_vars
    PROVE  \/ \E k \in Kinds, h \in Hashes, p \in Priorities, b \in Nat \ {0} :
                 InsertJob(k, h, p, b)
           \/ \E w \in Workers, j \in Ids : LockCandidate(w, j)
           \/ \E w \in Workers : CommitClaim(w)
           \/ \E w \in Workers, status \in {"done", "failed", "pending"} :
                 Outcome(w, status)
           \/ \E w \in Workers : Reclaim(w)
           \/ \E batch \in SUBSET Expired : Trim(batch)
           \/ Tick
           \/ UNCHANGED vars
<1>1. CASE Enqueue
  BY <1>1, QueueAssumption DEF Enqueue
<1>2. ASSUME NEW j \in Ids, Retry(j)
      PROVE  \E k \in Kinds, h \in Hashes, p \in Priorities, b \in Nat \ {0} :
                 InsertJob(k, h, p, b)
  <2>1. job[j] \in Row
    BY RowTypes DEF TypeOK
  <2>2. /\ job[j].kind \in Kinds /\ job[j].hash \in Hashes
        /\ job[j].priority \in Priorities /\ RetryBudget \in Nat \ {0}
    BY <2>1, QueueAssumption DEF Row
  <2> QED
    BY <1>2, <2>2 DEF Retry
<1>3. ASSUME NEW w \in Workers, WorkerStep(w)
      PROVE  \/ \E j \in Ids : LockCandidate(w, j)
             \/ CommitClaim(w)
             \/ \E status \in {"done", "failed", "pending"} : Outcome(w, status)
             \/ Reclaim(w)
  BY <1>3, Outcomes DEF WorkerStep
<1> QED
  BY <1>1, <1>2, <1>3 DEF Next

\* An outcome changes the row of its slot, if any.
LEMMA OutcomeChange ==
    ASSUME TypeOK, NEW w \in Workers, NEW status \in {"done", "failed", "pending"},
           Outcome(w, status)
    PROVE  /\ TypeOK'
           /\ Ids' = Ids /\ slot[w].id \in Ids
           /\ \A i \in Ids : i # slot[w].id => job'[i] = job[i]
           /\ \/ job' = job
              \/ /\ job'[slot[w].id] = Moved(job[slot[w].id], status)
                 /\ Reaches(w) /\ Exists(slot[w].id)
                 /\ (status = "pending" => ~Refused(w))
                 /\ status # "done" => status = Verdict(w)
           /\ slot'[w] = Idle
           /\ \A v \in Workers : v # w => slot'[v] = slot[v]
<1>1. /\ TypeOK'
      /\ Ids' = Ids /\ slot[w].id \in Ids
      /\ \A i \in Ids : i # slot[w].id => job'[i] = job[i]
      /\ slot'[w] = Idle
      /\ \A v \in Workers : v # w => slot'[v] = slot[v]
  BY OutcomeEffect DEF Outcome
<1>2. Settle(slot[w].id, status)[slot[w].id] = Moved(job[slot[w].id], status)
  BY <1>1, SettleType, StatusMembers DEF TypeOK
<1> QED
  BY <1>1, <1>2 DEF Outcome

\* Every step keeps the types.
LEMMA TypeStep == TypeOK /\ [Next]_vars => TypeOK'
<1> SUFFICES ASSUME TypeOK, [Next]_vars PROVE TypeOK'
  OBVIOUS
<1>1. CASE \E k \in Kinds, h \in Hashes, p \in Priorities, b \in Nat \ {0} :
             InsertJob(k, h, p, b)
  BY <1>1, InsertEffect
<1>2. CASE \E w \in Workers, j \in Ids : LockCandidate(w, j)
  BY <1>2, LockEffect
<1>3. CASE \E w \in Workers : CommitClaim(w)
  BY <1>3, ClaimEffect
<1>4. CASE \E w \in Workers, status \in {"done", "failed", "pending"} : Outcome(w, status)
  BY <1>4, OutcomeChange
<1>5. CASE \E w \in Workers : Reclaim(w)
  BY <1>5, ReclaimEffect
<1>6. CASE \E batch \in SUBSET Expired : Trim(batch)
  BY <1>6, TrimEffect
<1>7. CASE Tick
  BY <1>7, TickEffect
<1>8. CASE UNCHANGED vars
  BY <1>8 DEF vars, TypeOK, Ids
<1> QED
  BY <1>1, <1>2, <1>3, <1>4, <1>5, <1>6, <1>7, <1>8, StepCases

\* The table and the slots keep their types.
THEOREM TypeCorrect == Spec => []TypeOK
<1>1. Init => TypeOK
  BY IdleType, EmptySeq DEF Init, TypeOK
<1> QED
  BY <1>1, TypeStep, PTL DEF Spec

-----------------------------------------------------------------------------
(***************************************************************************)
(* No two active rows with one key, whatever the timing.  The step to look *)
(* at is the UPDATE of a claim: it relies on the row being pending still,  *)
(* which is what the row lock is for.                                      *)
(***************************************************************************)
RowLock ==
    \A w \in Workers : slot[w].phase = "claiming" =>
        /\ job[slot[w].id].status = "pending"
        /\ \A v \in Workers :
             slot[v].phase = "claiming" /\ slot[v].id = slot[w].id => v = w

\* Every step keeps the lock discipline of claims.
LEMMA RowLockStep == TypeOK /\ RowLock /\ [Next]_vars => RowLock'
<1> SUFFICES ASSUME TypeOK, RowLock, [Next]_vars PROVE RowLock'
  OBVIOUS
<1>0. \A j \in Ids : job[j] \in Row
  BY RowTypes DEF TypeOK
<1>1. ASSUME NEW k \in Kinds, NEW h \in Hashes, NEW p \in Priorities, NEW b \in Nat \ {0},
             InsertJob(k, h, p, b)
      PROVE  RowLock'
  BY <1>1, InsertEffect DEF RowLock, TypeOK
<1>2. ASSUME NEW w \in Workers, NEW j \in Ids, LockCandidate(w, j)
      PROVE  RowLock'
  <2>1. /\ job' = job /\ slot'[w] = Holding("claiming", j, 0, 0)
        /\ \A v \in Workers : v # w => slot'[v] = slot[v]
    BY <1>2, LockEffect
  <2>2. slot'[w].id = j
    BY <2>1 DEF Holding
  <2>3. job[j].status = "pending" /\ ~Locked(j)
    BY <1>2 DEF LockCandidate, Candidates, PendingFor
  <2> QED
    BY <2>1, <2>2, <2>3 DEF RowLock, Locked
<1>3. ASSUME NEW w \in Workers, CommitClaim(w)
      PROVE  RowLock'
  <2>1. /\ \A i \in Ids : i # slot[w].id => job'[i] = job[i]
        /\ slot'[w].phase = "working"
        /\ \A v \in Workers : v # w => slot'[v] = slot[v]
    BY <1>3, ClaimEffect
  <2>2. slot[w].phase = "claiming"
    BY <1>3 DEF CommitClaim
  <2> QED
    BY <2>1, <2>2 DEF RowLock, TypeOK
<1>4. ASSUME NEW w \in Workers, NEW status \in {"done", "failed", "pending"}, Outcome(w, status)
      PROVE  RowLock'
  <2>1. /\ \A i \in Ids : i # slot[w].id => job'[i] = job[i]
        /\ job' = job \/ ~Locked(slot[w].id)
        /\ slot'[w].phase = "idle"
        /\ \A v \in Workers : v # w => slot'[v] = slot[v]
    BY <1>4, OutcomeChange, IdleType DEF Reaches
  <2> QED
    BY <2>1 DEF RowLock, TypeOK, Locked
<1>5. ASSUME NEW w \in Workers, Reclaim(w)
      PROVE  RowLock'
  BY <1>5, ReclaimEffect DEF RowLock, TypeOK, Abandoned
<1>6. ASSUME NEW batch \in SUBSET Expired, Trim(batch)
      PROVE  RowLock'
  BY <1>6, TrimEffect DEF RowLock, TypeOK, Expired, Finished
<1>7. CASE Tick
  <2>1. \A j \in Ids : job[j].status = "pending" => job'[j] = job[j]
    BY <1>7, TickEffect DEF Ages, Finished
  <2>2. \A w \in Workers : slot'[w].phase = slot[w].phase /\ slot'[w].id = slot[w].id
    BY <1>7, TickEffect DEF Aged, TypeOK, Slot
  <2> QED
    BY <2>1, <2>2 DEF RowLock, TypeOK
<1>8. CASE UNCHANGED vars
  BY <1>8 DEF vars, RowLock
<1> QED
  BY <1>1, <1>2, <1>3, <1>4, <1>5, <1>6, <1>7, <1>8, StepCases

\* A step that activates no row and changes no key keeps the keys unique.
LEMMA NothingActivated ==
    ASSUME UniqueActive, Ids' = Ids,
           \A j \in Ids : /\ job'[j].kind = job[j].kind /\ job'[j].hash = job[j].hash
                          /\ Active(j)' => Active(j)
    PROVE  UniqueActive'
BY DEF UniqueActive, HasKey, Active

\* An insert under the index puts no key on the queue twice.
LEMMA UniqueInsert ==
    ASSUME TypeOK, UniqueActive, NEW k \in Kinds, NEW h \in Hashes,
           NEW p \in Priorities, NEW b \in Nat \ {0}, InsertJob(k, h, p, b)
    PROVE  UniqueActive'
<1> DEFINE n == Len(job) + 1
<1>1. /\ Ids' = Ids \cup {n} /\ n \notin Ids
      /\ job'[n].kind = k /\ job'[n].hash = h
      /\ \A j \in Ids : job'[j] = job[j]
  BY InsertEffect
<1>2. \A j \in Ids : Active(j) => ~HasKey(j, k, h)
  BY DEF InsertJob, Taken
<1> HIDE DEF n
<1> SUFFICES ASSUME NEW i \in Ids', NEW j \in Ids', Active(i)', Active(j)',
                    job'[i].kind = job'[j].kind, job'[i].hash = job'[j].hash
             PROVE  i = j
  BY DEF UniqueActive, HasKey
<1>3. CASE i \in Ids /\ j \in Ids
  BY <1>1, <1>3 DEF UniqueActive, HasKey, Active
<1>4. CASE i = n /\ j \in Ids
  BY <1>1, <1>2, <1>4 DEF HasKey, Active
<1>5. CASE i \in Ids /\ j = n
  BY <1>1, <1>2, <1>5 DEF HasKey, Active
<1> QED
  BY <1>1, <1>3, <1>4, <1>5

\* The only step that may re-activate a finished row is a late mark_failed, and the
\* unique index refuses it while another row has the key.
LEMMA UniqueOutcome ==
    ASSUME TypeOK, UniqueActive, NEW w \in Workers,
           NEW status \in {"done", "failed", "pending"}, Outcome(w, status)
    PROVE  UniqueActive'
<1> DEFINE r == slot[w].id
<1>1. /\ Ids' = Ids /\ r \in Ids
      /\ \A i \in Ids : i # r => job'[i] = job[i]
  BY OutcomeChange
<1>2. CASE job' = job
  BY <1>1, <1>2, NothingActivated DEF Active
<1>3. CASE /\ job'[r] = Moved(job[r], status)
           /\ (status = "pending" => ~Refused(w))
           /\ status # "done" => status = Verdict(w)
  <2>1. /\ job'[r].status = status
        /\ job'[r].kind = job[r].kind /\ job'[r].hash = job[r].hash
    BY <1>1, <1>3, RowTypes, MovedType, StatusMembers DEF TypeOK
  <2>2. \A j \in Ids : job'[j].kind = job[j].kind /\ job'[j].hash = job[j].hash
    BY <1>1, <2>1
  <2>3. CASE status # "pending" \/ Active(r)
    <3>1. \A j \in Ids : Active(j)' => Active(j)
      BY <1>1, <2>1, <2>3 DEF Active, ActiveStatus
    <3> QED
      BY <1>1, <2>2, <3>1, NothingActivated
  <2>4. CASE status = "pending" /\ ~Active(r)
    <3>1. \A j \in Ids : Active(j) => ~HasKey(j, job[r].kind, job[r].hash)
      BY <1>3, <2>4 DEF Refused, Taken
    <3> SUFFICES ASSUME NEW i \in Ids, NEW j \in Ids, Active(i)', Active(j)',
                        job'[i].kind = job'[j].kind, job'[i].hash = job'[j].hash
                 PROVE  i = j
      BY <1>1 DEF UniqueActive, HasKey
    <3>2. \A l \in Ids : l # r => (Active(l)' <=> Active(l))
      BY <1>1 DEF Active
    <3> HIDE DEF r
    <3>3. CASE i # r /\ j # r
      BY <2>2, <3>2, <3>3 DEF UniqueActive, HasKey
    <3>4. CASE i # r /\ j = r
      BY <2>2, <3>1, <3>2, <3>4 DEF HasKey
    <3>5. CASE i = r /\ j # r
      BY <2>2, <3>1, <3>2, <3>5 DEF HasKey
    <3> QED
      BY <3>3, <3>4, <3>5
  <2> QED
    BY <2>3, <2>4
<1> QED
  BY <1>2, <1>3, OutcomeChange

\* Every step keeps the keys of active rows apart.
LEMMA UniqueStep ==
    TypeOK /\ RowLock /\ UniqueActive /\ [Next]_vars => UniqueActive'
<1> SUFFICES ASSUME TypeOK, RowLock, UniqueActive, [Next]_vars PROVE UniqueActive'
  OBVIOUS
<1> USE DEF Active, ActiveStatus
<1>0. \A j \in Ids : job[j] \in Row
  BY RowTypes DEF TypeOK
<1>1. CASE \E k \in Kinds, h \in Hashes, p \in Priorities, b \in Nat \ {0} :
             InsertJob(k, h, p, b)
  BY <1>1, UniqueInsert
<1>2. CASE \E w \in Workers, j \in Ids : LockCandidate(w, j)
  <2>1. job' = job
    BY <1>2, LockEffect
  <2> QED
    BY <2>1, NothingActivated DEF Ids
<1>3. ASSUME NEW w \in Workers, CommitClaim(w)
      PROVE  UniqueActive'
  <2> DEFINE j == slot[w].id
  <2>1. /\ Ids' = Ids /\ j \in Ids
        /\ job'[j].kind = job[j].kind /\ job'[j].hash = job[j].hash
        /\ \A i \in Ids : i # j => job'[i] = job[i]
    BY <1>3, ClaimEffect
  <2>4. Active(j)
    BY <1>3 DEF RowLock, CommitClaim
  <2> HIDE DEF j
  <2> QED
    BY <2>1, <2>4, NothingActivated
<1>4. CASE \E w \in Workers, status \in {"done", "failed", "pending"} : Outcome(w, status)
  BY <1>4, UniqueOutcome
<1>5. ASSUME NEW w \in Workers, Reclaim(w)
      PROVE  UniqueActive'
  <2>1. Ids' = Ids /\ \A i \in Ids :
           job'[i].kind = job[i].kind /\ job'[i].hash = job[i].hash /\ (Active(i)' => Active(i))
    BY <1>0, <1>5, ReclaimEffect, MovedType, StatusMembers DEF Abandoned
  <2> QED
    BY <2>1, NothingActivated
<1>6. ASSUME NEW batch \in SUBSET Expired, Trim(batch)
      PROVE  UniqueActive'
  <2>1. Ids' = Ids /\ \A i \in Ids :
           job'[i].kind = job[i].kind /\ job'[i].hash = job[i].hash /\ (Active(i)' => Active(i))
    BY <1>0, <1>6, TrimEffect, MovedType, StatusMembers
  <2> QED
    BY <2>1, NothingActivated
<1>7. CASE Tick
  <2>1. \A i \in Ids : Older(job[i].age) \in 0..AgeCap
    BY <1>0, OlderType DEF Row
  <2>2. Ids' = Ids /\ \A i \in Ids :
           job'[i].kind = job[i].kind /\ job'[i].hash = job[i].hash
           /\ job'[i].status = job[i].status
    BY <1>0, <1>7, <2>1, TickEffect, AgedType
  <2> QED
    BY <2>2, NothingActivated
<1>8. CASE UNCHANGED vars
  BY <1>8, NothingActivated DEF vars, Ids
<1> QED
  BY <1>1, <1>2, <1>3, <1>4, <1>5, <1>6, <1>7, <1>8, StepCases

\* The dedup index: no two pending or running rows share kind and payload_hash, in
\* any interleaving and however late a slot writes its outcome.
THEOREM ActiveKeysUnique == Spec => []UniqueActive
<1>1. Init => TypeOK /\ RowLock /\ UniqueActive
  BY IdleType, EmptySeq DEF Init, TypeOK, RowLock, UniqueActive, Ids
<1>2. TypeOK /\ RowLock /\ UniqueActive /\ [Next]_vars
         => TypeOK' /\ RowLock' /\ UniqueActive'
  BY TypeStep, RowLockStep, UniqueStep
<1> QED
  BY <1>1, <1>2, PTL DEF Spec

-----------------------------------------------------------------------------
(***************************************************************************)
(* Under a timely fleet, where a slot gives its claim up before the reclaim *)
(* takes the row for abandoned, a claim is exclusive.  The invariant ties  *)
(* the age of the row to the age of the claim: that is why the reclaim,    *)
(* which sees the row only, never takes a row that is being worked on.     *)
(***************************************************************************)
Timely == HandlerBound <= StaleAfter

\* A slot that works has no more than its time behind it, and its row's age is its own.
AgesAgree ==
    \A w \in Workers :
        /\ slot[w].phase # "idle" => slot[w].age <= HandlerBound
        /\ slot[w].phase = "working" => job[slot[w].id].age = slot[w].age

\* The inductive invariant of the claims.
ClaimInv == /\ TypeOK /\ RowLock /\ AgesAgree
            /\ ClaimIsCurrent /\ OneHolder /\ AttemptsWithinBudget

\* Inserting a row leaves every claim current.
LEMMA ClaimInsert ==
    ASSUME ClaimInv, NEW k \in Kinds, NEW h \in Hashes, NEW p \in Priorities,
           NEW b \in Nat \ {0}, InsertJob(k, h, p, b)
    PROVE  AgesAgree' /\ ClaimIsCurrent' /\ OneHolder' /\ AttemptsWithinBudget'
<1> DEFINE n == Len(job) + 1
<1>1. /\ Ids' = Ids \cup {n} /\ n \notin Ids
      /\ job'[n].status = "pending" /\ job'[n].attempts = 0 /\ job'[n].max = b
      /\ \A j \in Ids : job'[j] = job[j]
      /\ slot' = slot
  BY InsertEffect DEF ClaimInv
<1> HIDE DEF n
<1>2. \A w \in Workers : slot[w].phase # "idle" => slot[w].id \in Ids
  BY DEF ClaimInv, TypeOK
<1>3. AgesAgree' /\ ClaimIsCurrent' /\ OneHolder'
  BY <1>1, <1>2 DEF ClaimInv, AgesAgree, ClaimIsCurrent, OneHolder
<1>4. AttemptsWithinBudget'
  BY <1>1 DEF ClaimInv, AttemptsWithinBudget
<1> QED
  BY <1>3, <1>4

\* Locking a candidate leaves every claim current.
LEMMA ClaimLock ==
    ASSUME ClaimInv, NEW w \in Workers, NEW j \in Ids, LockCandidate(w, j)
    PROVE  AgesAgree' /\ ClaimIsCurrent' /\ OneHolder' /\ AttemptsWithinBudget'
<1>0. /\ job' = job /\ slot'[w] = Holding("claiming", j, 0, 0)
      /\ \A v \in Workers : v # w => slot'[v] = slot[v]
  BY LockEffect DEF ClaimInv
<1>1. /\ job' = job
      /\ slot'[w].phase = "claiming" /\ slot'[w].id = j /\ slot'[w].age = 0
      /\ \A v \in Workers : v # w => slot'[v] = slot[v]
  BY <1>0 DEF Holding
<1>2. job[j].status = "pending" /\ ~Locked(j)
  BY DEF LockCandidate, Candidates, PendingFor
<1>3. AgesAgree'
  BY <1>1, QueueAssumption DEF ClaimInv, AgesAgree
<1>4. ClaimIsCurrent' /\ AttemptsWithinBudget'
  BY <1>1 DEF ClaimInv, ClaimIsCurrent, AttemptsWithinBudget, Ids
<1>5. \A v \in Workers : slot[v].phase # "idle" => slot[v].id # j
  <2>1. \A v \in Workers : slot[v].phase \in {"idle", "claiming", "working"}
    BY DEF ClaimInv, TypeOK, Slot
  <2> QED
    BY <1>2, <2>1 DEF ClaimInv, ClaimIsCurrent, Locked
<1>6. OneHolder'
  BY <1>1, <1>5 DEF ClaimInv, OneHolder
<1> QED
  BY <1>3, <1>4, <1>6

\* Committing a claim makes it current and disturbs no other.
LEMMA ClaimCommit ==
    ASSUME ClaimInv, NEW w \in Workers, CommitClaim(w)
    PROVE  AgesAgree' /\ ClaimIsCurrent' /\ OneHolder' /\ AttemptsWithinBudget'
<1> DEFINE j == slot[w].id
<1>1. /\ Ids' = Ids /\ j \in Ids
      /\ job'[j].status = "running" /\ job'[j].age = slot[w].age
      /\ job'[j].attempts = job[j].attempts + 1 /\ job'[j].max = job[j].max
      /\ \A i \in Ids : i # j => job'[i] = job[i]
      /\ slot'[w].phase = "working" /\ slot'[w].id = j
      /\ slot'[w].attempts = job[j].attempts + 1 /\ slot'[w].age = slot[w].age
      /\ \A v \in Workers : v # w => slot'[v] = slot[v]
  BY ClaimEffect DEF ClaimInv
<1>2. slot[w].phase = "claiming" /\ job[j].status = "pending"
  BY DEF CommitClaim, ClaimInv, RowLock
<1>3. \A v \in Workers : v # w /\ slot[v].phase # "idle" => slot[v].id # j /\ slot[v].id \in Ids
  BY <1>2 DEF ClaimInv, OneHolder, TypeOK
<1>4. \A i \in Ids : job[i] \in Row
  BY RowTypes DEF ClaimInv, TypeOK
<1> HIDE DEF j
<1>5. AgesAgree' /\ ClaimIsCurrent'
  BY <1>1, <1>2, <1>3 DEF ClaimInv, AgesAgree, ClaimIsCurrent
<1>6. OneHolder'
  BY <1>1, <1>2, <1>3 DEF ClaimInv, OneHolder
<1>7. AttemptsWithinBudget'
  <2>1. job[j].attempts \in Nat /\ job[j].max \in Nat
    BY <1>1, <1>4 DEF Row
  <2> QED
    BY <1>1, <1>2, <2>1 DEF ClaimInv, AttemptsWithinBudget
<1> QED
  BY <1>5, <1>6, <1>7

\* An outcome ends its own claim and disturbs no other.
LEMMA ClaimOutcome ==
    ASSUME ClaimInv, NEW w \in Workers, NEW status \in {"done", "failed", "pending"},
           Outcome(w, status)
    PROVE  AgesAgree' /\ ClaimIsCurrent' /\ OneHolder' /\ AttemptsWithinBudget'
<1> DEFINE j == slot[w].id
<1>1. /\ Ids' = Ids /\ j \in Ids
      /\ \A i \in Ids : i # j => job'[i] = job[i]
      /\ \/ job' = job
         \/ /\ job'[j] = Moved(job[j], status)
            /\ Reaches(w) /\ (status # "done" => status = Verdict(w))
      /\ slot'[w] = Idle
      /\ \A v \in Workers : v # w => slot'[v] = slot[v]
  BY OutcomeChange DEF ClaimInv
<1>2. slot'[w].phase = "idle" /\ slot[w].phase # "idle"
  BY <1>1, IdleType DEF Outcome
<1>3. \A v \in Workers : v # w /\ slot[v].phase # "idle" => slot[v].id # j /\ slot[v].id \in Ids
  BY <1>2 DEF ClaimInv, OneHolder, TypeOK
<1>4. job[j] \in Row
  BY <1>1, RowTypes DEF ClaimInv, TypeOK
<1>5. AgesAgree' /\ ClaimIsCurrent'
  BY <1>1, <1>2, <1>3 DEF ClaimInv, AgesAgree, ClaimIsCurrent
<1>6. OneHolder'
  BY <1>1, <1>2, <1>3 DEF ClaimInv, OneHolder
<1>7. AttemptsWithinBudget'
  <2>1. CASE job' = job
    BY <2>1 DEF ClaimInv, AttemptsWithinBudget, Ids
  <2>2. CASE /\ job'[j] = Moved(job[j], status)
             /\ Reaches(w) /\ (status # "done" => status = Verdict(w))
    <3>1. /\ job'[j].status = status /\ job'[j].attempts = job[j].attempts
          /\ job'[j].max = job[j].max
      BY <1>4, <2>2, MovedType, StatusMembers
    <3>2. job[j].attempts = slot[w].attempts /\ job[j].attempts <= job[j].max
      BY <1>1, <2>2 DEF ClaimInv, ClaimIsCurrent, Reaches, AttemptsWithinBudget
    <3>3. status = "pending" => job[j].attempts < job[j].max
      BY <1>4, <2>2, <3>2 DEF Verdict, Row
    <3> QED
      BY <1>1, <3>1, <3>2, <3>3 DEF ClaimInv, AttemptsWithinBudget
  <2> QED
    BY <1>1, <2>1, <2>2
<1> QED
  BY <1>5, <1>6, <1>7

\* A reclaim touches no row that a live slot holds, because their ages agree.
LEMMA ClaimReclaim ==
    ASSUME Timely, ClaimInv, NEW w \in Workers, Reclaim(w)
    PROVE  AgesAgree' /\ ClaimIsCurrent' /\ OneHolder' /\ AttemptsWithinBudget'
<1>1. /\ Ids' = Ids /\ slot' = slot
      /\ \A j \in Ids : IF Abandoned(j, PoolKinds[w])
            THEN job'[j] = Moved(job[j], IF job[j].attempts >= job[j].max
                                         THEN "failed" ELSE "pending")
            ELSE job'[j] = job[j]
  BY ReclaimEffect DEF ClaimInv
<1>2. \A j \in Ids : job[j] \in Row
  BY RowTypes DEF ClaimInv, TypeOK
<1>3. \A v \in Workers : slot[v].phase = "working" =>
         slot[v].id \in Ids /\ ~Abandoned(slot[v].id, PoolKinds[w])
  <2> SUFFICES ASSUME NEW v \in Workers, slot[v].phase = "working"
               PROVE  slot[v].id \in Ids /\ ~(job[slot[v].id].age > StaleAfter)
    BY DEF Abandoned
  <2>1. job[slot[v].id].age <= HandlerBound /\ slot[v].id \in Ids
    BY DEF ClaimInv, AgesAgree, TypeOK
  <2>2. job[slot[v].id].age \in Int
    BY <1>2, <2>1, QueueAssumption DEF Row
  <2> QED
    BY <2>1, <2>2, QueueAssumption DEF Timely
<1>4. AgesAgree' /\ ClaimIsCurrent' /\ OneHolder'
  BY <1>1, <1>3 DEF ClaimInv, AgesAgree, ClaimIsCurrent, OneHolder
<1>5. AttemptsWithinBudget'
  <2> SUFFICES ASSUME NEW j \in Ids
               PROVE  /\ job'[j].attempts <= job'[j].max
                      /\ job'[j].status = "pending" => job'[j].attempts < job'[j].max
    BY <1>1 DEF AttemptsWithinBudget
  <2>1. CASE ~Abandoned(j, PoolKinds[w])
    BY <1>1, <2>1 DEF ClaimInv, AttemptsWithinBudget
  <2>2. CASE Abandoned(j, PoolKinds[w])
    <3> DEFINE status == IF job[j].attempts >= job[j].max THEN "failed" ELSE "pending"
    <3>1. status \in Status
      BY StatusMembers
    <3>2. status = "pending" => job[j].attempts < job[j].max
      BY <1>2 DEF Row
    <3>3. job'[j] = Moved(job[j], status)
      BY <1>1, <2>2
    <3> HIDE DEF status
    <3>4. /\ job'[j].status = status /\ job'[j].attempts = job[j].attempts
          /\ job'[j].max = job[j].max
      BY <1>2, <3>1, <3>3, MovedType
    <3> QED
      BY <3>2, <3>4 DEF ClaimInv, AttemptsWithinBudget
  <2> QED
    BY <2>1, <2>2
<1> QED
  BY <1>4, <1>5

\* The trim touches no row that a live slot holds, because those are running.
LEMMA ClaimTrim ==
    ASSUME ClaimInv, NEW batch \in SUBSET Expired, Trim(batch)
    PROVE  AgesAgree' /\ ClaimIsCurrent' /\ OneHolder' /\ AttemptsWithinBudget'
<1>1. /\ Ids' = Ids /\ slot' = slot
      /\ \A j \in Ids : job'[j] = IF j \in batch THEN Moved(job[j], "trimmed") ELSE job[j]
  BY TrimEffect DEF ClaimInv
<1>2. \A j \in Ids : job[j] \in Row
  BY RowTypes DEF ClaimInv, TypeOK
<1>3. \A v \in Workers : slot[v].phase = "working" =>
         slot[v].id \in Ids /\ slot[v].id \notin batch
  BY DEF ClaimInv, ClaimIsCurrent, TypeOK, Expired, Finished
<1>4. AgesAgree' /\ ClaimIsCurrent' /\ OneHolder'
  BY <1>1, <1>3 DEF ClaimInv, AgesAgree, ClaimIsCurrent, OneHolder
<1>5. \A j \in batch : /\ job'[j].status = "trimmed" /\ job'[j].max = job[j].max
                       /\ job'[j].attempts = job[j].attempts
  BY <1>1, <1>2, MovedType, StatusMembers DEF Expired
<1>6. AttemptsWithinBudget'
  BY <1>1, <1>5 DEF ClaimInv, AttemptsWithinBudget
<1> QED
  BY <1>4, <1>6

\* Row and claim age together.
LEMMA ClaimTick ==
    ASSUME Timely, ClaimInv, Tick
    PROVE  AgesAgree' /\ ClaimIsCurrent' /\ OneHolder' /\ AttemptsWithinBudget'
<1>1. /\ Ids' = Ids
      /\ \A j \in Ids : job'[j] = IF Ages(j) THEN Aged(job[j], Older(job[j].age)) ELSE job[j]
      /\ \A w \in Workers : slot'[w] = IF slot[w].phase # "idle"
                 THEN Aged(slot[w], Older(slot[w].age)) ELSE slot[w]
  BY TickEffect DEF ClaimInv
<1>2. \A j \in Ids : job[j] \in Row /\ Older(job[j].age) \in 0..AgeCap
  BY RowTypes, OlderType DEF ClaimInv, TypeOK, Row
<1>3. \A j \in Ids :
         /\ job'[j].status = job[j].status /\ job'[j].attempts = job[j].attempts
         /\ job'[j].max = job[j].max
         /\ job[j].status = "running" => job'[j].age = Older(job[j].age)
  BY <1>1, <1>2, AgedType DEF Ages
<1>4. \A w \in Workers :
         /\ slot'[w].phase = slot[w].phase /\ slot'[w].id = slot[w].id
         /\ slot'[w].attempts = slot[w].attempts
         /\ slot[w].phase # "idle" => slot'[w].age = Older(slot[w].age)
  BY <1>1 DEF ClaimInv, TypeOK, Slot, Aged
<1>5. \A w \in Workers : slot[w].phase # "idle" => slot[w].id \in Ids
  BY DEF ClaimInv, TypeOK
<1>6. ClaimIsCurrent' /\ OneHolder' /\ AttemptsWithinBudget'
  BY <1>1, <1>3, <1>4, <1>5
     DEF ClaimInv, ClaimIsCurrent, OneHolder, AttemptsWithinBudget
<1>7. AgesAgree'
  <2>1. \A w \in Workers : slot[w].phase # "idle" => Older(slot[w].age) <= HandlerBound
    <3> SUFFICES ASSUME NEW w \in Workers, slot[w].phase # "idle"
                 PROVE  Older(slot[w].age) <= HandlerBound
      OBVIOUS
    <3>1. slot[w].age < HandlerBound /\ slot[w].age \in 0..AgeCap
      BY DEF Tick, ClaimInv, TypeOK, Slot
    <3> QED
      BY <3>1, QueueAssumption DEF Timely, Older
  <2> QED
    BY <1>3, <1>4, <1>5, <2>1 DEF ClaimInv, AgesAgree, ClaimIsCurrent
<1> QED
  BY <1>6, <1>7

\* Every step keeps the claim invariant.
LEMMA ClaimStep ==
    ASSUME Timely PROVE ClaimInv /\ [Next]_vars => ClaimInv'
<1> SUFFICES ASSUME ClaimInv, [Next]_vars
             PROVE  AgesAgree' /\ ClaimIsCurrent' /\ OneHolder' /\ AttemptsWithinBudget'
  BY TypeStep, RowLockStep DEF ClaimInv
<1>1. CASE \E k \in Kinds, h \in Hashes, p \in Priorities, b \in Nat \ {0} :
             InsertJob(k, h, p, b)
  BY <1>1, ClaimInsert
<1>2. CASE \E w \in Workers, j \in Ids : LockCandidate(w, j)
  BY <1>2, ClaimLock
<1>3. CASE \E w \in Workers : CommitClaim(w)
  BY <1>3, ClaimCommit
<1>4. CASE \E w \in Workers, status \in {"done", "failed", "pending"} : Outcome(w, status)
  BY <1>4, ClaimOutcome
<1>5. CASE \E w \in Workers : Reclaim(w)
  BY <1>5, ClaimReclaim
<1>6. CASE \E batch \in SUBSET Expired : Trim(batch)
  BY <1>6, ClaimTrim
<1>7. CASE Tick
  BY <1>7, ClaimTick
<1>8. CASE UNCHANGED vars
  BY <1>8 DEF vars, ClaimInv, AgesAgree, ClaimIsCurrent, OneHolder, AttemptsWithinBudget, Ids
<1>9. TypeOK
  BY DEF ClaimInv
<1> QED
  BY <1>1, <1>2, <1>3, <1>4, <1>5, <1>6, <1>7, <1>8, <1>9, StepCases

\* The empty queue satisfies the claim invariant.
LEMMA ClaimInit == Init => ClaimInv
<1> SUFFICES ASSUME Init PROVE ClaimInv
  OBVIOUS
<1>1. TypeOK
  BY IdleType, EmptySeq DEF Init, TypeOK
<1>2. \A w \in Workers : slot[w].phase = "idle"
  BY IdleType DEF Init
<1>3. Ids = {}
  BY DEF Init, Ids
<1> QED
  BY <1>1, <1>2, <1>3
     DEF ClaimInv, RowLock, AgesAgree, ClaimIsCurrent, OneHolder, AttemptsWithinBudget

\* In a timely fleet a slot that executes a job owns the row: running, and under the
\* attempt it claimed.
THEOREM ClaimsStayCurrent ==
    ASSUME Timely PROVE Spec => []ClaimIsCurrent
<1>1. ClaimInv => ClaimIsCurrent
  BY DEF ClaimInv
<1> QED
  BY <1>1, ClaimInit, ClaimStep, PTL DEF Spec

\* In a timely fleet a row has at most one holder.
THEOREM OneHolderPerRow ==
    ASSUME Timely PROVE Spec => []OneHolder
<1>1. ClaimInv => OneHolder
  BY DEF ClaimInv
<1> QED
  BY <1>1, ClaimInit, ClaimStep, PTL DEF Spec

\* In a timely fleet a job is never started more often than its max_attempts.
THEOREM AttemptsBounded ==
    ASSUME Timely PROVE Spec => []AttemptsWithinBudget
<1>1. ClaimInv => AttemptsWithinBudget
  BY DEF ClaimInv
<1> QED
  BY <1>1, ClaimInit, ClaimStep, PTL DEF Spec

-----------------------------------------------------------------------------
(***************************************************************************)
(* The lifecycle.  What a producer sees of a row, its view, changes in     *)
(* three ways only, and each of them is a step of JobLifecycle.            *)
(***************************************************************************)
ViewChange ==
    \/ \E k \in Kinds, h \in Hashes, p \in Priorities, b \in Nat \ {0} : InsertJob(k, h, p, b)
    \/ /\ Ids' = Ids
       /\ \A j \in Ids :
            /\ job'[j].kind = job[j].kind /\ job'[j].hash = job[j].hash
            /\ StateOf(job'[j].status) = StateOf(job[j].status)
    \/ \E S \in SUBSET Ids :
         /\ Ids' = Ids /\ S # {}
         /\ \A j \in Ids : job'[j].kind = job[j].kind /\ job'[j].hash = job[j].hash
         /\ \A j \in Ids \ S : StateOf(job'[j].status) = StateOf(job[j].status)
         /\ \/ \A j \in S : Active(j) /\ job'[j].status \in Finished
            \/ \A j \in S : job[j].status \in Finished /\ job'[j].status = "trimmed"

\* The refinement mapping, status by status.
LEMMA StateOfStatus ==
    /\ StateOf("pending") = "owed" /\ StateOf("running") = "owed"
    /\ StateOf("done") = "done" /\ StateOf("failed") = "failed"
    /\ StateOf("trimmed") = "forgotten"
BY DEF StateOf, ActiveStatus

\* An outcome settles an owed ticket or is invisible.
LEMMA ViewOutcome ==
    ASSUME ClaimInv, NEW w \in Workers, NEW status \in {"done", "failed", "pending"},
           Outcome(w, status)
    PROVE  ViewChange
<1> DEFINE j == slot[w].id
<1>1. /\ Ids' = Ids /\ j \in Ids
      /\ \A i \in Ids : i # j => job'[i] = job[i]
      /\ \/ job' = job
         \/ job'[j] = Moved(job[j], status) /\ Reaches(w)
  BY OutcomeChange DEF ClaimInv
<1>2. job[j] \in Row
  BY <1>1, RowTypes DEF ClaimInv, TypeOK
<1>3. CASE job' = job
  BY <1>1, <1>3 DEF ViewChange
<1>4. CASE job'[j] = Moved(job[j], status) /\ Reaches(w)
  <2>1. /\ job'[j].status = status
        /\ job'[j].kind = job[j].kind /\ job'[j].hash = job[j].hash
    BY <1>2, <1>4, MovedType, StatusMembers
  <2>2. job[j].status = "running"
    BY <1>4 DEF ClaimInv, ClaimIsCurrent, Reaches
  <2> HIDE DEF j
  <2>3. CASE status = "pending"
    BY <1>1, <2>1, <2>2, <2>3, StateOfStatus DEF ViewChange
  <2>4. CASE status # "pending"
    <3>1. {j} \in SUBSET Ids /\ {j} # {}
      BY <1>1
    <3>2. \A i \in Ids : job'[i].kind = job[i].kind /\ job'[i].hash = job[i].hash
      BY <1>1, <2>1
    <3>3. \A i \in Ids \ {j} : StateOf(job'[i].status) = StateOf(job[i].status)
      BY <1>1
    <3>4. \A i \in {j} : Active(i) /\ job'[i].status \in Finished
      BY <2>1, <2>2, <2>4 DEF Active, ActiveStatus, Finished
    <3> QED
      BY <1>1, <3>1, <3>2, <3>3, <3>4 DEF ViewChange
  <2> QED
    BY <2>3, <2>4
<1> QED
  BY <1>1, <1>3, <1>4

\* A reclaim settles owed tickets or is invisible.
LEMMA ViewReclaim ==
    ASSUME ClaimInv, NEW w \in Workers, Reclaim(w)
    PROVE  ViewChange
<1> DEFINE A == {j \in Ids : Abandoned(j, PoolKinds[w])}
           S == {j \in A : job[j].attempts >= job[j].max}
<1>1. /\ Ids' = Ids
      /\ \A j \in Ids : IF Abandoned(j, PoolKinds[w])
            THEN job'[j] = Moved(job[j], IF job[j].attempts >= job[j].max
                                         THEN "failed" ELSE "pending")
            ELSE job'[j] = job[j]
  BY ReclaimEffect DEF ClaimInv
<1>2. \A j \in Ids : job[j] \in Row
  BY RowTypes DEF ClaimInv, TypeOK
<1>3. \A j \in S : /\ Active(j) /\ job'[j].status = "failed"
                   /\ job'[j].kind = job[j].kind /\ job'[j].hash = job[j].hash
  BY <1>1, <1>2, MovedType, StatusMembers DEF Abandoned, Active, ActiveStatus
<1>4. \A j \in Ids \ S :
          /\ job'[j].kind = job[j].kind /\ job'[j].hash = job[j].hash
          /\ StateOf(job'[j].status) = StateOf(job[j].status)
  <2>1. \A j \in A \ S :
          /\ job'[j].status = "pending" /\ job[j].status = "running"
          /\ job'[j].kind = job[j].kind /\ job'[j].hash = job[j].hash
    BY <1>1, <1>2, MovedType, StatusMembers DEF Abandoned
  <2>2. \A j \in Ids \ A : job'[j] = job[j]
    BY <1>1
  <2> QED
    BY <2>1, <2>2, StateOfStatus
<1>5. S \in SUBSET Ids
  OBVIOUS
<1> HIDE DEF S
<1>6. CASE S = {}
  BY <1>1, <1>4, <1>6 DEF ViewChange
<1>7. CASE S # {}
  <2>1. \A j \in Ids : job'[j].kind = job[j].kind /\ job'[j].hash = job[j].hash
    BY <1>3, <1>4
  <2> QED
    BY <1>1, <1>3, <1>4, <1>5, <1>7, <2>1 DEF ViewChange, Finished
<1> QED
  BY <1>6, <1>7

\* The trim forgets settled tickets.
LEMMA ViewTrim ==
    ASSUME ClaimInv, NEW batch \in SUBSET Expired, Trim(batch)
    PROVE  ViewChange
<1>1. /\ Ids' = Ids
      /\ \A j \in Ids : job'[j] = IF j \in batch THEN Moved(job[j], "trimmed") ELSE job[j]
  BY TrimEffect DEF ClaimInv
<1>2. \A j \in Ids : job[j] \in Row
  BY RowTypes DEF ClaimInv, TypeOK
<1>3. \A j \in batch : /\ job'[j].status = "trimmed" /\ job[j].status \in Finished
                       /\ job'[j].kind = job[j].kind /\ job'[j].hash = job[j].hash
  BY <1>1, <1>2, MovedType, StatusMembers DEF Expired
<1>4. batch # {} /\ batch \in SUBSET Ids
  BY DEF Trim, Expired
<1>5. \A j \in Ids \ batch : job'[j] = job[j]
  BY <1>1
<1>6. \A j \in Ids : job'[j].kind = job[j].kind /\ job'[j].hash = job[j].hash
  BY <1>3, <1>5
<1> QED
  BY <1>1, <1>3, <1>4, <1>5, <1>6 DEF ViewChange

\* Every step is one of the changes that a producer may see.
LEMMA ViewStep ==
    ASSUME ClaimInv, [Next]_vars PROVE ViewChange
<1>1. TypeOK
  BY DEF ClaimInv
<1>2. CASE \E k \in Kinds, h \in Hashes, p \in Priorities, b \in Nat \ {0} :
             InsertJob(k, h, p, b)
  BY <1>2 DEF ViewChange
<1>3. CASE \E w \in Workers, j \in Ids : LockCandidate(w, j)
  <2>1. job' = job
    BY <1>3, LockEffect DEF ClaimInv
  <2> QED
    BY <2>1 DEF ViewChange, Ids
<1>4. ASSUME NEW w \in Workers, CommitClaim(w)
      PROVE  ViewChange
  <2> DEFINE j == slot[w].id
  <2>1. /\ Ids' = Ids /\ j \in Ids /\ job'[j].status = "running"
        /\ job'[j].kind = job[j].kind /\ job'[j].hash = job[j].hash
        /\ \A i \in Ids : i # j => job'[i] = job[i]
    BY <1>1, <1>4, ClaimEffect
  <2>2. job[j].status = "pending"
    BY <1>4 DEF ClaimInv, RowLock, CommitClaim
  <2> HIDE DEF j
  <2> QED
    BY <2>1, <2>2, StateOfStatus DEF ViewChange
<1>5. CASE \E w \in Workers, status \in {"done", "failed", "pending"} : Outcome(w, status)
  BY <1>5, ViewOutcome
<1>6. CASE \E w \in Workers : Reclaim(w)
  BY <1>6, ViewReclaim
<1>7. CASE \E batch \in SUBSET Expired : Trim(batch)
  BY <1>7, ViewTrim
<1>8. CASE Tick
  <2>1. \A j \in Ids : job[j] \in Row /\ Older(job[j].age) \in 0..AgeCap
    BY <1>1, RowTypes, OlderType DEF TypeOK, Row
  <2>2. Ids' = Ids /\ \A j \in Ids : /\ job'[j].kind = job[j].kind
                                    /\ job'[j].hash = job[j].hash
                                    /\ job'[j].status = job[j].status
    BY <1>1, <1>8, <2>1, TickEffect, AgedType
  <2> QED
    BY <2>2 DEF ViewChange
<1>9. CASE UNCHANGED vars
  BY <1>9 DEF vars, ViewChange, Ids
<1> QED
  BY <1>1, <1>2, <1>3, <1>4, <1>5, <1>6, <1>7, <1>8, <1>9, StepCases

\* In a timely fleet a finished row is final: no reclaim and no late outcome puts a
\* done or failed job back on the queue or rewrites how it ended.
THEOREM FinishedStaysFinal ==
    ASSUME Timely PROVE Spec => FinishedIsFinal
<1>1. ASSUME ClaimInv, [Next]_vars
      PROVE  [\A j \in Ids : job[j].status \in Finished =>
                 job'[j].status \in {job[j].status, "trimmed"}]_vars
  <2>1. ViewChange
    BY <1>1, ViewStep
  <2>2. TypeOK /\ TypeOK'
    BY <1>1, TypeStep DEF ClaimInv
  <2>3. \A j \in Ids : job[j].status \in Status
    BY <2>2, RowTypes DEF TypeOK, Row
  <2>4. \A j \in Ids' : job'[j].status \in Status
    <3>1. job' \in Seq(Row)
      BY <2>2 DEF TypeOK
    <3>2. \A j \in DOMAIN job' : job'[j] \in Row
      BY <3>1, LenProperties, ElementOfSeq
    <3> QED
      BY <3>2 DEF Row, Ids
  <2>5. CASE \E k \in Kinds, h \in Hashes, p \in Priorities, b \in Nat \ {0} :
               InsertJob(k, h, p, b)
    BY <2>2, <2>5, InsertEffect
  <2>6. CASE Ids' = Ids /\ \A j \in Ids : StateOf(job'[j].status) = StateOf(job[j].status)
    BY <2>3, <2>4, <2>6, StateOfStatus, StatusMembers DEF Finished
  <2>7. ASSUME NEW S \in SUBSET Ids, Ids' = Ids,
               \A j \in Ids \ S : StateOf(job'[j].status) = StateOf(job[j].status),
               \/ \A j \in S : Active(j) /\ job'[j].status \in Finished
               \/ \A j \in S : job[j].status \in Finished /\ job'[j].status = "trimmed"
        PROVE  \A j \in Ids : job[j].status \in Finished =>
                 job'[j].status \in {job[j].status, "trimmed"}
    BY <2>3, <2>4, <2>7, StateOfStatus, StatusMembers DEF Finished, Active, ActiveStatus
  <2>8. CASE \E S \in SUBSET Ids :
         /\ Ids' = Ids
         /\ \A j \in Ids \ S : StateOf(job'[j].status) = StateOf(job[j].status)
         /\ \/ \A j \in S : Active(j) /\ job'[j].status \in Finished
            \/ \A j \in S : job[j].status \in Finished /\ job'[j].status = "trimmed"
    BY <2>7, <2>8
  <2> QED
    BY <2>1, <2>5, <2>6, <2>8 DEF ViewChange
<1> QED
  BY <1>1, ClaimInit, ClaimStep, PTL DEF Spec, FinishedIsFinal

\* The view is a sequence of tickets, and inserting a row appends its ticket.
LEMMA ViewIsSequence ==
    ASSUME job \in Seq(Row)
    PROVE  /\ ticketView \in Seq(Lifecycle!Ticket)
           /\ DOMAIN ticketView = Ids
           /\ Len(ticketView) = Len(job)
<1>1. \A j \in Ids : job[j] \in Row
  BY RowTypes
<1>2. \A j \in Ids : [kind |-> job[j].kind, hash |-> job[j].hash,
                      state |-> StateOf(job[j].status)] \in Lifecycle!Ticket
  <2>1. \A j \in Ids : StateOf(job[j].status) \in Lifecycle!State
    BY <1>1, StateOfStatus, StatusMembers DEF Row, Lifecycle!State
  <2> QED
    BY <1>1, <2>1 DEF Row, Lifecycle!Ticket
<1>3. ticketView \in [DOMAIN job -> Lifecycle!Ticket]
  BY <1>2 DEF ticketView, Ids
<1>4. \E n \in Nat : n = Len(job) /\ DOMAIN job = 1..n
  BY LenProperties
<1>5. DOMAIN ticketView = DOMAIN job /\ ticketView \in [1..Len(job) -> Lifecycle!Ticket]
  BY <1>3, <1>4
<1>6. ticketView \in Seq(Lifecycle!Ticket)
  BY <1>4, <1>5, SeqDef
<1>7. Len(ticketView) = Len(job)
  BY <1>4, <1>5, <1>6, LenProperties
<1> QED
  BY <1>5, <1>6, <1>7 DEF Ids

\* The fields of the mapped tickets.
LEMMA ViewFields ==
    \A j \in Ids : /\ ticketView[j].kind = job[j].kind
                  /\ ticketView[j].hash = job[j].hash
                  /\ ticketView[j].state = StateOf(job[j].status)
BY DEF ticketView

\* An insert is an Accept.
LEMMA AcceptStep ==
    ASSUME TypeOK, NEW k \in Kinds, NEW h \in Hashes, NEW p \in Priorities,
           NEW b \in Nat \ {0}, InsertJob(k, h, p, b)
    PROVE  Lifecycle!Accept(k, h)
<1> DEFINE n == Len(job) + 1
           t == [kind |-> k, hash |-> h, state |-> "owed"]
<1>1. /\ TypeOK'
      /\ Ids' = Ids \cup {n} /\ n \notin Ids
      /\ job'[n].status = "pending" /\ job'[n].kind = k /\ job'[n].hash = h
      /\ \A j \in Ids : job'[j] = job[j]
  BY InsertEffect
<1>2. /\ ticketView \in Seq(Lifecycle!Ticket) /\ DOMAIN ticketView = Ids
      /\ Len(ticketView) = Len(job) /\ Len(job) \in Nat
  BY ViewIsSequence, LenProperties DEF TypeOK
<1>3. ticketView' = [j \in Ids' |-> [kind |-> job'[j].kind, hash |-> job'[j].hash,
                                    state |-> StateOf(job'[j].status)]]
  BY DEF ticketView
<1>4. t \in Lifecycle!Ticket
  BY DEF Lifecycle!Ticket, Lifecycle!State
<1>5. ticketView' = Append(ticketView, t)
  <2>1. /\ Append(ticketView, t) \in Seq(Lifecycle!Ticket)
        /\ DOMAIN Append(ticketView, t) = Ids \cup {n}
        /\ Append(ticketView, t)[n] = t
        /\ \A j \in Ids : Append(ticketView, t)[j] = ticketView[j]
    BY <1>2, <1>4, ExtendedTable
  <2>2. \A j \in Ids : [kind |-> job'[j].kind, hash |-> job'[j].hash,
                        state |-> StateOf(job'[j].status)] = ticketView[j]
    BY <1>1 DEF ticketView
  <2>3. [kind |-> job'[n].kind, hash |-> job'[n].hash, state |-> StateOf(job'[n].status)] = t
    BY <1>1, StateOfStatus
  <2> DEFINE longer == Append(ticketView, t)
  <2> HIDE DEF n, t, longer
  <2>4. longer = [j \in DOMAIN longer |-> longer[j]]
    <3>1. longer \in [1..Len(longer) -> Lifecycle!Ticket]
      BY <2>1, LenProperties DEF longer
    <3> QED
      BY <3>1
  <2>5. ticketView' = [j \in Ids \cup {n} |-> longer[j]]
    BY <1>1, <1>3, <2>1, <2>2, <2>3 DEF longer
  <2> QED
    BY <2>1, <2>4, <2>5 DEF longer
<1>6. ~Lifecycle!Taken(k, h)
  <2>1. \A j \in Ids : Lifecycle!Owed(j) => Active(j)
    <3>1. \A j \in Ids : job[j].status \in Status
      BY RowTypes DEF TypeOK, Row
    <3> QED
      BY <3>1, ViewFields, StateOfStatus, StatusMembers
         DEF Lifecycle!Owed, Active, ActiveStatus
  <2> QED
    BY <1>2, <2>1, ViewFields DEF InsertJob, Taken, HasKey, Lifecycle!Taken
<1> QED
  BY <1>5, <1>6 DEF Lifecycle!Accept

\* A ticket whose state changes, field by field.
LEMMA TicketUpdate ==
    ASSUME NEW k, NEW h, NEW from, NEW to
    PROVE  [[kind |-> k, hash |-> h, state |-> from] EXCEPT !.state = to]
             = [kind |-> k, hash |-> h, state |-> to]
OBVIOUS

\* Rows that keep their key change their tickets' states only.
LEMMA MoveStep ==
    ASSUME Ids' = Ids, NEW S \in SUBSET Ids, NEW Allowed,
           \A j \in Ids : job'[j].kind = job[j].kind /\ job'[j].hash = job[j].hash,
           \A j \in Ids \ S : StateOf(job'[j].status) = StateOf(job[j].status),
           \A j \in S : StateOf(job'[j].status) \in Allowed
    PROVE  Lifecycle!Move(S, Allowed)
<1> DEFINE to == [j \in S |-> StateOf(job'[j].status)]
<1>1. to \in [S -> Allowed]
  OBVIOUS
<1>2. ticketView' = [j \in Ids |-> [kind |-> job'[j].kind, hash |-> job'[j].hash,
                                   state |-> StateOf(job'[j].status)]]
  BY DEF ticketView
<1>3. DOMAIN ticketView = Ids
  BY DEF ticketView
<1>4. \A j \in S : [ticketView[j] EXCEPT !.state = to[j]]
                   = [kind |-> job'[j].kind, hash |-> job'[j].hash,
                      state |-> StateOf(job'[j].status)]
  <2> SUFFICES ASSUME NEW j \in S
               PROVE  [ticketView[j] EXCEPT !.state = to[j]]
                        = [kind |-> job'[j].kind, hash |-> job'[j].hash,
                           state |-> StateOf(job'[j].status)]
    OBVIOUS
  <2>1. ticketView[j] = [kind |-> job[j].kind, hash |-> job[j].hash,
                         state |-> StateOf(job[j].status)]
    BY DEF ticketView
  <2>2. to[j] = StateOf(job'[j].status)
    OBVIOUS
  <2>3. job'[j].kind = job[j].kind /\ job'[j].hash = job[j].hash
    OBVIOUS
  <2> HIDE DEF to
  <2> QED
    BY <2>1, <2>2, <2>3, TicketUpdate
<1>5. \A j \in Ids \ S : ticketView[j]
                   = [kind |-> job'[j].kind, hash |-> job'[j].hash,
                      state |-> StateOf(job'[j].status)]
  BY DEF ticketView
<1>6. ticketView' = [j \in DOMAIN ticketView |->
                       IF j \in S THEN [ticketView[j] EXCEPT !.state = to[j]]
                       ELSE ticketView[j]]
  <2> HIDE DEF to
  <2> QED
    BY <1>2, <1>3, <1>4, <1>5
<1> QED
  BY <1>1, <1>6 DEF Lifecycle!Move

\* Every visible change is a step of JobLifecycle.
LEMMA LifecycleStep ==
    ASSUME TypeOK, ViewChange PROVE [Lifecycle!Next]_ticketView
<1>0. DOMAIN ticketView = Ids
  BY DEF ticketView
<1>1. ASSUME NEW k \in Kinds, NEW h \in Hashes, NEW p \in Priorities, NEW b \in Nat \ {0},
             InsertJob(k, h, p, b)
      PROVE  Lifecycle!Next
  BY <1>1, AcceptStep DEF Lifecycle!Next
<1>2. CASE /\ Ids' = Ids
           /\ \A j \in Ids :
                /\ job'[j].kind = job[j].kind /\ job'[j].hash = job[j].hash
                /\ StateOf(job'[j].status) = StateOf(job[j].status)
  <2>1. ticketView' = [j \in Ids |-> [kind |-> job'[j].kind, hash |-> job'[j].hash,
                                     state |-> StateOf(job'[j].status)]]
    BY <1>2 DEF ticketView
  <2>2. ticketView' = ticketView
    BY <1>2, <2>1 DEF ticketView
  <2> QED
    BY <2>2
<1>3. ASSUME NEW S \in SUBSET Ids, Ids' = Ids, S # {},
             \A j \in Ids : job'[j].kind = job[j].kind /\ job'[j].hash = job[j].hash,
             \A j \in Ids \ S : StateOf(job'[j].status) = StateOf(job[j].status),
             \/ \A j \in S : Active(j) /\ job'[j].status \in Finished
             \/ \A j \in S : job[j].status \in Finished /\ job'[j].status = "trimmed"
      PROVE  Lifecycle!Next
  <2>1. CASE \A j \in S : Active(j) /\ job'[j].status \in Finished
    <3>1. \A j \in S : StateOf(job'[j].status) \in {"done", "failed"}
      BY <2>1, StateOfStatus DEF Finished
    <3>2. Lifecycle!Move(S, {"done", "failed"})
      BY <1>3, <3>1, MoveStep
    <3>3. \A j \in S : Lifecycle!Owed(j)
      BY <1>3, <2>1, ViewFields, StateOfStatus DEF Active, ActiveStatus, Lifecycle!Owed
    <3> QED
      BY <1>0, <1>3, <3>2, <3>3 DEF Lifecycle!SettleSome, Lifecycle!Next
  <2>2. CASE \A j \in S : job[j].status \in Finished /\ job'[j].status = "trimmed"
    <3>1. \A j \in S : StateOf(job'[j].status) \in {"forgotten"}
      BY <2>2, StateOfStatus
    <3>2. Lifecycle!Move(S, {"forgotten"})
      BY <1>3, <3>1, MoveStep
    <3>3. \A j \in S : ticketView[j].state \in {"done", "failed"}
      BY <1>3, <2>2, ViewFields, StateOfStatus DEF Finished
    <3> QED
      BY <1>0, <1>3, <3>2, <3>3 DEF Lifecycle!ForgetSome, Lifecycle!Next
  <2> QED
    BY <1>3, <2>1, <2>2
<1> QED
  BY <1>1, <1>2, <1>3 DEF ViewChange

\* In a timely fleet the queue implements the lifecycle it promises: whatever slots,
\* reclaims, crashes and the trim do, a producer sees accept, settle once, forget.
THEOREM QueueImplementsLifecycle ==
    ASSUME Timely PROVE Spec => ImplementsLifecycle
<1>1. Init => Lifecycle!Init
  BY DEF Init, Lifecycle!Init, ticketView, Ids
<1>2. ClaimInv /\ [Next]_vars => [Lifecycle!Next]_ticketView
  <2>1. ASSUME ClaimInv, [Next]_vars PROVE [Lifecycle!Next]_ticketView
    BY <2>1, ViewStep, LifecycleStep DEF ClaimInv
  <2> QED
    BY <2>1
<1> QED
  BY <1>1, <1>2, ClaimInit, ClaimStep, PTL DEF Spec, ImplementsLifecycle, Lifecycle!Spec

=============================================================================
