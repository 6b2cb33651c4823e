-------------------------- MODULE TrimFlightProofs --------------------------
(***************************************************************************)
(* Proofs about the single-flight trim, for any number of requests,        *)
(* payloads and rows.                                                      *)
(***************************************************************************)
EXTENDS TrimFlight, SequenceTheorems, TLAPS

USE DEF Ids, Running

\* A step of request c changes its own record only.
LEMMA CallerUpdate ==
    ASSUME TypeOK, NEW c \in Callers, NEW phase, NEW p, NEW id, Becomes(c, phase, p, id)
    PROVE  /\ \A d \in Callers : d # c => caller'[d] = caller[d]
           /\ caller'[c].phase = phase /\ caller'[c].payload = p /\ caller'[c].id = id
           /\ phase \in Phase /\ p \in Payloads /\ id \in Nat
                => caller' \in [Callers -> Caller]
    BY DEF TypeOK, Becomes, Caller

\* What is true of the record when only its phase changes.
LEMMA CallerGoes ==
    ASSUME TypeOK, NEW c \in Callers, NEW phase \in Phase, Goes(c, phase)
    PROVE  /\ \A d \in Callers : d # c => caller'[d] = caller[d]
           /\ caller'[c].phase = phase /\ caller'[c].id = caller[c].id
           /\ caller' \in [Callers -> Caller]
  <1> caller[c].payload \in Payloads /\ caller[c].id \in Nat  BY DEF TypeOK, Caller
  <1> HIDE DEF Becomes
  <1> QED  BY CallerUpdate DEF Goes

\* The table after the retirement: the running rows have failed.
LEMMA RetiredRows ==
    ASSUME TypeOK
    PROVE  /\ Retired \in Seq(Row) /\ Len(Retired) = Len(row) /\ DOMAIN Retired = Ids
           /\ \A j \in Ids : Retired[j].status =
                IF row[j].status = "running" THEN "failed" ELSE row[j].status
  <1>1. \A j \in Ids : row[j] \in Row  BY DEF TypeOK
  <1>2. \A j \in Ids : Retired[j] \in Row /\ Retired[j].status =
                IF row[j].status = "running" THEN "failed" ELSE row[j].status
    BY <1>1 DEF Retired, Row, Finished
  <1>3. DOMAIN row = 1..Len(row) /\ Len(row) \in Nat  BY DEF TypeOK
  <1>4. DOMAIN Retired = Ids  BY DEF Retired
  <1> HIDE DEF Retired
  <1>5. Retired \in [1..Len(row) -> Row]
    <2>1. Retired = [j \in Ids |-> Retired[j]]  BY DEF Retired
    <2> QED  BY <1>2, <1>3, <2>1
  <1>6. Retired \in Seq(Row) /\ Len(Retired) = Len(row)
    BY <1>3, <1>5
  <1> QED  BY <1>2, <1>4, <1>6

\* The table after begin().
LEMMA BegunRows ==
    ASSUME TypeOK, NEW c \in Callers, Begin(c)
    PROVE  /\ row' \in Seq(Row) /\ Len(row') = Len(row) + 1
           /\ Running' = {Len(row) + 1}
           /\ \A j \in Ids : row[j].status \in Finished => row'[j].status = row[j].status
  <1> DEFINE new == [status |-> "running", payload |-> caller[c].payload]
  <1>1. new \in Row  BY DEF TypeOK, Caller, Row
  <1>2. row' = Append(Retired, new)  BY DEF Begin
  <1>3. new.status = "running"  OBVIOUS
  <1> HIDE DEF new
  <1>4. /\ row' \in Seq(Row) /\ Len(row') = Len(row) + 1
        /\ \A j \in Ids : row'[j] = Retired[j]
        /\ row'[Len(row) + 1] = new /\ Ids' = Ids \cup {Len(row) + 1}
    BY <1>1, <1>2, RetiredRows, AppendProperties DEF TypeOK
  <1>5. Running' = {Len(row) + 1}  BY <1>3, <1>4, RetiredRows
  <1> QED  BY <1>4, <1>5, RetiredRows DEF Finished

\* The table after write_result.
LEMMA WrittenRows ==
    ASSUME TypeOK, NEW c \in Callers, NEW status \in Finished, WriteResult(c, status)
    PROVE  /\ row' \in Seq(Row) /\ Ids' = Ids
           /\ \A j \in Ids : row'[j].status =
                IF j = caller[c].id THEN status ELSE row[j].status
  <1>1. caller[c].id \in Ids /\ row \in Seq(Row)  BY DEF TypeOK, WriteResult
  <1>2. \A j \in Ids : row[j] \in Row  BY <1>1
  <1>3. row' = [j \in Ids |-> IF j = caller[c].id THEN [row[j] EXCEPT !.status = status]
                              ELSE row[j]]
    BY <1>1 DEF WriteResult
  <1>4. \A j \in Ids : row'[j] \in Row  BY <1>2, <1>3 DEF Row
  <1>5. Ids = 1..Len(row) /\ Len(row) \in Nat  BY <1>1
  <1>6. row' \in Seq(Row)  BY <1>3, <1>4, <1>5
  <1> QED  BY <1>2, <1>3, <1>6 DEF Row

\* The table after a retry.
LEMMA RetriedRows ==
    ASSUME TypeOK, NEW j \in Ids, DoctorRetry(j)
    PROVE  /\ row' \in Seq(Row) /\ Ids \subseteq Ids' /\ Running' = Running
           /\ \A i \in Ids : row'[i] = row[i]
  <1> DEFINE new == [status |-> "pending", payload |-> row[j].payload]
  <1>1. row[j] \in Row  BY DEF TypeOK
  <1>2. new \in Row /\ new.status = "pending"  BY <1>1 DEF Row
  <1>3. row' = Append(row, new)  BY DEF DoctorRetry
  <1> HIDE DEF new
  <1>4. /\ row' \in Seq(Row) /\ \A i \in Ids : row'[i] = row[i]
        /\ row'[Len(row) + 1] = new /\ Ids' = Ids \cup {Len(row) + 1}
    BY <1>2, <1>3, AppendProperties DEF TypeOK
  <1> QED  BY <1>2, <1>4

-----------------------------------------------------------------------------
\* What the lock protects: only its holder is between try_acquire and unlock, and
\* while its trim runs the holder's row is the one running row.
LockInv ==
    \A c \in Callers :
        /\ caller[c].phase \in {"holding", "running", "written"} => lock = c
        /\ caller[c].phase = "running" => Running = {caller[c].id}

\* The inductive invariant of the lock.
Inv == TypeOK /\ LockInv

\* A request changes its own record and leaves the table alone: the invariant holds
\* again when its own part does.
LEMMA OwnRecordOnly ==
    ASSUME Inv, NEW c \in Callers, NEW phase \in Phase, Goes(c, phase), UNCHANGED row,
           lock' \in Callers \cup {NoOne},
           phase \notin {"holding", "running", "written"},
           lock' = IF lock = c THEN NoOne ELSE lock
    PROVE  Inv'
  <1>1. /\ \A d \in Callers : d # c => caller'[d] = caller[d]
        /\ caller'[c].phase = phase /\ caller'[c].id = caller[c].id
        /\ caller' \in [Callers -> Caller]
    BY CallerGoes DEF Inv
  <1>2. TypeOK'  BY <1>1 DEF Inv, TypeOK
  <1>3. LockInv'  BY <1>1 DEF Inv, LockInv
  <1> QED  BY <1>2, <1>3 DEF Inv

\* The initial states satisfy the invariant.
LEMMA InvInit == Init => Inv
  <1> SUFFICES ASSUME Init PROVE Inv  OBVIOUS
  <1>1. row \in Seq(Row) /\ Ids = {}  BY DEF Init
  <1>2. caller \in [Callers -> Caller]  BY DEF Init, Caller, Phase
  <1> QED  BY <1>1, <1>2 DEF Init, Inv, TypeOK, LockInv

\* Every step keeps the invariant.
LEMMA InvStep == Inv /\ [Next]_vars => Inv'
  <1> USE TrimAssumption
  <1> SUFFICES ASSUME Inv, [Next]_vars PROVE Inv'  OBVIOUS
  <1>1. ASSUME NEW c \in Callers, NEW p \in Payloads, TryLock(c, p)  PROVE Inv'
    <2>1. CASE lock = NoOne
      <3>1. Becomes(c, "holding", p, 0) /\ lock' = c /\ UNCHANGED row
        BY <1>1, <2>1 DEF TryLock
      <3>2. /\ \A d \in Callers : d # c => caller'[d] = caller[d]
            /\ caller'[c].phase = "holding" /\ caller' \in [Callers -> Caller]
        BY <3>1, CallerUpdate DEF Inv, Phase
      <3>3. \A d \in Callers : caller[d].phase \notin {"holding", "running", "written"}
        BY <2>1 DEF Inv, LockInv
      <3> QED  BY <3>1, <3>2, <3>3 DEF Inv, TypeOK, LockInv
    <2>2. CASE lock # NoOne
      <3>1. Becomes(c, "polling", p, 0) /\ UNCHANGED <<lock, row>>
        BY <1>1, <2>2 DEF TryLock
      <3>2. /\ \A d \in Callers : d # c => caller'[d] = caller[d]
            /\ caller'[c].phase = "polling" /\ caller' \in [Callers -> Caller]
        BY <3>1, CallerUpdate DEF Inv, Phase
      <3> QED  BY <3>1, <3>2 DEF Inv, TypeOK, LockInv
    <2> QED  BY <2>1, <2>2
  <1>2. ASSUME NEW c \in Callers, Begin(c)  PROVE Inv'
    <2>1. /\ caller[c].phase = "holding" /\ UNCHANGED lock
          /\ Becomes(c, "running", caller[c].payload, Len(row) + 1)
      BY <1>2 DEF Begin
    <2>2. row \in Seq(Row) /\ Len(row) \in Nat /\ Ids = 1..Len(row)
      BY DEF Inv, TypeOK
    <2>3. caller[c].payload \in Payloads  BY DEF Inv, TypeOK, Caller
    <2>4. /\ \A d \in Callers : d # c => caller'[d] = caller[d]
          /\ caller'[c].phase = "running" /\ caller'[c].id = Len(row) + 1
          /\ caller' \in [Callers -> Caller]
      BY <2>1, <2>2, <2>3, CallerUpdate DEF Inv, Phase
    <2>5. row' \in Seq(Row) /\ Len(row') = Len(row) + 1 /\ Running' = {Len(row) + 1}
      BY <1>2, BegunRows DEF Inv
    <2>6. Ids \subseteq Ids' /\ Len(row) + 1 \in Ids'  BY <2>2, <2>5
    <2>7. TypeOK'  BY <2>1, <2>4, <2>5, <2>6 DEF Inv, TypeOK
    <2>8. lock = c /\ \A d \in Callers : d # c
              => caller[d].phase \notin {"holding", "running", "written"}
      BY <2>1 DEF Inv, LockInv
    <2> QED  BY <2>1, <2>4, <2>5, <2>7, <2>8 DEF Inv, LockInv
  <1>3. ASSUME NEW c \in Callers, BeginRefused(c)  PROVE Inv'
    BY <1>3, OwnRecordOnly DEF BeginRefused, Phase, Inv, LockInv
  <1>4. ASSUME NEW c \in Callers, NEW status \in Finished, WriteResult(c, status)  PROVE Inv'
    <2>1. caller[c].phase = "running" /\ Goes(c, "written") /\ UNCHANGED lock
      BY <1>4 DEF WriteResult
    <2>2. /\ \A d \in Callers : d # c => caller'[d] = caller[d]
          /\ caller'[c].phase = "written" /\ caller'[c].id = caller[c].id
          /\ caller' \in [Callers -> Caller]
      BY <2>1, CallerGoes DEF Inv, Phase
    <2>3. row' \in Seq(Row) /\ Ids' = Ids  BY <1>4, WrittenRows DEF Inv
    <2>4. TypeOK'  BY <2>1, <2>2, <2>3 DEF Inv, TypeOK
    <2>5. lock = c /\ \A d \in Callers : d # c
              => caller[d].phase \notin {"holding", "running", "written"}
      BY <2>1 DEF Inv, LockInv
    <2> QED  BY <2>1, <2>2, <2>4, <2>5 DEF Inv, LockInv
  <1>5. ASSUME NEW c \in Callers, Unlock(c)  PROVE Inv'
    BY <1>5, OwnRecordOnly DEF Unlock, Phase, Inv, LockInv
  <1>6. ASSUME NEW c \in Callers, Told(c)  PROVE Inv'
    <2>1. PICK j \in Running : Becomes(c, "told", caller[c].payload, j)  BY <1>6 DEF Told
    <2>2. UNCHANGED <<row, lock>>  BY <1>6 DEF Told
    <2>3. j \in Nat /\ caller[c].payload \in Payloads  BY DEF Inv, TypeOK, Caller
    <2>4. /\ \A d \in Callers : d # c => caller'[d] = caller[d]
          /\ caller'[c].phase = "told" /\ caller' \in [Callers -> Caller]
      BY <2>1, <2>3, CallerUpdate DEF Inv, Phase
    <2> QED  BY <2>2, <2>4 DEF Inv, TypeOK, LockInv
  <1>7. ASSUME NEW c \in Callers, NEW phase \in {"told", "idle"}, Goes(c, phase),
               caller[c].phase \in {"polling", "cut"}, UNCHANGED <<row, lock>>
        PROVE  Inv'
    <2>1. /\ \A d \in Callers : d # c => caller'[d] = caller[d]
          /\ caller'[c].phase = phase /\ caller' \in [Callers -> Caller]
      BY <1>7, CallerGoes DEF Inv, Phase
    <2> QED  BY <1>7, <2>1 DEF Inv, TypeOK, LockInv
  <1>8. ASSUME NEW c \in Callers, Cut(c)  PROVE Inv'
    BY <1>8, OwnRecordOnly DEF Cut, Phase, Inv, TypeOK
  <1>9. ASSUME NEW j \in Ids, DoctorRetry(j)  PROVE Inv'
    <2>1. row' \in Seq(Row) /\ Ids \subseteq Ids' /\ Running' = Running
      BY <1>9, RetriedRows DEF Inv
    <2> QED  BY <1>9, <2>1 DEF DoctorRetry, Inv, TypeOK, LockInv
  <1>10. CASE UNCHANGED vars  BY <1>10 DEF vars, Inv, TypeOK, LockInv
  <1>11. ASSUME NEW c \in Callers, Step(c)  PROVE Inv'
    BY <1>2, <1>3, <1>4, <1>5, <1>6, <1>7, <1>11 DEF Step, GiveUp, CutEnds
  <1> QED  BY <1>1, <1>8, <1>9, <1>10, <1>11 DEF Next

\* The invariant holds throughout.
LEMMA InvAlways == Spec => []Inv
  BY InvInit, InvStep, PTL DEF Spec

\* Rows, lock and requests keep their types.
THEOREM TypeCorrect == Spec => []TypeOK
  <1>1. Inv => TypeOK  BY DEF Inv
  <1> QED  BY <1>1, InvAlways, PTL

\* However many requests arrive, retry and lose their sessions, one trim runs at a
\* time, under the lock, and its row is the only running one.
THEOREM OneTrimAtATime == Spec => []SingleFlight
  <1>1. Inv => SingleFlight  BY DEF Inv, LockInv, SingleFlight
  <1> QED  BY <1>1, InvAlways, PTL

\* The recorded outcome of a trim never changes: retiring the rows of the dead and
\* writing a result by id touch running rows only.
THEOREM OutcomesAreFinal == Spec => FinishedIsFinal
  <1> DEFINE Final == \A j \in Ids : row[j].status \in Finished
                          => row'[j].status = row[j].status
  <1>1. Inv /\ [Next]_vars => [Final]_vars
    <2> SUFFICES ASSUME Inv, Next PROVE Final  OBVIOUS
    <2>1. CASE UNCHANGED row  BY <2>1
    <2>2. ASSUME NEW c \in Callers, Begin(c)  PROVE Final
      BY <2>2, BegunRows DEF Inv
    <2>3. ASSUME NEW c \in Callers, NEW status \in Finished, WriteResult(c, status)
          PROVE  Final
      <3>1. caller[c].phase = "running"  BY <2>3 DEF WriteResult
      <3>2. row[caller[c].id].status \notin Finished  BY <3>1 DEF Inv, LockInv, Finished
      <3> QED  BY <2>3, <3>2, WrittenRows DEF Inv
    <2>4. ASSUME NEW j \in Ids, DoctorRetry(j)  PROVE Final
      BY <2>4, RetriedRows DEF Inv
    <2> QED  BY <2>1, <2>2, <2>3, <2>4
        DEF Next, Step, TryLock, BeginRefused, Unlock, Told, GiveUp, Cut, CutEnds
  <1> QED  BY <1>1, InvAlways, PTL DEF Spec, FinishedIsFinal

=============================================================================
