-------------------------- MODULE WorkerLoopProofs --------------------------
(***************************************************************************)
(* Proofs about the worker loop, for any concurrency and any number of     *)
(* tasks and connections.                                                  *)
(***************************************************************************)
EXTENDS WorkerLoop, FiniteSetTheorems, TLAPS

USE DEF At, To, Users, pool

\* What TypeOK says, but for the upper bound of the semaphore.
Types ==
    /\ pc \in Pc /\ turns \in 0..Max /\ due \in BOOLEAN /\ stop \in BOOLEAN
    /\ permits \in Nat
    /\ task \in [Tasks -> TaskPc]
    /\ has \in [Users -> Conns \cup {NoConn}]
    /\ idle \subseteq Conns /\ dead \subseteq Conns /\ noticed \subseteq dead

\* Where the main coroutine has a connection, and where it has claims left.
Equipped ==
    /\ pc \in {"reclaiming", "claim", "nothing"} => has[Main] # NoConn
    /\ pc \notin {"reclaiming", "reclaimed", "claim", "nothing", "raised"} => has[Main] = NoConn
    /\ pc \in {"permit", "connect", "opening", "claim"} => turns < Max

\* Behind the gather no task holds anything.
Ended ==
    /\ pc \in {"close", "stopped"} => \A t \in Tasks : task[t] \in {"none", "done"}
    /\ At("stopped") => idle = {}

\* The inductive invariant of the process.
Inv == Types /\ Equipped /\ Ended /\ OwnedByOne

\* What an acquire does to the pool.
LEMMA AcquireEffect ==
    ASSUME Inv, NEW start, NEW opening, NEW then, NEW failed,
           Acquire(start, opening, then, failed), has[Main] = NoConn
    PROVE  /\ has' \in [Users -> Conns \cup {NoConn}]
           /\ idle' \subseteq idle /\ dead' \subseteq Conns /\ noticed' \subseteq dead'
           /\ \A t \in Tasks : has'[t] = has[t]
           /\ \/ has' = has /\ pc' \in {pc, opening, failed}
              \/ /\ has'[Main] \in Conns /\ has'[Main] \notin idle' /\ pc' = then
                 /\ \A t \in Tasks : has[t] # has'[Main]
  <1>1. CASE Pop(then)  BY <1>1, LoopAssumption DEF Inv, Types, OwnedByOne, Pop, Gone, Held
  <1>2. CASE Connected(then)
    <2>1. PICK c \in Conns \ Open : has' = [has EXCEPT ![Main] = c] /\ idle' = idle /\ pc' = then
            /\ dead' = dead /\ noticed' = noticed
      BY <1>2 DEF Connected
    <2>2. c \notin idle /\ \A u \in Users : has[u] # c
      BY LoopAssumption DEF Open, Held
    <2> QED  BY <2>1, <2>2, LoopAssumption DEF Inv, Types
  <1>3. CASE UNCHANGED pool /\ pc' \in {opening, failed}  BY <1>3 DEF Inv, Types
  <1> QED  BY <1>1, <1>2, <1>3 DEF Acquire

\* What a release does to the pool.
LEMMA ReturnEffect ==
    ASSUME Inv, NEW u \in Users, NEW reuse, Return(u, reuse), has[u] # NoConn
    PROVE  /\ has' = [has EXCEPT ![u] = NoConn]
           /\ idle \subseteq idle' /\ idle' \subseteq idle \cup {has[u]} /\ idle' \subseteq Conns
           /\ has' \in [Users -> Conns \cup {NoConn}]
           /\ dead' \subseteq Conns /\ noticed' \subseteq dead'
  BY DEF Inv, Types, Return, Gone

\* A connection that was given back has one owner again, the idle list or nobody.
LEMMA ReturnOwned ==
    ASSUME Inv, NEW u \in Users, NEW reuse, Return(u, reuse), has[u] # NoConn
    PROVE  /\ \A v, w \in Users : has'[v] = has'[w] /\ has'[v] # NoConn => v = w
           /\ Held' \cap idle' = {}
  BY ReturnEffect DEF Inv, Types, OwnedByOne, Held

\* The types hold after every step.
LEMMA TypesStep ==
    ASSUME Inv, [Next]_vars
    PROVE  Types'
  <1> USE LoopAssumption DEF Inv, Pc, TaskPc
  <1>1. CASE Signal \/ ClockPasses \/ \E c \in Conns : ServerDrops(c)
    BY <1>1 DEF Types, Signal, ClockPasses, ServerDrops
  <1>2. CASE Top \/ Fill \/ TakePermit \/ Rest \/ Drain \/ Close \/ ClaimsNone
    BY <1>2 DEF Types, Top, Fill, TakePermit, Rest, Drain, Close, ClaimsNone
  <1>3. CASE ReclaimAcquires
    BY <1>3, AcquireEffect DEF Types, Equipped, ReclaimAcquires, Acquire, Pop, Connected
  <1>4. CASE ClaimAcquires
    BY <1>4, AcquireEffect DEF Types, Equipped, ClaimAcquires, Acquire, Pop, Connected
  <1>5. CASE Reclaims \/ ClaimRaises
    BY <1>5 DEF Types, Reclaims, ClaimRaises, Use, Fails
  <1>6. CASE ReclaimEnds
    BY <1>6, ReturnEffect DEF Types, ReclaimEnds
  <1>7. CASE \E t \in Tasks : ClaimsJob(t)
    BY <1>7 DEF Types, ClaimsJob, Equipped
  <1>8. CASE ReturnFalse \/ Reraise
    <2>1. permits' = permits + 1 /\ pc' \in {"rest", "backoff"} /\ UNCHANGED <<turns, due, stop, task>>
      BY <1>8 DEF ReturnFalse, Reraise
    <2>2. (has[Main] # NoConn /\ \E reuse \in BOOLEAN : Return(Main, reuse)) \/ UNCHANGED pool
      BY <1>8 DEF ReturnFalse, Reraise, Equipped
    <2> QED  BY <2>1, <2>2, ReturnEffect DEF Types
  <1>9. CASE \E t \in Tasks : TaskWorks(t)
    BY <1>9 DEF Types, TaskWorks, Use, Fails
  <1>10. CASE \E t \in Tasks : TaskReturns(t)
    BY <1>10, ReturnEffect DEF Types, TaskReturns, OwnedByOne
  <1>11. CASE \E t \in Tasks : TaskLeaves(t) \/ Discard(t)
    BY <1>11 DEF Types, TaskLeaves, Discard
  <1>12. CASE UNCHANGED vars  BY <1>12 DEF Types, vars
  <1> QED  BY <1>1, <1>2, <1>3, <1>4, <1>5, <1>6, <1>7, <1>8, <1>9, <1>10, <1>11, <1>12
           DEF Next, MainStep, TaskStep

\* After every step the main coroutine has the connection that its place calls for.
LEMMA EquippedStep ==
    ASSUME Inv, [Next]_vars
    PROVE  Equipped'
  <1> USE LoopAssumption DEF Inv
  <1>1. CASE Signal \/ ClockPasses \/ \E c \in Conns : ServerDrops(c)
    BY <1>1 DEF Equipped, Signal, ClockPasses, ServerDrops
  <1>2. CASE Top \/ Fill \/ TakePermit \/ Rest \/ Drain \/ Close \/ ClaimsNone
    BY <1>2 DEF Types, Equipped, Top, Fill, TakePermit, Rest, Drain, Close, ClaimsNone
  <1>3. CASE ReclaimAcquires
    <2>1. has[Main] = NoConn /\ pc \in {"reclaim", "reopening"}
      BY <1>3 DEF ReclaimAcquires, Acquire, Equipped
    <2> QED  BY <1>3, <2>1, AcquireEffect DEF Types, Equipped, ReclaimAcquires
  <1>4. CASE ClaimAcquires
    <2>1. has[Main] = NoConn /\ pc \in {"connect", "opening"}
      BY <1>4 DEF ClaimAcquires, Acquire, Equipped
    <2> QED  BY <1>4, <2>1, AcquireEffect DEF Types, Equipped, ClaimAcquires
  <1>5. CASE Reclaims \/ ClaimRaises
    BY <1>5 DEF Equipped, Reclaims, ClaimRaises, Use
  <1>6. CASE ReclaimEnds
    BY <1>6, ReturnEffect DEF Types, Equipped, ReclaimEnds
  <1>7. CASE \E t \in Tasks : ClaimsJob(t)
    BY <1>7 DEF Types, ClaimsJob, Equipped
  <1>8. CASE ReturnFalse \/ Reraise
    <2>1. pc' \in {"rest", "backoff"} /\ UNCHANGED turns
      BY <1>8 DEF ReturnFalse, Reraise
    <2>2. has'[Main] = NoConn
      BY <1>8, ReturnEffect DEF ReturnFalse, Reraise, Equipped, Types
    <2> QED  BY <2>1, <2>2 DEF Equipped
  <1>9. CASE \E t \in Tasks : TaskWorks(t) \/ TaskReturns(t) \/ TaskLeaves(t) \/ Discard(t)
    <2>1. PICK t \in Tasks : TaskWorks(t) \/ TaskReturns(t) \/ TaskLeaves(t) \/ Discard(t)  BY <1>9
    <2>2. has'[Main] = has[Main] /\ UNCHANGED <<pc, turns>>
      BY <2>1 DEF Types, TaskWorks, TaskReturns, TaskLeaves, Discard, Return, Use
    <2> QED  BY <2>2 DEF Equipped
  <1>10. CASE UNCHANGED vars  BY <1>10 DEF Equipped, vars
  <1> QED  BY <1>1, <1>2, <1>3, <1>4, <1>5, <1>6, <1>7, <1>8, <1>9, <1>10
           DEF Next, MainStep, TaskStep

\* Nothing starts behind the gather.
LEMMA EndedStep ==
    ASSUME Inv, [Next]_vars
    PROVE  Ended'
  <1> USE DEF Inv
  <1>1. CASE Drain \/ Close
    BY <1>1 DEF Types, Ended, Drain, Close, InFlight
  <1>2. CASE pc' \notin {"close", "stopped"}  BY <1>2 DEF Ended
  <1>3. CASE UNCHANGED <<pc, task, idle>>  BY <1>3 DEF Ended
  <1>4. CASE \E t \in Tasks : TaskStep(t)
    <2>1. PICK t \in Tasks : TaskStep(t)  BY <1>4
    <2>2. SUFFICES ASSUME pc \in {"close", "stopped"} PROVE Ended'
      BY <2>1 DEF TaskStep, TaskWorks, TaskReturns, TaskLeaves, Discard, Ended
    <2>3. task[t] \in {"none", "done"}  BY <2>2 DEF Ended
    <2> QED  BY <2>1, <2>3 DEF Types, Ended, TaskStep, TaskWorks, TaskReturns, TaskLeaves, Discard
  <1>5. CASE MainStep
    BY <1>1, <1>2, <1>5 DEF MainStep, Top, ReclaimAcquires, Reclaims, ReclaimEnds, Fill,
       TakePermit, ClaimAcquires, ClaimsJob, ClaimsNone, ClaimRaises, ReturnFalse, Reraise, Rest,
       Acquire, Pop, Connected, Ended
  <1>6. CASE Signal \/ ClockPasses \/ (\E c \in Conns : ServerDrops(c)) \/ UNCHANGED vars
    BY <1>3, <1>6 DEF Signal, ClockPasses, ServerDrops, vars
  <1> QED  BY <1>4, <1>5, <1>6 DEF Next

\* No step gives a connection two owners.
LEMMA OwnedStep ==
    ASSUME Inv, [Next]_vars
    PROVE  OwnedByOne'
  <1> USE LoopAssumption DEF Inv
  <1> DEFINE Working(t) == task[t] \in {"working", "returning"}
  <1>1. CASE UNCHANGED <<has, idle>> /\ \A t \in Tasks : Working(t)' <=> Working(t)
    BY <1>1 DEF OwnedByOne, Held
  <1>2. CASE Signal \/ ClockPasses \/ (\E c \in Conns : ServerDrops(c)) \/ Top \/ Fill \/ TakePermit
          \/ Rest \/ Drain \/ ClaimsNone \/ Reclaims \/ ClaimRaises \/ UNCHANGED vars
    <2>1. UNCHANGED <<has, idle>> /\ \A t \in Tasks : Working(t)' <=> Working(t)
      BY <1>2 DEF Types, Signal, ClockPasses, ServerDrops, Top, Fill, TakePermit, Rest, Drain,
         ClaimsNone, Reclaims, ClaimRaises, Use, vars
    <2> QED  BY <1>1, <2>1
  <1>3. CASE Close  BY <1>3 DEF Close, OwnedByOne, Held
  <1>4. CASE ReclaimAcquires \/ ClaimAcquires
    <2>1. has[Main] = NoConn /\ UNCHANGED task
      BY <1>4 DEF ReclaimAcquires, ClaimAcquires, Acquire, Equipped
    <2>2. /\ idle' \subseteq idle
          /\ \A t \in Tasks : has'[t] = has[t]
          /\ \/ has' = has
             \/ /\ has'[Main] \in Conns /\ has'[Main] \notin idle'
                /\ \A t \in Tasks : has[t] # has'[Main]
      BY <1>4, <2>1, AcquireEffect DEF ReclaimAcquires, ClaimAcquires
    <2> QED  BY <2>1, <2>2 DEF Types, OwnedByOne, Held
  <1>5. CASE ReclaimEnds \/ ReturnFalse \/ Reraise
    <2>1. CASE UNCHANGED pool
      <3>1. \A t \in Tasks : Working(t)' <=> Working(t)
        BY <1>5 DEF Types, ReclaimEnds, ReturnFalse, Reraise
      <3> QED  BY <1>1, <2>1, <3>1
    <2>2. CASE has[Main] # NoConn /\ \E reuse \in BOOLEAN : Return(Main, reuse)
      <3>1. \A t \in Tasks : (Working(t)' <=> Working(t)) /\ has'[t] = has[t]
        BY <1>5, <2>2, ReturnEffect DEF Types, ReclaimEnds, ReturnFalse, Reraise
      <3> QED  BY <2>2, <3>1, ReturnOwned DEF OwnedByOne
    <2> QED  BY <1>5, <2>1, <2>2 DEF ReclaimEnds, ReturnFalse, Reraise, Equipped
  <1>6. CASE \E t \in Tasks : ClaimsJob(t)
    BY <1>6 DEF Types, ClaimsJob, Equipped, OwnedByOne, Held
  <1>7. CASE \E t \in Tasks : TaskWorks(t) \/ TaskLeaves(t) \/ Discard(t)
    <2>1. UNCHANGED <<has, idle>> /\ \A t \in Tasks : Working(t)' <=> Working(t)
      BY <1>7 DEF Types, TaskWorks, TaskLeaves, Discard, Use
    <2> QED  BY <1>1, <2>1
  <1>8. ASSUME NEW t \in Tasks, TaskReturns(t) PROVE OwnedByOne'
    <2>1. has[t] # NoConn /\ Return(t, TRUE) /\ task' = [task EXCEPT ![t] = "leaving"]
      BY <1>8 DEF TaskReturns, OwnedByOne
    <2>2. \A s \in Tasks : Working(s)' <=> has'[s] # NoConn
      <3>1. has' = [has EXCEPT ![t] = NoConn]  BY <2>1, ReturnEffect
      <3>2. ~Working(t)' /\ has'[t] = NoConn  BY <2>1, <3>1 DEF Types
      <3>3. \A s \in Tasks : s # t => (Working(s)' <=> Working(s)) /\ has'[s] = has[s]
        BY <2>1, <3>1 DEF Types
      <3> QED  BY <3>2, <3>3 DEF OwnedByOne
    <2> QED  BY <2>1, <2>2, ReturnOwned DEF OwnedByOne
  <1> QED  BY <1>2, <1>3, <1>4, <1>5, <1>6, <1>7, <1>8 DEF Next, MainStep, TaskStep

\* The invariant holds initially and is kept.
LEMMA Invariance == Spec => []Inv
  <1>1. Init => Inv
    <2> SUFFICES ASSUME Init PROVE Inv  OBVIOUS
    <2>1. \A u \in Users : has[u] = NoConn  BY DEF Init
    <2>2. \A t \in Tasks : task[t] = "none"  BY DEF Init
    <2>3. Types
      <3>1. task \in [Tasks -> TaskPc]  BY DEF Init, TaskPc
      <3>2. has \in [Users -> Conns \cup {NoConn}]  BY DEF Init
      <3>3. pc \in Pc /\ turns \in 0..Max /\ permits \in Nat  BY LoopAssumption DEF Init, Pc
      <3>4. idle \subseteq Conns /\ dead \subseteq Conns /\ noticed \subseteq dead  BY DEF Init
      <3>5. due \in BOOLEAN /\ stop \in BOOLEAN  BY DEF Init
      <3> QED  BY <3>1, <3>2, <3>3, <3>4, <3>5 DEF Types
    <2>4. OwnedByOne  BY <2>1, <2>2 DEF Init, OwnedByOne, Held
    <2> QED  BY <2>1, <2>2, <2>3, <2>4 DEF Init, Inv, Equipped, Ended
  <1>2. Inv /\ [Next]_vars => Inv'  BY TypesStep, EquippedStep, EndedStep, OwnedStep DEF Inv
  <1> QED  BY <1>1, <1>2, PTL DEF Spec

\* OwnedByOne, for any concurrency: a connection is owned exclusively between acquire
\* and release.
THEOREM ConnectionsOwnedByOne == Spec => []OwnedByOne
  <1>1. Inv => OwnedByOne  BY DEF Inv
  <1> QED  BY <1>1, Invariance, PTL

\* StoppedClean, for any concurrency: a stopped worker holds no connection and no permit.
THEOREM ShutdownIsClean == Spec => []StoppedClean
  <1>1. Inv => StoppedClean
    BY DEF Inv, Types, Equipped, Ended, OwnedByOne, StoppedClean, Open, Held, Holders
  <1> QED  BY <1>1, Invariance, PTL

-----------------------------------------------------------------------------
\* Places of the main coroutine where it holds a permit.
Claiming == pc \in {"connect", "opening", "claim", "nothing", "raised"}

\* The tasks that hold one.
TaskHolders == {t \in Tasks : task[t] \in {"working", "returning", "leaving"}}

\* The holders are finitely many, the main coroutine among them exactly while it claims.
LEMMA HoldersFinite ==
    /\ IsFiniteSet(Holders) /\ Cardinality(Holders) \in Nat
    /\ Main \in Holders <=> Claiming
  <1>1. IsFiniteSet(Users) /\ IsFiniteSet(Tasks)  BY LoopAssumption, FS_AddElement
  <1>2. Holders \in SUBSET Users  BY DEF Holders
  <1> QED  BY <1>1, <1>2, FS_Subset, FS_CardinalityType, LoopAssumption DEF Holders, Claiming

\* How a step moves permits: not at all, one is taken by the main coroutine, one is given
\* back by a holder, or the main coroutine hands its own to a new task.
LEMMA HoldersStep ==
    ASSUME Inv, [Next]_vars
    PROVE  \/ Holders' = Holders /\ permits' = permits
           \/ /\ Main \notin Holders /\ Holders' = Holders \cup {Main}
              /\ permits > 0 /\ permits' = permits - 1
           \/ \E x \in Holders : Holders' = Holders \ {x} /\ permits' = permits + 1
           \/ \E t \in Tasks : /\ t \notin Holders /\ Main \in Holders
                               /\ Holders' = (Holders \ {Main}) \cup {t}
                               /\ permits' = permits
  <1> USE LoopAssumption DEF Inv, Types, Holders
  <1>1. CASE TakePermit  BY <1>1 DEF TakePermit
  <1>2. CASE ReturnFalse \/ Reraise
    <2>1. Main \in Holders /\ Holders' = Holders \ {Main} /\ permits' = permits + 1
      BY <1>2 DEF ReturnFalse, Reraise
    <2> QED  BY <2>1
  <1>3. ASSUME NEW t \in Tasks, ClaimsJob(t)
        PROVE  t \notin Holders /\ Main \in Holders
               /\ Holders' = (Holders \ {Main}) \cup {t} /\ permits' = permits
    BY <1>3 DEF ClaimsJob
  <1>4. ASSUME NEW t \in Tasks, TaskLeaves(t)
        PROVE  t \in Holders /\ Holders' = Holders \ {t} /\ permits' = permits + 1
    BY <1>4 DEF TaskLeaves
  <1>5. CASE UNCHANGED <<permits, task>> /\ (Claiming' <=> Claiming)
    BY <1>5 DEF Claiming
  <1>6. CASE Signal \/ ClockPasses \/ (\E c \in Conns : ServerDrops(c)) \/ UNCHANGED vars
          \/ Reclaims \/ Fill \/ ClaimsNone \/ ClaimRaises \/ Rest \/ Drain \/ Close
    BY <1>5, <1>6 DEF Claiming, Signal, ClockPasses, ServerDrops, vars, Reclaims, Fill, ClaimsNone,
       ClaimRaises, Rest, Drain, Close
  <1>7. CASE ReclaimAcquires \/ ClaimAcquires
    BY <1>5, <1>7 DEF Claiming, ReclaimAcquires, ClaimAcquires, Acquire, Pop, Connected
  <1>8. CASE Top \/ ReclaimEnds
    <2>1. permits' = permits /\ ~Claiming /\ ~Claiming'  BY <1>8 DEF Top, ReclaimEnds, Claiming
    <2>2. TaskHolders' = TaskHolders  BY <1>8 DEF Top, ReclaimEnds, TaskHolders
    <2> QED  BY <2>1, <2>2 DEF Claiming, TaskHolders
  <1>9. CASE \E t \in Tasks : TaskWorks(t) \/ TaskReturns(t) \/ Discard(t)
    <2>1. permits' = permits /\ pc' = pc  BY <1>9 DEF TaskWorks, TaskReturns, Discard
    <2>2. TaskHolders' = TaskHolders  BY <1>9 DEF TaskWorks, TaskReturns, Discard, TaskHolders
    <2> QED  BY <2>1, <2>2 DEF TaskHolders
  <1> HIDE DEF Holders
  <1> QED  BY <1>1, <1>2, <1>3, <1>4, <1>6, <1>7, <1>8, <1>9 DEF Next, MainStep, TaskStep

\* PermitsKept, for any concurrency: no permit is lost or made up on any path.
THEOREM PermitsNeverLost == Spec => []PermitsKept
  <1>1. Init => PermitsKept
    <2> SUFFICES ASSUME Init PROVE PermitsKept  OBVIOUS
    <2>1. Holders = {} /\ permits = Max  BY DEF Init, Holders
    <2> QED  BY <2>1, FS_EmptySet, LoopAssumption DEF PermitsKept
  <1>2. Inv /\ PermitsKept /\ [Next]_vars => PermitsKept'
    <2> SUFFICES ASSUME Inv, PermitsKept, [Next]_vars PROVE PermitsKept'  OBVIOUS
    <2>1. IsFiniteSet(Holders) /\ Cardinality(Holders) \in Nat /\ permits \in Nat /\ Max \in Nat
      BY HoldersFinite, LoopAssumption DEF Inv, Types
    <2>2. CASE Holders' = Holders /\ permits' = permits  BY <2>2 DEF PermitsKept
    <2>3. CASE Main \notin Holders /\ Holders' = Holders \cup {Main} /\ permits' = permits - 1
      <3>1. Cardinality(Holders') = Cardinality(Holders) + 1  BY <2>1, <2>3, FS_AddElement
      <3> QED  BY <2>1, <2>3, <3>1 DEF PermitsKept
    <2>4. ASSUME NEW x \in Holders, Holders' = Holders \ {x}, permits' = permits + 1
          PROVE  PermitsKept'
      <3>1. Cardinality(Holders') = Cardinality(Holders) - 1  BY <2>1, <2>4, FS_RemoveElement
      <3> QED  BY <2>1, <2>4, <3>1 DEF PermitsKept
    <2>5. ASSUME NEW t \in Tasks, t \notin Holders, Main \in Holders,
                 Holders' = (Holders \ {Main}) \cup {t}, permits' = permits
          PROVE  PermitsKept'
      <3>1. IsFiniteSet(Holders \ {Main}) /\ Cardinality(Holders \ {Main}) = Cardinality(Holders) - 1
        BY <2>1, <2>5, FS_RemoveElement
      <3>2. t \notin Holders \ {Main}  BY <2>5
      <3>3. Cardinality(Holders') = Cardinality(Holders \ {Main}) + 1
        BY <2>5, <3>1, <3>2, FS_AddElement
      <3> QED  BY <2>1, <2>5, <3>1, <3>3 DEF PermitsKept
    <2> QED  BY <2>2, <2>3, <2>4, <2>5, HoldersStep
  <1> QED  BY <1>1, <1>2, Invariance, PTL DEF Spec

\* TypeOK, for any concurrency; that there are never more permits than Max follows from
\* PermitsKept.
THEOREM TypeCorrect == Spec => []TypeOK
  <1>1. Inv /\ PermitsKept => TypeOK
    <2> SUFFICES ASSUME Inv, PermitsKept PROVE TypeOK  OBVIOUS
    <2>1. permits \in Nat /\ Cardinality(Holders) \in Nat  BY HoldersFinite DEF Inv, Types
    <2>2. permits \in 0..Max  BY <2>1, LoopAssumption DEF PermitsKept
    <2> QED  BY <2>2 DEF Inv, Types, TypeOK
  <1> QED  BY <1>1, Invariance, PermitsNeverLost, PTL

-----------------------------------------------------------------------------
\* Where the main coroutine waits for a permit, fewer than Max tasks are in flight.
Room == At("permit") => Cardinality(InFlight) < Max

\* Tasks in flight end behind the main coroutine's back, none begins.
LEMMA RoomStep ==
    ASSUME Inv, Room, [Next]_vars
    PROVE  Room'
  <1> SUFFICES ASSUME pc' = "permit" PROVE Cardinality(InFlight') < Max
    BY DEF Room, InFlight
  <1>1. IsFiniteSet(InFlight) /\ Cardinality(InFlight) \in Nat
    BY LoopAssumption, FS_Subset, FS_CardinalityType DEF InFlight
  <1>2. CASE Fill
    BY <1>2 DEF Fill, InFlight
  <1>3. CASE pc = "permit" /\ InFlight' \in SUBSET InFlight
    <2>1. Cardinality(InFlight') <= Cardinality(InFlight)  BY <1>1, <1>3, FS_Subset
    <2>2. Cardinality(InFlight') \in Nat
      BY <1>1, <1>3, FS_Subset, FS_CardinalityType
    <2> QED  BY <1>1, <1>3, <2>1, <2>2, LoopAssumption DEF Room
  <1>4. CASE MainStep /\ ~Fill
    BY <1>4 DEF MainStep, Top, ReclaimAcquires, Reclaims, ReclaimEnds, TakePermit, ClaimAcquires,
       ClaimsJob, ClaimsNone, ClaimRaises, ReturnFalse, Reraise, Rest, Drain, Close, Acquire, Pop,
       Connected
  <1>5. CASE \E t \in Tasks : TaskStep(t)
    <2>1. pc = "permit" /\ InFlight' \in SUBSET InFlight
      BY <1>5 DEF Inv, Types, InFlight, TaskStep, TaskWorks, TaskReturns, TaskLeaves, Discard
    <2> QED  BY <1>3, <2>1
  <1>6. CASE Signal \/ ClockPasses \/ (\E c \in Conns : ServerDrops(c)) \/ UNCHANGED vars
    BY <1>3, <1>6 DEF Signal, ClockPasses, ServerDrops, vars, InFlight
  <1> QED  BY <1>2, <1>4, <1>5, <1>6 DEF Next

\* ClaimNeverWaits, for any concurrency: with fewer than Max tasks in flight, and permits
\* held by those alone, one is free.
THEOREM PermitIsFree == Spec => []ClaimNeverWaits
  <1>1. Init => Room  BY DEF Init, Room
  <1>2. Inv /\ Room /\ [Next]_vars => Room'  BY RoomStep
  <1>3. Inv /\ Room /\ PermitsKept => ClaimNeverWaits
    <2> SUFFICES ASSUME Inv, Room, PermitsKept, pc = "permit" PROVE permits > 0
      BY DEF ClaimNeverWaits
    <2>1. IsFiniteSet(InFlight) /\ Cardinality(InFlight) \in Nat
      BY LoopAssumption, FS_Subset, FS_CardinalityType DEF InFlight
    <2>2. Holders \in SUBSET InFlight  BY DEF Holders, InFlight
    <2>3. Cardinality(Holders) <= Cardinality(InFlight) /\ Cardinality(Holders) \in Nat
      BY <2>1, <2>2, FS_Subset, HoldersFinite
    <2> QED  BY <2>1, <2>3, LoopAssumption DEF Inv, Types, Room, PermitsKept
  <1> QED  BY <1>1, <1>2, <1>3, Invariance, PermitsNeverLost, PTL DEF Spec

-----------------------------------------------------------------------------
\* What keeps the pool small: while a connection is being opened there is room for it,
\* although tasks may give theirs back meanwhile.
Few == /\ Cardinality(Open) <= Max + 1
       /\ pc \in {"opening", "reopening"} => Cardinality(Open) <= Max

\* The open connections are finitely many.
LEMMA OpenFinite ==
    ASSUME Types
    PROVE  IsFiniteSet(Open) /\ Cardinality(Open) \in Nat
  <1>1. Open \in SUBSET Conns  BY DEF Types, Open, Held
  <1> QED  BY <1>1, LoopAssumption, FS_Subset, FS_CardinalityType

\* With no connection idle and none held by the main coroutine, only tasks have one, each
\* under a permit: there are Max at most.
LEMMA HeldByTasks ==
    ASSUME Inv, PermitsKept, idle = {}, has[Main] = NoConn
    PROVE  Cardinality(Open) <= Max
  <1> DEFINE W == {t \in Tasks : has[t] # NoConn}
             f == [t \in W |-> has[t]]
  <1>1. Open = {has[t] : t \in W}  BY DEF Open, Held
  <1>2. f \in Surjection(W, Open)  BY <1>1 DEF Surjection
  <1>3. W \in SUBSET Holders  BY DEF Inv, OwnedByOne, Holders
  <1>4. IsFiniteSet(W) /\ Cardinality(W) <= Cardinality(Holders)
    BY <1>3, HoldersFinite, FS_Subset
  <1> HIDE DEF W, f
  <1>5. Cardinality(Open) <= Cardinality(W)  BY <1>2, <1>4, FS_Surjection
  <1>6. Cardinality(W) \in Nat /\ Cardinality(Open) \in Nat
    BY <1>4, FS_CardinalityType, OpenFinite DEF Inv
  <1> QED  BY <1>4, <1>5, <1>6, HoldersFinite, LoopAssumption DEF PermitsKept, Inv, Types

\* An acquire, once for the claim and once for the reclaim.
LEMMA FewAcquire ==
    ASSUME Inv, PermitsKept, Few, has[Main] = NoConn, NEW start, NEW opening, NEW then, NEW failed,
           opening \in {"opening", "reopening"}, start \notin {"opening", "reopening"},
           then \notin {"opening", "reopening"}, failed \notin {"opening", "reopening"},
           Acquire(start, opening, then, failed)
    PROVE  Few'
  <1> USE DEF Inv
  <1>0. IsFiniteSet(Open) /\ Cardinality(Open) \in Nat /\ Max \in Nat
    BY OpenFinite, LoopAssumption
  <1>1. CASE pc = start /\ Pop(then)
    <2>1. Open' \in SUBSET Open  BY <1>1 DEF Types, Pop, Open, Held
    <2>2. pc' \in {pc, then}  BY <1>1 DEF Pop
    <2>3. Cardinality(Open') <= Cardinality(Open) /\ Cardinality(Open') \in Nat
      BY <1>0, <2>1, FS_Subset, FS_CardinalityType
    <2> QED  BY <1>0, <1>1, <2>2, <2>3 DEF Few
  <1>2. CASE idle = {} /\ pc' = opening /\ UNCHANGED pool
    <2>1. Open' = Open  BY <1>2 DEF Open, Held
    <2>2. Cardinality(Open) <= Max  BY <1>2, HeldByTasks
    <2> QED  BY <1>0, <2>1, <2>2 DEF Few
  <1>3. CASE pc = opening /\ Connected(then)
    <2>1. PICK c \in Conns \ Open : has' = [has EXCEPT ![Main] = c] /\ idle' = idle /\ pc' = then
      BY <1>3 DEF Connected
    <2>2. Open' = Open \cup {c}
      BY <2>1, LoopAssumption DEF Types, Open, Held
    <2>3. Cardinality(Open') = Cardinality(Open) + 1  BY <1>0, <2>1, <2>2, FS_AddElement
    <2>4. Cardinality(Open) <= Max  BY <1>3 DEF Few
    <2> QED  BY <1>0, <2>1, <2>3, <2>4 DEF Few
  <1>4. CASE pc' = failed /\ UNCHANGED pool
    <2>1. Open' = Open  BY <1>4 DEF Open, Held
    <2> QED  BY <1>4, <2>1 DEF Few
  <1> QED  BY <1>1, <1>2, <1>3, <1>4 DEF Acquire

\* Every other step opens no connection.
LEMMA FewOther ==
    ASSUME Inv, Few, [Next]_vars, ~ReclaimAcquires, ~ClaimAcquires
    PROVE  Few'
  <1> USE DEF Inv
  <1>1. CASE Signal \/ ClockPasses \/ (\E c \in Conns : ServerDrops(c)) \/ UNCHANGED vars
          \/ Top \/ Fill \/ TakePermit \/ Rest \/ Drain \/ ClaimsNone \/ Reclaims \/ ClaimRaises
          \/ \E t \in Tasks : TaskWorks(t) \/ TaskLeaves(t) \/ Discard(t)
    <2>1. UNCHANGED <<has, idle>> /\ (pc' = pc \/ pc' \notin {"opening", "reopening"})
      BY <1>1 DEF Signal, ClockPasses, ServerDrops, Top, Fill, TakePermit, Rest, Drain, ClaimsNone,
         Reclaims, ClaimRaises, TaskWorks, TaskLeaves, Discard, Use, vars
    <2>2. Open' = Open  BY <2>1 DEF Open, Held
    <2> QED  BY <2>1, <2>2 DEF Few
  <1>2. CASE Open' \in SUBSET Open /\ (pc' = pc \/ pc' \notin {"opening", "reopening"})
    <2>1. Cardinality(Open') <= Cardinality(Open) /\ Cardinality(Open') \in Nat
          /\ Cardinality(Open) \in Nat /\ Max \in Nat
      BY <1>2, OpenFinite, FS_Subset, FS_CardinalityType, LoopAssumption
    <2> QED  BY <1>2, <2>1 DEF Few
  <1>3. CASE Close
    BY <1>2, <1>3 DEF Close, Open, Held
  <1>4. ASSUME NEW t \in Tasks, ClaimsJob(t) PROVE Few'
    <2>1. has' = [has EXCEPT ![t] = has[Main], ![Main] = NoConn] /\ idle' = idle /\ pc' = "fill"
      BY <1>4 DEF ClaimsJob
    <2>2. Held' \subseteq Held  BY <2>1 DEF Types, Held
    <2> QED  BY <1>2, <2>1, <2>2 DEF Open
  <1>5. ASSUME NEW u \in Users, NEW reuse, Return(u, reuse), has[u] # NoConn,
               pc' = pc \/ pc' \notin {"opening", "reopening"}
        PROVE  Few'
    <2>1. has' = [has EXCEPT ![u] = NoConn] /\ idle' \subseteq idle \cup {has[u]}
      BY <1>5, ReturnEffect
    <2>2. Held' \subseteq Held /\ has[u] \in Held  BY <1>5, <2>1 DEF Types, Held
    <2> QED  BY <1>2, <1>5, <2>1, <2>2 DEF Open
  <1>6. CASE ReclaimEnds \/ ReturnFalse \/ Reraise
    <2>1. pc' \in {"fill", "rest", "backoff"}  BY <1>6 DEF ReclaimEnds, ReturnFalse, Reraise
    <2>2. CASE UNCHANGED pool
      <3>1. Open' = Open  BY <2>2 DEF Open, Held
      <3> QED  BY <2>1, <3>1 DEF Few
    <2>3. CASE has[Main] # NoConn /\ \E reuse \in BOOLEAN : Return(Main, reuse)
      BY <1>5, <2>1, <2>3
    <2> QED  BY <1>6, <2>2, <2>3 DEF ReclaimEnds, ReturnFalse, Reraise, Equipped
  <1>7. CASE \E t \in Tasks : TaskReturns(t)
    BY <1>5, <1>7 DEF TaskReturns, OwnedByOne
  <1> QED  BY <1>1, <1>3, <1>4, <1>6, <1>7 DEF Next, MainStep, TaskStep

\* PoolBounded, for any concurrency: one connection per slot and one for the reclaim.
THEOREM PoolStaysBounded == Spec => []PoolBounded
  <1>1. Init => Few
    <2> SUFFICES ASSUME Init PROVE Few  OBVIOUS
    <2>1. Open = {} /\ pc = "top"  BY DEF Init, Open, Held
    <2> QED  BY <2>1, FS_EmptySet, LoopAssumption DEF Few
  <1>2. Inv /\ PermitsKept /\ Few /\ [Next]_vars => Few'
    <2> SUFFICES ASSUME Inv, PermitsKept, Few, [Next]_vars PROVE Few'  OBVIOUS
    <2>1. CASE ReclaimAcquires
      <3>1. has[Main] = NoConn  BY <2>1 DEF ReclaimAcquires, Acquire, Inv, Equipped
      <3> QED  BY <2>1, <3>1, FewAcquire DEF ReclaimAcquires
    <2>2. CASE ClaimAcquires
      <3>1. has[Main] = NoConn  BY <2>2 DEF ClaimAcquires, Acquire, Inv, Equipped
      <3> QED  BY <2>2, <3>1, FewAcquire DEF ClaimAcquires
    <2> QED  BY <2>1, <2>2, FewOther
  <1>3. Few => PoolBounded  BY DEF Few, PoolBounded, Size
  <1> QED  BY <1>1, <1>2, <1>3, Invariance, PermitsNeverLost, PTL DEF Spec

=============================================================================
