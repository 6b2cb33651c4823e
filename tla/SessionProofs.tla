---------------------------- MODULE SessionProofs ----------------------------
(*******************************************************************************)
(* Proofs about the parts that collect a session and keep it, together and for *)
(* every value of the constants: any vendor's cursors, any calendar, any       *)
(* ladder of contracts and any number of names, rows, failures and fires.      *)
(*                                                                             *)
(* Each part has an inductive invariant over its own variables: the chain      *)
(* ChainInv, which compares what a job holds with the walk along the vendor's  *)
(* cursors, the evening and the months their types, the bars BarsInv and       *)
(* MoneyInv, which say that no hole is left behind what is on file, and the    *)
(* trim TrimInv, which says that the age a slot has computed spares what is    *)
(* promised.  A step of the whole is a step of one part, so AllInv, their      *)
(* conjunction, is inductive as well; the theorems follow from it at the end   *)
(* of the module.                                                              *)
(*******************************************************************************)
EXTENDS Collection, OrderLemmas, TLAPS

-----------------------------------------------------------------------------
(* An instance has operators of the library of its own, which are the library's. *)

\* The size of a set.
LEMMA SameCardinality ==
    \A S : /\ Bars!Cardinality(S) = Cardinality(S)
           /\ Trim!Cardinality(S) = Cardinality(S)
           /\ Months!Cardinality(S) = Cardinality(S)
  BY DEF Bars!Cardinality, Trim!Cardinality, Months!Cardinality, Cardinality

\* The greatest of some numbers.
LEMMA SameMax == \A S : Trim!Max(S) = Max(S)
  BY DEF Trim!Max, Max

-----------------------------------------------------------------------------
(* The chain.  A job holds the pages of the walk along the vendor's cursors as far as it has    *)
(* come; what it leaves to others is a row of its own before it is marked (option_snapshot.py). *)

\* Where a vendor's next_url leads from a page, page by page; it stays at the end.
IsWalk(v, p, w) ==
    /\ w \in [0..MaxPages -> Pages \cup {0}] /\ w[0] = p
    /\ \A n \in 0..(MaxPages - 1) : w[n] # 0 => w[n + 1] = v[w[n]]
    /\ \A m, n \in 0..MaxPages : m <= n /\ w[m] = 0 => w[n] = 0

\* The longest stretch that can be followed is as long as asked: one that is shorter has one
\* page more.
LEMMA WalkExists ==
    ASSUME VendorAssumption, NEW v \in [Pages -> Pages \cup {0}], NEW p \in Pages
    PROVE  \E w : IsWalk(v, p, w)
  <1> DEFINE After(q) == IF q = 0 THEN 0 ELSE v[q]
             Follows(w, n) == /\ w \in [0..MaxPages -> Pages \cup {0}] /\ w[0] = p
                              /\ \A i \in 0..(n - 1) : w[i + 1] = After(w[i])
             S == {n \in 0..MaxPages : \E w : Follows(w, n)}
  <1>0. MaxPages \in Nat /\ 0 <= MaxPages /\ Pages \subseteq Nat \ {0} /\ \A q \in Pages \cup {0} : After(q) \in Pages \cup {0}
    BY DEF VendorAssumption
  <1>1. S \in SUBSET Int /\ IsFiniteSet(S) /\ 0 \in S
    <2>1. S \in SUBSET (0..MaxPages)  OBVIOUS
    <2>2. Follows([n \in 0..MaxPages |-> p], 0)  BY <1>0
    <2>3. 0 \in S
      <3> HIDE DEF Follows
      <3>1. \E w : Follows(w, 0)  BY <2>2
      <3> QED  BY <1>0, <3>1
    <2>4. IsFiniteSet(0..MaxPages)  BY <1>0, FS_Interval
    <2>5. \A e \in 0..MaxPages : e \in Int  OBVIOUS
    <2> HIDE DEF S
    <2> QED  BY <2>1, <2>3, <2>4, <2>5, FS_Subset
  <1>2. Max(S) \in S /\ \A e \in S : e <= Max(S)
    <2> HIDE DEF S
    <2> QED  BY <1>1, MaxIsGreatest
  <1>3. PICK w : Follows(w, Max(S))  BY <1>2
  <1>4. Max(S) \in 0..MaxPages  BY <1>2
  <1> DEFINE m == Max(S)
  <1> HIDE DEF After
  <1>5. m = MaxPages
    <2> SUFFICES ASSUME m # MaxPages PROVE FALSE  OBVIOUS
    <2>1. m \in 0..MaxPages /\ m < MaxPages /\ m + 1 \in 0..MaxPages  BY <1>0, <1>4
    <2>2. Follows(w, m)  BY <1>3
    <2>3. \A e \in S : e <= m  BY <1>2
    <2> HIDE DEF m
    <2> DEFINE u == [w EXCEPT ![m + 1] = After(w[m])]
    <2>4. w[m] \in Pages \cup {0}  BY <2>1, <2>2
    <2>5. After(w[m]) \in Pages \cup {0}  BY <1>0, <2>4
    <2>6. u \in [0..MaxPages -> Pages \cup {0}] /\ u[m + 1] = After(w[m])
          /\ \A i \in 0..m : u[i] = w[i]
      BY <2>1, <2>2, <2>5
    <2>7. \A i \in 0..m : u[i + 1] = After(u[i])
      <3> SUFFICES ASSUME NEW i \in 0..m PROVE u[i + 1] = After(u[i])  OBVIOUS
      <3> HIDE DEF u
      <3>1. CASE i = m  BY <2>1, <2>6, <3>1
      <3>2. CASE i # m
        <4>1. i \in 0..(m - 1) /\ i + 1 \in 0..m  BY <2>1, <3>2
        <4> QED  BY <2>2, <2>6, <4>1
      <3> QED  BY <3>1, <3>2
    <2>8. u[0] = p  BY <2>1, <2>2, <2>6
    <2> HIDE DEF u
    <2>9. Follows(u, m + 1)
      <3>1. \A i \in 0..((m + 1) - 1) : i \in 0..m  BY <2>1
      <3>2. \A i \in 0..((m + 1) - 1) : u[i + 1] = After(u[i])  BY <2>7, <3>1
      <3>3. u \in [0..MaxPages -> Pages \cup {0}]  BY <2>6
      <3> QED  BY <2>8, <3>2, <3>3
    <2>10. m + 1 \in S  BY <2>1, <2>9
    <2> QED  BY <2>1, <2>3, <2>10
  <1>6. Follows(w, MaxPages)  BY <1>3, <1>5
  <1>7. \A n \in 0..(MaxPages - 1) : w[n + 1] = After(w[n])  BY <1>6
  \* A walk that has ended has ended for good.
  <1>8. ASSUME NEW a \in 0..MaxPages, w[a] = 0, NEW b \in 0..MaxPages, a <= b PROVE w[b] = 0
    <2> DEFINE Z == {n \in a..MaxPages : \A c \in a..n : w[c] = 0}
    <2>1. Z \in SUBSET Int /\ IsFiniteSet(Z) /\ a \in Z
      <3>1. Z \in SUBSET (a..MaxPages)  OBVIOUS
      <3>2. a \in Z
        <4>1. a \in a..MaxPages /\ \A c \in a..a : c = a  BY <1>0
        <4> QED  BY <1>8, <4>1
      <3>3. IsFiniteSet(a..MaxPages)  BY <1>0, FS_Interval
      <3>4. \A e \in a..MaxPages : e \in Int  BY <1>0
      <3> HIDE DEF Z
      <3> QED  BY <3>1, <3>2, <3>3, <3>4, FS_Subset
    <2>2. Max(Z) \in Z /\ \A e \in Z : e <= Max(Z)
      <3> HIDE DEF Z
      <3> QED  BY <2>1, MaxIsGreatest
    <2> DEFINE z == Max(Z)
    <2>3. z \in a..MaxPages /\ (\A c \in a..z : w[c] = 0) /\ \A e \in Z : e <= z  BY <2>2
    <2> HIDE DEF z
    <2>4. z = MaxPages
      <3> SUFFICES ASSUME z # MaxPages PROVE FALSE  OBVIOUS
      <3>1. z \in 0..(MaxPages - 1) /\ z + 1 \in a..MaxPages /\ z \in a..z  BY <1>0, <2>3
      <3>2. w[z + 1] = 0  BY <1>7, <2>3, <3>1 DEF After
      <3>3. \A c \in a..(z + 1) : w[c] = 0
        <4>1. \A c \in a..(z + 1) : c = z + 1 \/ c \in a..z  BY <3>1
        <4> QED  BY <2>3, <3>2, <4>1
      <3>4. z + 1 \in Z  BY <3>1, <3>3
      <3> QED  BY <2>3, <3>1, <3>4
    <2>5. b \in a..z  BY <1>0, <1>8, <2>4
    <2> QED  BY <2>3, <2>5
  <1>9. IsWalk(v, p, w)
    <2>1. \A n \in 0..(MaxPages - 1) : w[n] # 0 => w[n + 1] = v[w[n]]  BY <1>7 DEF After
    <2> QED  BY <1>6, <1>8, <2>1 DEF IsWalk
  <1> QED  BY <1>9

\* The walk from the first page of a payload.
Walk(k) == CHOOSE w : IsWalk(next, k[1], w)

\* A job that downloads holds the walk as far as it has come, one that has committed has
\* brought it to the table, and one that is to be marked has seen to the rest.
Downloads(k) ==
    /\ job[k].pc = "guard" => job[k].pages = 0 /\ job[k].got = {}
    /\ job[k].pc \in {"paging", "upsert", "continue", "mark"} =>
         /\ job[k].at = Walk(k)[job[k].pages]
         /\ job[k].got = {Walk(k)[n] : n \in 0..(job[k].pages - 1)}
         /\ 0 \notin job[k].got
    /\ job[k].pc = "paging" => job[k].pages < MaxPages /\ job[k].at # 0
    /\ job[k].pc \in {"upsert", "continue", "mark"} =>
         job[k].pages > 0 /\ (job[k].pages < MaxPages => job[k].at = 0)
    /\ job[k].status # "running" => job[k].pc = "idle"
    /\ job[k].status = "pending" => job[k].attempts < MaxAttempts

\* A job that has committed has brought its walk to the table.
Commits(k) ==
    /\ job[k].pc \in {"continue", "mark"} => job[k].got \subseteq table
    /\ job[k].status = "done" => k[1] \in table

\* A job that is to be marked has seen to the rest of the chain.
Continues(k) ==
    job[k].pc = "mark" /\ job[k].at # 0 /\ k[2] < MaxDepth =>
        job[<<job[k].at, k[2] + 1>>].status # "none"

\* A page whose next one is not in the table was the last of a job, and that job is not
\* done, or its continuation was enqueued.
Owed(p, k) ==
    /\ Walk(k)[MaxPages] = next[p]
    /\ \/ job[k].status \notin {"none", "done"}
       \/ k[2] < MaxDepth /\ job[<<next[p], k[2] + 1>>].status # "none"

\* Every page on file is followed by one on file, or that one is owed.
NextIsOwed == \A p \in table : next[p] \in table \cup {0} \/ \E k \in Payload : Owed(p, k)

\* The inductive invariant of the chain.
ChainInv ==
    /\ TypeOK
    /\ \A k \in Payload : Downloads(k) /\ Commits(k) /\ Continues(k)
    /\ NextIsOwed

\* No row is forgotten.
NoneForgotten == \A k \in Payload : job[k].status # "none" => job'[k].status # "none"

\* Constants and payloads, unfolded.
LEMMA Facts ==
    ASSUME VendorAssumption, TypeOK
    PROVE  /\ Pages \subseteq Nat \ {0} /\ 1 \in Pages /\ First \in Payload
           /\ MaxPages \in Nat \ {0} /\ MaxDepth \in Nat /\ MaxAttempts \in Nat \ {0}
           /\ MaxRetries \in Nat /\ MaxRuns \in Nat
           /\ next \in [Pages -> Pages \cup {0}]
           /\ \A k \in Payload : /\ job[k] \in Job /\ k = <<k[1], k[2]>>
                                 /\ k[1] \in Pages /\ k[2] \in 0..MaxDepth
           /\ \A p \in Pages, d \in 0..MaxDepth : <<p, d>> \in Payload
           /\ \A s \in Status, a \in 0..MaxAttempts : Row(s, a) \in Job
  BY DEF VendorAssumption, TypeOK, Payload, First, Row, Job, Pc

\* The walk of a payload.
LEMMA WalkFacts ==
    ASSUME VendorAssumption, TypeOK, NEW k \in Payload
    PROVE  IsWalk(next, k[1], Walk(k))
  <1>1. next \in [Pages -> Pages \cup {0}] /\ k[1] \in Pages
    BY DEF TypeOK, Payload, VendorAssumption
  <1>2. \E w : IsWalk(next, k[1], w)  BY <1>1, WalkExists
  <1> HIDE DEF IsWalk
  <1> QED  BY <1>2 DEF Walk

\* A job that does not move stays in place, while the table grows and rows are added.
LEMMA OthersStand ==
    ASSUME VendorAssumption, TypeOK, NEW k \in Payload, Downloads(k), Commits(k), Continues(k),
           job'[k] = job[k], next' = next, table \subseteq table', NoneForgotten
    PROVE  Downloads(k)' /\ Commits(k)' /\ Continues(k)'
  <1>1. Walk(k)' = Walk(k)  BY DEF Walk
  <1>2. Downloads(k)'  BY <1>1 DEF Downloads
  <1>3. Commits(k)'  BY DEF Commits
  <1>4. Continues(k)'
    <2>1. SUFFICES ASSUME job[k].pc = "mark", job[k].at # 0, k[2] < MaxDepth
                   PROVE  job'[<<job[k].at, k[2] + 1>>].status # "none"
      BY DEF Continues
    <2>2. job[k].at \in Pages /\ k[2] + 1 \in 0..MaxDepth
      BY <2>1, Facts DEF Job
    <2>3. <<job[k].at, k[2] + 1>> \in Payload  BY <2>2, Facts
    <2> QED  BY <2>1, <2>3 DEF Continues, NoneForgotten
  <1> QED  BY <1>2, <1>3, <1>4

\* A row that holds no work is in place.
LEMMA RowInPlace ==
    ASSUME VendorAssumption, NEW k \in Payload, NEW s \in Status \ {"running", "done"},
           NEW a \in 0..MaxAttempts, s = "pending" => a < MaxAttempts, job'[k] = Row(s, a)
    PROVE  Downloads(k)' /\ Commits(k)' /\ Continues(k)'
  <1>1. job'[k].pc = "idle" /\ job'[k].status = s /\ job'[k].attempts = a  BY DEF Row
  <1> QED  BY <1>1 DEF Downloads, Commits, Continues

\* What a page is owed stays owed, while rows are added and none is done.
LEMMA OwedStays ==
    ASSUME VendorAssumption, TypeOK, next' = next, NoneForgotten, NEW p \in Pages, next[p] # 0,
           NEW k \in Payload, Owed(p, k),
           job[k].status \notin {"none", "done"} => job'[k].status \notin {"none", "done"}
    PROVE  Owed(p, k)'
  <1>1. Walk(k)' = Walk(k)  BY DEF Walk
  <1>2. CASE job[k].status \notin {"none", "done"}  BY <1>1, <1>2 DEF Owed
  <1>3. CASE k[2] < MaxDepth /\ job[<<next[p], k[2] + 1>>].status # "none"
    <2>1. next[p] \in Pages /\ k[2] + 1 \in 0..MaxDepth  BY <1>3, Facts
    <2>2. <<next[p], k[2] + 1>> \in Payload  BY <2>1, Facts
    <2> QED  BY <1>1, <1>3, <2>2 DEF Owed, NoneForgotten
  <1> QED  BY <1>2, <1>3 DEF Owed

\* A step that moves one job and commits nothing.
LEMMA QuietStep ==
    ASSUME VendorAssumption, ChainInv, NEW k \in Payload, NEW r \in Job, Set(k, r),
           next' = next, table' = table,
           r.status \notin {"none", "done"} \/ (r.status = "none" /\ job[k].status = "none"),
           session' \in {"open", "closed", "past"}, runs' \in 0..MaxRuns,
           Downloads(k)', Commits(k)', Continues(k)'
    PROVE  ChainInv'
  <1>1. job' = [job EXCEPT ![k] = r] /\ job \in [Payload -> Job]  BY DEF Set, ChainInv, TypeOK
  <1>2. job'[k] = r /\ \A j \in Payload : j # k => job'[j] = job[j]  BY <1>1
  <1>3. TypeOK'  BY <1>1 DEF ChainInv, TypeOK
  <1>4. NoneForgotten  BY <1>2 DEF NoneForgotten
  <1>5. ASSUME NEW j \in Payload PROVE Downloads(j)' /\ Commits(j)' /\ Continues(j)'
    <2>1. CASE j = k  BY <2>1
    <2>2. CASE j # k  BY <1>2, <1>4, <2>2, OthersStand DEF ChainInv
    <2> QED  BY <2>1, <2>2
  <1>6. NextIsOwed'
    <2>1. SUFFICES ASSUME NEW p \in table, next[p] \notin table \cup {0}
                   PROVE  \E j \in Payload : Owed(p, j)'
      BY DEF NextIsOwed
    <2>2. PICK j \in Payload : Owed(p, j)  BY <2>1 DEF ChainInv, NextIsOwed
    <2>3. p \in Pages  BY <2>1 DEF ChainInv, TypeOK
    <2>4. job[j].status \notin {"none", "done"} => job'[j].status \notin {"none", "done"}
      BY <1>2
    <2>5. Owed(p, j)'  BY <1>4, <2>1, <2>2, <2>3, <2>4, OwedStays DEF ChainInv
    <2> QED  BY <2>5
  <1> QED  BY <1>3, <1>5, <1>6 DEF ChainInv

\* A row is enqueued, or is there already.
LEMMA InsertStep ==
    ASSUME VendorAssumption, TypeOK, NEW jobs \in [Payload -> Job], NEW k \in Payload
    PROVE  /\ Inserted(jobs, k) \in [Payload -> Job]
           /\ \A j \in Payload : j # k => Inserted(jobs, k)[j] = jobs[j]
           /\ Inserted(jobs, k)[k] \in {jobs[k], Row("pending", 0)}
           /\ Inserted(jobs, k)[k].status \in {"pending", "running"}
  <1>1. Row("pending", 0) \in Job /\ Row("pending", 0).status = "pending"
    BY Facts DEF Status, Row
  <1> QED  BY <1>1 DEF Inserted

\* The chain is enqueued from its first page.
LEMMA EnqueueStep ==
    ASSUME VendorAssumption, ChainInv, Enqueue
    PROVE  ChainInv'
  <1>1. TypeOK /\ job \in [Payload -> Job] /\ First \in Payload  BY Facts DEF ChainInv, TypeOK
  <1>2. job' = Inserted(job, First) /\ next' = next /\ table' = table /\ session' = session
        /\ runs' \in 0..MaxRuns
    BY <1>1, Facts DEF Enqueue, TypeOK
  <1>3. CASE Active(First)
    <2>1. job' = job  BY <1>2, <1>3 DEF Inserted, Active
    <2>2. Set(First, job[First])  BY <1>1, <2>1 DEF Set
    <2>3. job[First] \in Job /\ job[First].status \notin {"none", "done"}
      BY <1>1, <1>3 DEF Active
    <2>4. NoneForgotten  BY <2>1 DEF NoneForgotten
    <2>5. Downloads(First)' /\ Commits(First)' /\ Continues(First)'
      BY <1>1, <1>2, <2>1, <2>4, OthersStand DEF ChainInv
    <2> QED  BY <1>1, <1>2, <2>2, <2>3, <2>5, QuietStep DEF TypeOK
  <1>4. CASE ~Active(First)
    <2>1. Set(First, Row("pending", 0))  BY <1>2, <1>4 DEF Set, Inserted, Active
    <2>2. Row("pending", 0) \in Job /\ Row("pending", 0).status = "pending"
      BY <1>1, Facts DEF Status, Row
    <2>3. job'[First] = Row("pending", 0)  BY <1>1, <2>1 DEF Set
    <2>4. Downloads(First)' /\ Commits(First)' /\ Continues(First)'
      BY <1>1, <2>3, Facts, RowInPlace DEF Status
    <2> QED  BY <1>1, <1>2, <2>1, <2>2, <2>4, QuietStep DEF TypeOK
  <1> QED  BY <1>3, <1>4

\* A claim starts from nothing.  Like the guard, a page, a retry and a failure it moves one
\* job and commits nothing.
LEMMA ClaimStep ==
    ASSUME VendorAssumption, ChainInv, NEW k \in Payload, Claim(k)
    PROVE  ChainInv'
  <1> DEFINE r == [Row("running", job[k].attempts + 1) EXCEPT !.pc = "guard"]
  <1>1. TypeOK /\ job[k] \in Job /\ job[k].attempts < MaxAttempts
    BY Facts DEF ChainInv, Downloads, Claim
  <1>2. job[k].attempts + 1 \in 0..MaxAttempts  BY <1>1, Facts DEF Job
  <1>3. /\ r \in Job /\ r.status = "running" /\ r.pc = "guard"
        /\ r.pages = 0 /\ r.got = {}
    BY <1>1, <1>2, Facts DEF Row, Job, Status, Pc
  <1>4. Set(k, r)  BY DEF Claim
  <1>5. job'[k] = r  BY <1>1, <1>4 DEF Set, TypeOK
  <1> HIDE DEF r
  <1>6. Downloads(k)' /\ Commits(k)' /\ Continues(k)'
    BY <1>3, <1>5 DEF Downloads, Commits, Continues
  <1> QED  BY <1>1, <1>3, <1>4, <1>6, QuietStep DEF Claim, TypeOK

\* The guard lets the download start, or skips it.
LEMMA GuardStep ==
    ASSUME VendorAssumption, ChainInv, NEW k \in Payload, Guard(k)
    PROVE  ChainInv'
  <1>1. TypeOK /\ job[k] \in Job /\ job[k].status = "running" /\ job \in [Payload -> Job]
    BY Facts DEF ChainInv, Guard, Is, TypeOK
  <1>2. CASE Intraday \/ session = "closed"
    <2> DEFINE r == [job[k] EXCEPT !.pc = "paging", !.at = k[1]]
    <2>1. /\ r \in Job /\ r.status = "running" /\ r.pc = "paging" /\ r.at = k[1]
          /\ r.pages = job[k].pages /\ r.got = job[k].got
      BY <1>1, Facts DEF Job, Pc
    <2>2. Set(k, r)  BY <1>2 DEF Guard
    <2>3. job'[k] = r /\ next' = next  BY <1>1, <2>2 DEF Set, Guard
    <2>4. r.pages = 0 /\ r.got = {}  BY <2>1 DEF ChainInv, Downloads, Guard, Is
    <2> HIDE DEF r
    <2>5. Walk(k)' = Walk(k) /\ Walk(k)[0] = k[1]
      BY <1>1, <2>3, WalkFacts DEF Walk, IsWalk
    <2>6. {Walk(k)[n] : n \in 0..(0 - 1)} = {}  OBVIOUS
    <2>7. k[1] # 0 /\ 0 < MaxPages  BY <1>1, Facts
    <2>8. Downloads(k)'  BY <2>1, <2>3, <2>4, <2>5, <2>6, <2>7 DEF Downloads
    <2>9. Commits(k)' /\ Continues(k)'  BY <2>1, <2>3 DEF Commits, Continues
    <2> QED  BY <1>1, <2>1, <2>2, <2>8, <2>9, QuietStep DEF Guard, TypeOK
  <1>3. CASE ~(Intraday \/ session = "closed")
    <2> DEFINE r == [job[k] EXCEPT !.pc = "leave"]
    <2>1. r \in Job /\ r.status = "running" /\ r.pc = "leave"  BY <1>1 DEF Job, Pc
    <2>2. Set(k, r)  BY <1>3 DEF Guard
    <2>3. job'[k] = r  BY <1>1, <2>2 DEF Set
    <2> HIDE DEF r
    <2>4. Downloads(k)' /\ Commits(k)' /\ Continues(k)'
      BY <2>1, <2>3 DEF Downloads, Commits, Continues
    <2> QED  BY <1>1, <2>1, <2>2, <2>4, QuietStep DEF Guard, TypeOK
  <1> QED  BY <1>2, <1>3

\* A page takes the walk one step on.
LEMMA PageStep ==
    ASSUME VendorAssumption, ChainInv, NEW k \in Payload, Page(k)
    PROVE  ChainInv'
  <1> DEFINE p == job[k].at
             n == job[k].pages + 1
             r == [job[k] EXCEPT !.got = @ \cup {p}, !.at = next[p], !.pages = n, !.tries = 0,
                                 !.pc = Onward(next[p], n)]
  <1>1. /\ TypeOK /\ job[k] \in Job /\ job[k].status = "running" /\ job[k].pc = "paging"
        /\ job \in [Payload -> Job] /\ next' = next /\ table' = table /\ session' = session
        /\ runs' = runs
    BY Facts DEF ChainInv, Page, Is, TypeOK
  <1>2. /\ p = Walk(k)[job[k].pages] /\ p # 0 /\ job[k].pages < MaxPages
        /\ job[k].got = {Walk(k)[m] : m \in 0..(job[k].pages - 1)} /\ 0 \notin job[k].got
    BY <1>1 DEF ChainInv, Downloads
  <1>3. p \in Pages /\ next[p] \in Pages \cup {0} /\ job[k].pages \in Nat /\ n \in 0..MaxPages
    BY <1>1, <1>2, Facts DEF Job
  <1>4. r \in Job /\ r.status = "running"
    <2>1. /\ job[k].got \cup {p} \in SUBSET Pages /\ next[p] \in Pages \cup {0}
          /\ n \in 0..MaxPages /\ 0 \in 0..MaxRetries /\ Onward(next[p], n) \in Pc
      BY <1>1, <1>3, Facts DEF Job, Pc, Onward
    <2> HIDE DEF n
    <2> QED  BY <1>1, <2>1 DEF Job
  <1>5. Set(k, r)  BY DEF Page
  <1>6. job'[k] = r  BY <1>1, <1>5 DEF Set
  <1>7. r.pc = Onward(next[p], n) /\ r.got = job[k].got \cup {p} /\ r.at = next[p] /\ r.pages = n
    BY <1>1 DEF Job
  <1>8. Walk(k)' = Walk(k)  BY <1>1 DEF Walk
  <1>9. next[p] = Walk(k)[n]
    <2>1. job[k].pages \in 0..(MaxPages - 1)  BY <1>2, <1>3, Facts, <1>1
    <2> QED  BY <1>1, <1>2, <2>1, WalkFacts DEF IsWalk
  <1>10. job[k].got \cup {p} = {Walk(k)[m] : m \in 0..(n - 1)}
    <2>1. 0..(n - 1) = 0..(job[k].pages - 1) \cup {job[k].pages}  BY <1>3
    <2> HIDE DEF n
    <2> QED  BY <1>2, <2>1
  <1>11. n > 0 /\ n - 1 >= 0  BY <1>3
  <1> HIDE DEF r, n, p
  <1>12. n \in Int /\ MaxPages \in Int /\ n <= MaxPages  BY <1>1, <1>3, Facts
  <1>13. Downloads(k)'
    <2>1. CASE next[p] # 0 /\ n < MaxPages
      <3>1. r.pc = "paging"  BY <1>7, <2>1 DEF Onward
      <3>2. job'[k].pc = "paging" /\ job'[k].status = "running" /\ job'[k].at = Walk(k)[n]
            /\ job'[k].pages = n /\ job'[k].at # 0
            /\ job'[k].got = {Walk(k)[m] : m \in 0..(n - 1)} /\ 0 \notin job'[k].got
        BY <1>2, <1>4, <1>6, <1>7, <1>9, <1>10, <2>1, <3>1
      <3> QED  BY <1>8, <2>1, <3>2 DEF Downloads
    <2>2. CASE ~(next[p] # 0 /\ n < MaxPages)
      <3>1. r.pc = "upsert"  BY <1>7, <2>2 DEF Onward
      <3>2. job'[k].pc = "upsert" /\ job'[k].status = "running" /\ job'[k].at = Walk(k)[n]
            /\ job'[k].pages = n /\ (n < MaxPages => job'[k].at = 0)
            /\ job'[k].got = {Walk(k)[m] : m \in 0..(n - 1)} /\ 0 \notin job'[k].got
        BY <1>2, <1>4, <1>6, <1>7, <1>9, <1>10, <2>2, <3>1
      <3> QED  BY <1>8, <1>11, <3>2 DEF Downloads
    <2> QED  BY <2>1, <2>2
  <1>14. Commits(k)' /\ Continues(k)'
    BY <1>4, <1>6, <1>7 DEF Commits, Continues, Onward
  <1> QED  BY <1>1, <1>4, <1>5, <1>13, <1>14, QuietStep DEF TypeOK

\* A retry keeps what was downloaded.
LEMMA TransientStep ==
    ASSUME VendorAssumption, ChainInv, NEW k \in Payload, Transient(k)
    PROVE  ChainInv'
  <1> DEFINE r == [job[k] EXCEPT !.tries = @ + 1]
  <1>1. /\ TypeOK /\ job[k] \in Job /\ job[k].status = "running" /\ job[k].pc = "paging"
        /\ job \in [Payload -> Job] /\ next' = next /\ table' = table /\ session' = session
        /\ runs' = runs /\ job[k].tries + 1 < MaxRetries
    BY Facts DEF ChainInv, Transient, Is, TypeOK
  <1>2. /\ r \in Job /\ r.status = "running" /\ r.pc = "paging" /\ r.at = job[k].at
        /\ r.pages = job[k].pages /\ r.got = job[k].got
    <2> DEFINE t == job[k].tries + 1
    <2>1. t \in 0..MaxRetries
      <3>1. MaxRetries \in Nat /\ job[k].tries \in 0..MaxRetries  BY <1>1, Facts DEF Job
      <3> QED  BY <1>1, <3>1
    <2>2. r = [job[k] EXCEPT !.tries = t]  OBVIOUS
    <2> HIDE DEF t, r
    <2> QED  BY <1>1, <2>1, <2>2 DEF Job
  <1>3. Set(k, r)  BY DEF Transient
  <1>4. job'[k] = r  BY <1>1, <1>3 DEF Set
  <1> HIDE DEF r
  <1>5. Walk(k)' = Walk(k)  BY <1>1 DEF Walk
  <1>6. Downloads(k)'  BY <1>1, <1>2, <1>4, <1>5 DEF ChainInv, Downloads
  <1>7. Commits(k)' /\ Continues(k)'  BY <1>2, <1>4 DEF Commits, Continues
  <1> QED  BY <1>1, <1>2, <1>3, <1>6, <1>7, QuietStep DEF TypeOK

\* A failure throws it away.
LEMMA FailStep ==
    ASSUME VendorAssumption, ChainInv, NEW k \in Payload, Fail(k)
    PROVE  ChainInv'
  <1> DEFINE s == IF job[k].attempts < MaxAttempts THEN "pending" ELSE "failed"
             a == job[k].attempts
  <1>1. /\ TypeOK /\ job[k] \in Job /\ job \in [Payload -> Job]
        /\ next' = next /\ table' = table /\ session' = session /\ runs' = runs
    BY Facts DEF ChainInv, Fail, TypeOK
  <1>2. /\ s \in Status \ {"running", "done"} /\ s \notin {"none", "done"}
        /\ a \in 0..MaxAttempts /\ (s = "pending" => a < MaxAttempts)
    BY <1>1 DEF Job, Status
  <1>3. Set(k, Row(s, a))  BY DEF Fail, Leaves
  <1> HIDE DEF s, a
  <1>4. job'[k] = Row(s, a)  BY <1>1, <1>3 DEF Set
  <1>5. Row(s, a) \in Job /\ Row(s, a).status = s
    BY <1>1, <1>2, Facts DEF Row
  <1>6. Downloads(k)' /\ Commits(k)' /\ Continues(k)'  BY <1>2, <1>4, RowInPlace
  <1> QED  BY <1>1, <1>2, <1>3, <1>5, <1>6, QuietStep DEF TypeOK

\* The commit: of the pages it brings, all but the last are followed in the table.
LEMMA UpsertStep ==
    ASSUME VendorAssumption, ChainInv, NEW k \in Payload, Upsert(k)
    PROVE  ChainInv'
  <1> DEFINE r == [job[k] EXCEPT !.pc = "continue"]
  <1>1. /\ TypeOK /\ job[k] \in Job /\ job[k].status = "running" /\ job[k].pc = "upsert"
        /\ job \in [Payload -> Job] /\ next' = next /\ session' = session /\ runs' = runs
        /\ table' = table \cup job[k].got
    BY Facts DEF ChainInv, Upsert, Is, TypeOK
  <1>2. /\ r \in Job /\ r.status = "running" /\ r.pc = "continue" /\ r.at = job[k].at
        /\ r.pages = job[k].pages /\ r.got = job[k].got
    BY <1>1, Facts DEF Job, Pc
  <1>3. job' = [job EXCEPT ![k] = r]  BY DEF Upsert, Set
  <1>4. job'[k] = r /\ \A j \in Payload : j # k => job'[j] = job[j]  BY <1>1, <1>3
  <1> HIDE DEF r
  <1>5. TypeOK'  BY <1>1, <1>2, <1>3 DEF TypeOK, Job
  <1>6. NoneForgotten  BY <1>2, <1>4 DEF NoneForgotten
  <1>7. ASSUME NEW j \in Payload PROVE Walk(j)' = Walk(j)  BY <1>1 DEF Walk
  <1>8. ASSUME NEW j \in Payload PROVE Downloads(j)' /\ Commits(j)' /\ Continues(j)'
    <2>1. CASE j = k
      <3>1. Downloads(k)'  BY <1>1, <1>2, <1>4, <1>7 DEF ChainInv, Downloads
      <3>2. Commits(k)' /\ Continues(k)'  BY <1>1, <1>2, <1>4 DEF Commits, Continues
      <3> QED  BY <2>1, <3>1, <3>2
    <2>2. CASE j # k  BY <1>1, <1>4, <1>6, <2>2, OthersStand DEF ChainInv
    <2> QED  BY <2>1, <2>2
  <1>9. ASSUME NEW p \in job[k].got, next[p] \notin job[k].got \cup {0}
        PROVE  Owed(p, k)'
    <2>1. /\ job[k].got = {Walk(k)[n] : n \in 0..(job[k].pages - 1)} /\ 0 \notin job[k].got
          /\ job[k].at = Walk(k)[job[k].pages]
          /\ job[k].pages > 0 /\ (job[k].pages < MaxPages => job[k].at = 0)
      BY <1>1 DEF ChainInv, Downloads
    <2>2. PICK n \in 0..(job[k].pages - 1) : p = Walk(k)[n]  BY <1>9, <2>1
    <2>3. p # 0 /\ job[k].pages \in 0..MaxPages /\ MaxPages \in Nat
      BY <1>1, <1>9, <2>1, Facts DEF Job
    <2>4. n \in 0..(MaxPages - 1) /\ n \in Int  BY <2>2, <2>3
    <2>5. next[p] = Walk(k)[n + 1]  BY <1>1, <2>2, <2>3, <2>4, WalkFacts DEF IsWalk
    <2>6. n + 1 \notin 0..(job[k].pages - 1)  BY <1>9, <2>1, <2>5
    <2>7. n + 1 = job[k].pages  BY <2>2, <2>3, <2>6
    <2>8. job[k].pages = MaxPages  BY <1>9, <2>1, <2>3, <2>5, <2>7
    <2> QED  BY <1>2, <1>4, <1>7, <1>1, <2>5, <2>7, <2>8 DEF Owed
  <1>10. NextIsOwed'
    <2>1. SUFFICES ASSUME NEW p \in table', next[p] \notin table' \cup {0}
                   PROVE  \E j \in Payload : Owed(p, j)'
      BY <1>1 DEF NextIsOwed
    <2>2. CASE p \in job[k].got  BY <1>1, <1>9, <2>1, <2>2
    <2>3. CASE p \in table
      <3>1. PICK j \in Payload : Owed(p, j)  BY <1>1, <2>1, <2>3 DEF ChainInv, NextIsOwed
      <3>2. p \in Pages /\ next[p] # 0  BY <2>1, <2>3 DEF ChainInv, TypeOK
      <3>3. job[j].status \notin {"none", "done"} => job'[j].status \notin {"none", "done"}
        BY <1>2, <1>4
      <3>4. Owed(p, j)'  BY <1>1, <1>6, <3>1, <3>2, <3>3, OwedStays
      <3> QED  BY <3>4
    <2> QED  BY <1>1, <2>1, <2>2, <2>3
  <1> QED  BY <1>5, <1>8, <1>10 DEF ChainInv

\* The rest of the chain is a row of its own before the job is marked.
LEMMA ContinueStep ==
    ASSUME VendorAssumption, ChainInv, NEW k \in Payload, Continue(k)
    PROVE  ChainInv'
  <1> DEFINE r == [job[k] EXCEPT !.pc = "mark"]
             marked == [job EXCEPT ![k] = r]
             c == <<job[k].at, k[2] + 1>>
             more == job[k].at # 0 /\ k[2] < MaxDepth
  <1>1. /\ TypeOK /\ job[k] \in Job /\ job[k].status = "running" /\ job[k].pc = "continue"
        /\ job \in [Payload -> Job] /\ next' = next /\ table' = table /\ session' = session
        /\ runs' = runs
    BY Facts DEF ChainInv, Continue, Is, TypeOK
  <1>2. /\ r \in Job /\ r.status = "running" /\ r.pc = "mark" /\ r.at = job[k].at
        /\ r.pages = job[k].pages /\ r.got = job[k].got
    BY <1>1, Facts DEF Job, Pc
  <1>3. [job EXCEPT ![k].pc = "mark"] = marked  OBVIOUS
  <1>4. job' = IF more THEN Inserted(marked, c) ELSE marked
    BY <1>3 DEF Continue
  <1>5. more => c \in Payload /\ c # k
    <2>1. more => job[k].at \in Pages /\ k[2] + 1 \in 0..MaxDepth /\ k[2] + 1 # k[2]
      BY <1>1, Facts DEF Job
    <2>2. k = <<k[1], k[2]>>  BY <1>1, Facts
    <2> QED  BY <1>1, <2>1, <2>2, Facts
  <1>6. /\ marked \in [Payload -> Job] /\ marked[k] = r
        /\ \A j \in Payload : j # k => marked[j] = job[j]
    BY <1>1, <1>2
  <1>7. more => c[1] = job[k].at /\ c[2] = k[2] + 1  OBVIOUS
  <1> HIDE DEF r, marked, c
  <1>8. /\ job' \in [Payload -> Job] /\ job'[k] = r
        /\ more => job'[c] \in {job[c], Row("pending", 0)} /\ job'[c].status # "none"
        /\ \A j \in Payload : j # k /\ (more => j # c) => job'[j] = job[j]
    <2>1. CASE more
      <3>1. /\ job' \in [Payload -> Job] /\ \A j \in Payload : j # c => job'[j] = marked[j]
            /\ job'[c] \in {marked[c], Row("pending", 0)}
            /\ job'[c].status \in {"pending", "running"}
        BY <1>1, <1>4, <1>5, <1>6, <2>1, InsertStep
      <3> QED  BY <1>5, <1>6, <2>1, <3>1
    <2>2. CASE ~more  BY <1>4, <1>6, <2>2
    <2> QED  BY <2>1, <2>2
  <1>9. TypeOK'  BY <1>1, <1>8 DEF TypeOK
  <1>10. \A j \in Payload : job'[j] = job[j] \/ (j = k /\ job'[j] = r)
                              \/ (more /\ j = c /\ job'[j] = Row("pending", 0))
    BY <1>8
  <1>11. Row("pending", 0).status = "pending"  BY DEF Row
  <1>12. NoneForgotten  BY <1>2, <1>10, <1>11 DEF NoneForgotten
  <1>13. Walk(k)' = Walk(k)  BY <1>1 DEF Walk
  <1>14. ASSUME NEW j \in Payload PROVE Downloads(j)' /\ Commits(j)' /\ Continues(j)'
    <2>1. CASE job'[j] = job[j]  BY <1>1, <1>12, <2>1, OthersStand DEF ChainInv
    <2>2. CASE j = k /\ job'[j] = r
      <3>1. Downloads(k)'  BY <1>1, <1>2, <1>8, <1>13 DEF ChainInv, Downloads
      <3>2. Commits(k)'  BY <1>1, <1>2, <1>8 DEF ChainInv, Commits
      <3>3. Continues(k)'  BY <1>2, <1>8 DEF Continues, c
      <3> QED  BY <2>2, <3>1, <3>2, <3>3
    <2>3. CASE more /\ j = c /\ job'[j] = Row("pending", 0)
      BY <2>3, <1>1, Facts, RowInPlace DEF Status
    <2> QED  BY <1>10, <2>1, <2>2, <2>3
  <1>15. NextIsOwed'
    <2>1. SUFFICES ASSUME NEW p \in table, next[p] \notin table \cup {0}
                   PROVE  \E j \in Payload : Owed(p, j)'
      BY <1>1 DEF NextIsOwed
    <2>2. PICK j \in Payload : Owed(p, j)  BY <2>1 DEF ChainInv, NextIsOwed
    <2>3. p \in Pages /\ next[p] # 0  BY <2>1 DEF ChainInv, TypeOK
    <2>4. job[j].status \notin {"none", "done"} => job'[j].status \notin {"none", "done"}
      BY <1>2, <1>10, <1>11
    <2>5. Owed(p, j)'  BY <1>1, <1>12, <2>2, <2>3, <2>4, OwedStays
    <2> QED  BY <2>5
  <1> QED  BY <1>9, <1>14, <1>15 DEF ChainInv

\* A job that is marked done leaves its last page followed, or owed by its continuation.
LEMMA MarkStep ==
    ASSUME VendorAssumption, ChainInv, NEW k \in Payload, MarkDone(k)
    PROVE  ChainInv'
  <1>1. /\ TypeOK /\ job[k] \in Job /\ job[k].status = "running" /\ job \in [Payload -> Job]
        /\ next' = next /\ table' = table /\ session' = session /\ runs' = runs
    BY Facts DEF ChainInv, MarkDone, Is, TypeOK
  <1>2. PICK s \in {"skipped", "cut", "done"} :
            /\ Leaves(k, s)
            /\ s = "done" => job[k].pc = "mark" /\ (job[k].at # 0 => k[2] # MaxDepth)
    BY DEF MarkDone, Is
  <1> DEFINE a == job[k].attempts
  <1>3. a \in 0..MaxAttempts /\ job' = [job EXCEPT ![k] = Row(s, a)]
    BY <1>1, <1>2 DEF Job, Leaves, Set
  <1> HIDE DEF a
  <1>4. Row(s, a) \in Job /\ Row(s, a).status = s /\ Row(s, a).pc = "idle"
    <2>1. s \in Status  BY DEF Status
    <2> QED  BY <1>1, <1>3, <2>1, Facts DEF Row
  <1>5. job'[k] = Row(s, a) /\ \A j \in Payload : j # k => job'[j] = job[j]
    BY <1>1, <1>3
  <1>6. TypeOK'  BY <1>1, <1>3, <1>4 DEF TypeOK
  <1>7. NoneForgotten  BY <1>4, <1>5 DEF NoneForgotten
  <1>8. s = "done" => k[1] \in table
    <2>1. SUFFICES ASSUME s = "done" PROVE k[1] \in table  OBVIOUS
    <2>2. job[k].pc = "mark" /\ job[k].got \subseteq table /\ job[k].pages > 0
          /\ job[k].got = {Walk(k)[n] : n \in 0..(job[k].pages - 1)}
      BY <1>2, <2>1 DEF ChainInv, Downloads, Commits
    <2>3. Walk(k)[0] = k[1]  BY <1>1, WalkFacts DEF IsWalk
    <2>4. 0 \in 0..(job[k].pages - 1)  BY <1>1, <2>2 DEF Job
    <2> QED  BY <2>2, <2>3, <2>4
  <1>9. ASSUME NEW j \in Payload PROVE Downloads(j)' /\ Commits(j)' /\ Continues(j)'
    <2>1. CASE j = k
      BY <1>1, <1>4, <1>5, <1>8, <2>1 DEF Downloads, Commits, Continues
    <2>2. CASE j # k  BY <1>1, <1>5, <1>7, <2>2, OthersStand DEF ChainInv
    <2> QED  BY <2>1, <2>2
  <1>10. NextIsOwed'
    <2>1. SUFFICES ASSUME NEW p \in table, next[p] \notin table \cup {0}
                   PROVE  \E j \in Payload : Owed(p, j)'
      BY <1>1 DEF NextIsOwed
    <2>2. PICK j \in Payload : Owed(p, j)  BY <2>1 DEF ChainInv, NextIsOwed
    <2>3. p \in Pages /\ next[p] # 0 /\ next[p] \in Pages
      BY <1>1, <2>1, Facts DEF ChainInv, TypeOK
    <2>4. CASE j # k \/ s # "done"
      <3>1. job[j].status \notin {"none", "done"} => job'[j].status \notin {"none", "done"}
        BY <1>4, <1>5, <2>4
      <3> QED  BY <1>1, <1>7, <2>2, <2>3, <3>1, OwedStays
    <2>5. CASE j = k /\ s = "done"
      <3>1. job[k].pc = "mark" /\ job[k].at = Walk(k)[job[k].pages]
            /\ (job[k].pages < MaxPages => job[k].at = 0)
        BY <1>2, <2>5 DEF ChainInv, Downloads
      <3>2. Walk(k)[MaxPages] = next[p]  BY <2>2, <2>5 DEF Owed
      <3>3. CASE job[k].at = 0
        <4>1. job[k].pages \in 0..MaxPages /\ MaxPages \in Nat  BY <1>1, Facts DEF Job
        <4>2. MaxPages \in 0..MaxPages /\ job[k].pages <= MaxPages  BY <4>1
        <4>3. Walk(k)[MaxPages] = 0
          BY <1>1, <3>1, <3>3, <4>1, <4>2, WalkFacts DEF IsWalk
        <4> QED  BY <2>3, <3>2, <4>3
      <3>4. CASE job[k].at # 0
        <4>1. job[k].pages = MaxPages  BY <1>1, <3>1, <3>4, Facts DEF Job
        <4>2. k[2] < MaxDepth
          <5>1. k[2] # MaxDepth  BY <1>2, <2>5, <3>4
          <5>2. k[2] \in 0..MaxDepth /\ MaxDepth \in Nat  BY <1>1, Facts
          <5> QED  BY <5>1, <5>2
        <4>3. job[<<next[p], k[2] + 1>>].status # "none"
          BY <3>1, <3>2, <3>4, <4>1, <4>2 DEF ChainInv, Continues
        <4>4. <<next[p], k[2] + 1>> \in Payload
          <5>1. k[2] + 1 \in 0..MaxDepth  BY <1>1, <4>2, Facts
          <5> QED  BY <1>1, <2>3, <5>1, Facts
        <4>5. Walk(k)' = Walk(k)  BY <1>1 DEF Walk
        <4>6. Owed(p, k)'
          BY <1>1, <1>7, <3>2, <4>2, <4>3, <4>4, <4>5 DEF Owed, NoneForgotten
        <4> QED  BY <4>6
      <3> QED  BY <3>3, <3>4
    <2> QED  BY <2>4, <2>5
  <1> QED  BY <1>6, <1>9, <1>10 DEF ChainInv

\* The first state and every step keep the invariant.
LEMMA ChainStep ==
    ASSUME VendorAssumption
    PROVE  (Init => ChainInv) /\ (ChainInv /\ [Next]_vars => ChainInv')
  <1>1. Init => ChainInv
    <2> SUFFICES ASSUME Init PROVE ChainInv  OBVIOUS
    <2>1. TypeOK
      <3>1. Row("none", 0) \in Job  BY DEF VendorAssumption, Row, Job, Status, Pc
      <3>2. 0 \in 0..MaxRuns  BY DEF VendorAssumption
      <3> QED  BY <3>1, <3>2 DEF Init, TypeOK
    <2>2. \A k \in Payload : job[k].status = "none" /\ job[k].pc = "idle"
      BY DEF Init, Row
    <2> QED  BY <2>1, <2>2 DEF ChainInv, Init, Downloads, Commits, Continues, NextIsOwed
  <1>2. ChainInv /\ [Next]_vars => ChainInv'
    <2> SUFFICES ASSUME ChainInv, [Next]_vars PROVE ChainInv'  OBVIOUS
    <2>1. ASSUME next' = next, table' = table, job' = job, runs' = runs,
                 session' \in {"open", "closed", "past"}
          PROVE  ChainInv'
      <3>1. TypeOK'  BY <2>1 DEF ChainInv, TypeOK
      <3>2. \A k \in Payload : Walk(k)' = Walk(k)  BY <2>1 DEF Walk
      <3>3. \A k \in Payload : Downloads(k)' /\ Commits(k)' /\ Continues(k)'
        BY <2>1, <3>2 DEF ChainInv, Downloads, Commits, Continues
      <3>4. NextIsOwed'  BY <2>1, <3>2 DEF ChainInv, NextIsOwed, Owed
      <3> QED  BY <3>1, <3>3, <3>4 DEF ChainInv
    <2>2. CASE UNCHANGED vars \/ TimePasses
      BY <2>1, <2>2 DEF vars, TimePasses, ChainInv, TypeOK
    <2>3. ASSUME NEW k \in Payload, Step(k) PROVE ChainInv'
      BY <2>3, ClaimStep, GuardStep, PageStep, TransientStep, UpsertStep, ContinueStep, MarkStep,
         FailStep DEF Step
    <2> QED  BY <2>2, <2>3, EnqueueStep DEF Next
  <1> QED  BY <1>1, <1>2

\* A chain whose jobs all say done is whole.
LEMMA ChainMeans == ASSUME VendorAssumption, ChainInv PROVE ChainWhole
  <1> SUFFICES ASSUME ChainInv, job[First].status = "done",
                      \A k \in Payload : job[k].status \in {"none", "done"}
               PROVE  1 \in table /\ \A p \in table : next[p] \in table \cup {0}
    BY DEF ChainWhole
  <1>1. TypeOK  BY DEF ChainInv
  <1>2. 1 \in table
    <2>1. First \in Payload /\ First[1] = 1  BY <1>1, Facts DEF First
    <2> QED  BY <2>1 DEF ChainInv, Commits
  <1>3. ASSUME NEW p \in table, next[p] \notin table \cup {0} PROVE FALSE
    <2>1. PICK k \in Payload : Owed(p, k)  BY <1>3 DEF ChainInv, NextIsOwed
    <2>2. k[2] < MaxDepth /\ job[<<next[p], k[2] + 1>>].status # "none"
      BY <2>1 DEF Owed
    <2> DEFINE c == <<next[p], k[2] + 1>>
    <2>3. c \in Payload /\ c[1] = next[p]
      <3>1. p \in Pages /\ next[p] \in Pages  BY <1>1, <1>3, Facts DEF TypeOK
      <3>2. k[2] + 1 \in 0..MaxDepth  BY <1>1, <2>2, Facts
      <3> QED  BY <1>1, <3>1, <3>2, Facts
    <2>4. job[c].status = "done"  BY <2>2, <2>3
    <2>5. next[p] \in table  BY <2>3, <2>4 DEF ChainInv, Commits
    <2> QED  BY <1>3, <2>5
  <1> QED  BY <1>2, <1>3


-----------------------------------------------------------------------------
(* The evening.  A fire after the close enqueues every name that no EOD job stands for: that *)
(* holds of every state, so no invariant but the types is needed.                            *)

\* The worst of some verdicts is a verdict.
LEMMA WorstIs == ASSUME NEW S PROVE Eve!Worst(S) \in {"healthy", "degraded", "critical"}
  BY DEF Eve!Worst

\* The evening starts with values of their kind, and every step keeps them.
LEMMA EveTypes ==
    ASSUME EveningFaults \in Nat
    PROVE  (Eve!Init => Eve!TypeOK) /\ (Eve!TypeOK /\ [Eve!Next]_(Eve!vars) => Eve!TypeOK')
  <1>1. Eve!Init => Eve!TypeOK
    <2> SUFFICES ASSUME Eve!Init PROVE Eve!TypeOK  OBVIOUS
    <2>1. /\ report.verdict = "none" /\ report.eod = "none"
          /\ report.refetch = {} /\ report.retry = {}
      BY DEF Eve!Init, Eve!NoReport
    <2>2. {report.verdict, report.eod} \subseteq {"none", "healthy", "degraded", "critical"}
          /\ report.refetch \cup report.retry \subseteq ChainNames
      BY <2>1
    <2>3. /\ eveJob \in [ChainNames -> Eve!Status] /\ rows \in [ChainNames -> Eve!Rows] /\ bars \in Eve!Bars
          /\ phase \in {"open", "closed", "past"} /\ intraday \subseteq ChainNames
          /\ retired \subseteq MayRetire /\ pull \in BOOLEAN /\ eveFails \in 0..EveningFaults
      <3>1. eveJob \in [ChainNames -> Eve!Status]  BY DEF Eve!Init, Eve!Status
      <3>2. rows \in [ChainNames -> Eve!Rows]  BY DEF Eve!Init, Eve!Rows
      <3>3. bars \in Eve!Bars  BY DEF Eve!Init, Eve!Bars
      <3>4. /\ phase \in {"open", "closed", "past"} /\ intraday \subseteq ChainNames
            /\ retired \subseteq MayRetire /\ pull \in BOOLEAN
        BY DEF Eve!Init
      <3>5. eveFails \in 0..EveningFaults  BY DEF Eve!Init
      <3> QED  BY <3>1, <3>2, <3>3, <3>4, <3>5
    <2> QED  BY <2>2, <2>3 DEF Eve!TypeOK
  <1>2. ASSUME Eve!TypeOK, [Eve!Next]_(Eve!vars) PROVE Eve!TypeOK'
    <2> USE <1>2 DEF Eve!TypeOK
    <2>0. \A S : Eve!Queued(S) \in [ChainNames -> Eve!Status]
      BY DEF Eve!Queued, Eve!Status
    <2>1. CASE Eve!IntradayFire  BY <2>1 DEF Eve!IntradayFire
    <2>2. CASE Eve!UniverseDaily  BY <2>2 DEF Eve!UniverseDaily
    <2>3. CASE Eve!TimePasses  BY <2>3 DEF Eve!TimePasses, Eve!Closes, Eve!Reopens
    <2>4. ASSUME NEW probed \in BOOLEAN, Eve!EodPipeline(probed) PROVE Eve!TypeOK'
      BY <2>0, <2>4 DEF Eve!EodPipeline
    <2>5. ASSUME NEW probed \in BOOLEAN, Eve!Heal(probed) PROVE Eve!TypeOK'
      <3>1. eveJob' \in [ChainNames -> Eve!Status] /\ report' = Eve!NoReport /\ pull' \in BOOLEAN
        BY <2>0, <2>5 DEF Eve!Heal
      <3> QED  BY <2>5, <3>1 DEF Eve!Heal, Eve!NoReport
    <2>6. ASSUME NEW n \in ChainNames, Eve!Guard(n) PROVE Eve!TypeOK'
      BY <2>6 DEF Eve!Guard, Eve!Status
    <2>7. ASSUME NEW n \in ChainNames, Eve!Fail(n) PROVE Eve!TypeOK'
      BY <2>7 DEF Eve!Fail, Eve!Status, Eve!Fails
    <2>8. ASSUME NEW n \in ChainNames, NEW r \in Eve!Rows, Eve!Write(n, r) PROVE Eve!TypeOK'
      BY <2>8 DEF Eve!Write, Eve!Status, Eve!Fails
    <2>9. ASSUME NEW b \in Eve!Bars \ {"none"}, Eve!PullBars(b) PROVE Eve!TypeOK'
      <3>1. bars' \in Eve!Bars /\ pull' \in BOOLEAN
        <4>1. bars' \in Eve!Bars  BY <2>9 DEF Eve!PullBars
        <4>2. pull' \in BOOLEAN  BY <2>9 DEF Eve!PullBars
        <4> QED  BY <4>1, <4>2
      <3>3. eveFails' \in 0..EveningFaults  BY <2>9 DEF Eve!PullBars, Eve!Fails
      <3>2. UNCHANGED <<retired, phase, intraday, eveJob, rows, report>>  BY <2>9 DEF Eve!PullBars
      <3> QED  BY <3>1, <3>2, <3>3
    <2>10. ASSUME NEW unread \in SUBSET Eve!Reads, Eve!Examine(unread) PROVE Eve!TypeOK'
      <3>1. /\ report'.verdict \in {"healthy", "degraded", "critical"}
            /\ report'.eod \in {"healthy", "degraded", "critical"}
        BY <2>10, WorstIs DEF Eve!Examine, Eve!Verdict, Eve!EodVerdict
      <3>2. report'.refetch \subseteq ChainNames /\ report'.retry \subseteq ChainNames
        BY <2>10 DEF Eve!Examine, Eve!Refetches, Eve!Hot
      <3>3. eveFails' \in 0..EveningFaults  BY <2>10 DEF Eve!Examine, Eve!Fails
      <3>4. UNCHANGED <<retired, phase, intraday, eveJob, rows, bars, pull>>
        BY <2>10 DEF Eve!Examine
      <3> QED  BY <3>1, <3>2, <3>3, <3>4
    <2>11. CASE UNCHANGED Eve!vars  BY <2>11 DEF Eve!vars
    <2> QED  BY <2>1, <2>2, <2>3, <2>4, <2>5, <2>6, <2>7, <2>8, <2>9, <2>10, <2>11 DEF Eve!Next
  <1> QED  BY <1>1, <1>2

\* Whatever the state, a fire after the close enqueues every name that no job stands for.
LEMMA SlotCovers == Eve!SlotWouldCover
  BY DEF Eve!SlotWouldCover, Eve!Chosen, Eve!Evidence

-----------------------------------------------------------------------------
(* The months.  What is held of a name are months, and what is asked for is on sale. *)

\* What the plan takes of a month are contracts.
LEMMA ListedAreContracts ==
    ASSUME NEW m \in Months!Months, NEW k
    PROVE  Months!FirstOf(Months!Kept(m), k) \subseteq Months!Contracts
  <1>1. Months!Kept(m) = OnSale[m] \/ Months!Kept(m) = << >>  BY DEF Months!Kept
  <1>2. DOMAIN << >> = {}  OBVIOUS
  <1>3. CASE Months!Kept(m) = OnSale[m]
    <2>1. Months!FirstOf(OnSale[m], k) \subseteq {OnSale[m][i] : i \in DOMAIN OnSale[m]}
      BY DEF Months!FirstOf
    <2> QED  BY <1>3, <2>1 DEF Months!Contracts
  <1>4. CASE Months!Kept(m) = << >>
    <2>1. Months!FirstOf(<< >>, k) = {}  BY <1>2 DEF Months!FirstOf
    <2> QED  BY <1>4, <2>1
  <1> QED  BY <1>1, <1>3, <1>4

\* Plans, fetches and notes start with values of their kind, and every step keeps them.
LEMMA DepthTypes ==
    ASSUME DepthAssumption
    PROVE  (Months!Init => Months!TypeOK) /\ (Months!TypeOK /\ [Months!Next]_(Months!vars) => Months!TypeOK')
  <1>1. Months!Init => Months!TypeOK
    BY DEF Months!Init, Months!TypeOK, DepthAssumption, Months!NoNote
  <1>2. ASSUME Months!TypeOK, [Months!Next]_(Months!vars) PROVE Months!TypeOK'
    <2> USE <1>2
    <2>1. ASSUME NEW force \in BOOLEAN, NEW unread \in BOOLEAN, Months!Depth(force, unread)
          PROVE  Months!TypeOK'
      <3>1. \A n \in DeepNames : Months!Short(n) \subseteq Months!Months /\ Months!Holes(n) \subseteq Months!Months
        BY DEF Months!Short, Months!Holes, DepthAssumption
      <3>2. plans' \subseteq Months!Plans
        BY <2>1, <3>1 DEF Months!Depth, Months!TypeOK, Months!Plans
      <3>3. note' \in [DeepNames -> [Months!Months -> 0..Months!NoNote]]
        BY <2>1 DEF Months!Depth, Months!TypeOK, Months!NoNote, DepthAssumption
      <3>4. fails' \in 0..DepthFaults
        BY <2>1 DEF Months!Depth, Months!TypeOK, Months!Fails, DepthAssumption
      <3> QED  BY <2>1, <3>2, <3>3, <3>4 DEF Months!Depth, Months!TypeOK
    <2>2. CASE Months!Backfill
      <3>1. plans' \subseteq Months!Plans
        BY <2>2 DEF Months!Backfill, Months!TypeOK, Months!Plans, DepthAssumption
      <3> QED  BY <2>2, <3>1 DEF Months!Backfill, Months!TypeOK
    <2>3. CASE Months!WeekPasses
      BY <2>3 DEF Months!WeekPasses, Months!TypeOK, Months!NoNote, DepthAssumption
    <2>4. \A p \in Months!Plans : \A k : {p[1]} \X Months!FirstOf(Months!Kept(p[2]), k) \subseteq Months!Fetches
      <3> SUFFICES ASSUME NEW p \in Months!Plans, NEW k
                   PROVE  {p[1]} \X Months!FirstOf(Months!Kept(p[2]), k) \subseteq Months!Fetches
        OBVIOUS
      <3>1. p[1] \in DeepNames /\ p[2] \in Months!Months  BY DEF Months!Plans
      <3>2. Months!FirstOf(Months!Kept(p[2]), k) \subseteq Months!Contracts
        BY <3>1, ListedAreContracts
      <3> QED  BY <3>1, <3>2 DEF Months!Fetches
    <2>5. ASSUME NEW p \in Months!Plans, NEW k \in 0..Months!Cardinality(Months!Contracts), Months!Plan(p) \/ Months!PlanFails(p, k)
          PROVE  Months!TypeOK'
      <3>1. fetches' \subseteq Months!Fetches /\ plans' \subseteq Months!Plans
        BY <2>4, <2>5 DEF Months!Plan, Months!PlanFails, Months!TypeOK
      <3>2. fails' \in 0..DepthFaults /\ UNCHANGED <<recent, held, note>>
        BY <2>5 DEF Months!Plan, Months!PlanFails, Months!TypeOK, Months!Fails, DepthAssumption
      <3> QED  BY <3>1, <3>2 DEF Months!TypeOK
    <2>6. ASSUME NEW p \in Months!Plans, Months!Plan(p) PROVE Months!TypeOK'
      <3>1. fetches' \subseteq Months!Fetches /\ plans' \subseteq Months!Plans
        BY <2>4, <2>6 DEF Months!Plan, Months!TypeOK
      <3> QED  BY <2>6, <3>1 DEF Months!Plan, Months!TypeOK
    <2>7. ASSUME NEW f \in Months!Fetches, Months!Fetch(f) \/ Months!FetchFails(f) PROVE Months!TypeOK'
      <3>1. f[1] \in DeepNames /\ f[2] \in Months!Contracts  BY DEF Months!Fetches
      <3>2. held' \in [DeepNames -> SUBSET Months!Contracts]
        BY <2>7, <3>1 DEF Months!Fetch, Months!FetchFails, Months!TypeOK
      <3>3. fails' \in 0..DepthFaults /\ fetches' \subseteq Months!Fetches /\ UNCHANGED <<recent, note, plans>>
        BY <2>7 DEF Months!Fetch, Months!FetchFails, Months!TypeOK, Months!Fails, DepthAssumption
      <3> QED  BY <3>2, <3>3 DEF Months!TypeOK
    <2>8. CASE UNCHANGED Months!vars  BY <2>8 DEF Months!vars, Months!TypeOK
    <2> QED  BY <2>1, <2>2, <2>3, <2>5, <2>6, <2>7, <2>8 DEF Months!Next
  <1> QED  BY <1>1, <1>2

-----------------------------------------------------------------------------
(* The bars.  A night's job asks from the newest bar on, or from the start of the window, so *)
(* no hole is left behind what is on file, in whatever order the jobs run.                   *)

\* Nothing is on file of a day to come, and no job asks for one.
NothingAhead ==
    /\ \A d \in have : d <= night
    /\ \A a \in asked : a[1] <= night /\ a[2] <= night

\* The kinds of values of the bars.
BarKinds ==
    /\ series \in {"hours", "bars"} /\ night \in TradingDays /\ ok \in BOOLEAN
    /\ have \subseteq TradingDays /\ asked \subseteq Int \X TradingDays
    /\ series = "hours" /\ role = "listed" => watched

\* What lies before the window of a job that waits is on file already, so that jobs may
\* run in any order.
NoHoleBehind == \A d \in Bars!Reach : (\E e \in have : e > d) => d \in have
NoHoleBefore == \A a \in asked : \A d \in Bars!Reach : d < a[1] => d \in have
Due(open)    == ok /\ open => (\E s \in Int : <<s, night>> \in asked) \/ Bars!Reach \subseteq have

\* The hourly bars of a name that was never on the watch list.
HoursInv ==
    series = "hours" /\ ~watched => NoHoleBehind /\ NoHoleBefore /\ Due(role = "research")

\* A pinned contract waits for the whole window, or has it.
PinnedInv ==
    series = "bars" /\ ok /\ role = "pinned" =>
        <<night - BackfillDays, night>> \in asked \/ Bars!Reach \subseteq have

\* The contract at the money waits for the bar of tonight, or has it.
MoneyInv ==
    series = "bars" /\ ok /\ Bars!AtTheMoney /\ Bars!StrikeRank(OneContract) = 1 =>
        Bars!Tonight \in asked \/ night \in have

\* The inductive invariant of the bars.
BarsInv == BarKinds /\ NothingAhead /\ HoursInv /\ PinnedInv

\* The newest of the days on file is one of them, and none is newer.
LEMMA NewestIsLast ==
    ASSUME BarsAssumption, NEW S \in SUBSET TradingDays, S # {}
    PROVE  Bars!LatestDay(S) \in S /\ \A e \in S : e <= Bars!LatestDay(S)
  <1>1. S \in SUBSET (0..LastTradingDay) /\ LastTradingDay \in Nat  BY DEF BarsAssumption
  <1>2. S \in SUBSET Int
    <2>1. \A e \in 0..LastTradingDay : e \in Int  OBVIOUS
    <2> QED  BY <1>1, <2>1
  <1>3. IsFiniteSet(S)
    <2>1. IsFiniteSet(0..LastTradingDay)  BY <1>1, FS_Interval
    <2> QED  BY <1>1, <2>1, PartOfFinite
  <1>4. Max(S) \in S /\ \A e \in S : e <= Max(S)  BY <1>2, <1>3, MaxIsGreatest
  <1> QED  BY <1>4 DEF Bars!LatestDay, Bars!Newest

\* Each night's job starts right after the newest bar, or at the start of the window.
LEMMA AsksReachBack ==
    ASSUME BarsAssumption, BarKinds, NEW read \in BOOLEAN
    PROVE  /\ Bars!HourlyAsks(read) \subseteq Int \X TradingDays
           /\ \A a \in Bars!HourlyAsks(read) : a[1] <= night /\ a[2] = night
           /\ NoHoleBehind /\ role # "listed" =>
                \A a \in Bars!HourlyAsks(read) : \A d \in Bars!Reach : d < a[1] => d \in have
           /\ NoHoleBehind /\ role = "research" => Bars!HourlyAsks(read) # {} \/ Bars!Reach \subseteq have
  <1> DEFINE since  == night - BackfillDays
             onfile == {d \in have : d >= since /\ read}
             start  == IF onfile = {} THEN since
                       ELSE IF Bars!LatestDay(onfile) + 1 > since THEN Bars!LatestDay(onfile) + 1 ELSE since
  <1>1. night \in Int /\ since \in Int /\ BackfillDays \in Nat /\ TradingDays \subseteq Int
    BY DEF BarsAssumption, BarKinds
  <1>2. onfile \in SUBSET TradingDays  BY DEF BarKinds
  <1>3. onfile # {} => Bars!LatestDay(onfile) \in onfile
    BY <1>2, NewestIsLast
  <1>4. /\ onfile # {} => Bars!LatestDay(onfile) \in Int
        /\ \A d \in onfile : d \in have
    <2>1. \A d \in onfile : d \in Int /\ d \in have  BY <1>1, <1>2
    <2> HIDE DEF onfile
    <2>2. onfile # {} => Bars!LatestDay(onfile) \in Int  BY <2>1, <1>3
    <2> QED  BY <2>1, <2>2
  <1> HIDE DEF onfile
  <1>6. start \in Int /\ start >= since  BY <1>1, <1>4
  <1>5. ASSUME NoHoleBehind, NEW d \in Bars!Reach, d < start
        PROVE  d \in have
    <2>1. d \in Int /\ d >= since /\ d <= night  BY <1>1 DEF Bars!Reach, Bars!Within
    <2>2. onfile # {} /\ start = Bars!LatestDay(onfile) + 1  BY <1>5, <2>1, <1>1, <1>4
    <2>3. Bars!LatestDay(onfile) \in have /\ Bars!LatestDay(onfile) \in Int /\ d <= Bars!LatestDay(onfile)
      BY <1>5, <2>1, <2>2, <1>3, <1>4
    <2>4. CASE d = Bars!LatestDay(onfile)  BY <2>3, <2>4
    <2>5. CASE d < Bars!LatestDay(onfile)  BY <1>5, <2>3, <2>5, <2>1 DEF NoHoleBehind
    <2> QED  BY <2>1, <2>3, <2>4, <2>5
  <1>7. Bars!HourlyAsks(read) = CASE role = "listed"   -> {Bars!Tonight}
                                  [] role = "research" -> {<<s, night>> : s \in {start} \cap (0 - BackfillDays)..night}
                                  [] OTHER             -> {}
    BY DEF Bars!HourlyAsks, onfile
  <1> HIDE DEF start
  <1>8. \A a \in Bars!HourlyAsks(read) :
            /\ a[1] \in Int /\ a[1] <= night /\ a[2] = night /\ a = <<a[1], a[2]>>
            /\ role # "listed" => a[1] = start
    <2>1. CASE role = "listed"  BY <2>1, <1>7, <1>1 DEF Bars!Tonight
    <2>2. CASE role = "research"  BY <2>2, <1>7, <1>1, <1>6
    <2>3. CASE role # "listed" /\ role # "research"  BY <2>3, <1>7
    <2> QED  BY <2>1, <2>2, <2>3
  <1>9. Bars!HourlyAsks(read) \subseteq Int \X TradingDays
    <2>1. night \in TradingDays  BY DEF BarKinds
    <2> QED  BY <1>8, <2>1
  <1>10. ASSUME NoHoleBehind, role = "research", Bars!HourlyAsks(read) = {}
         PROVE  Bars!Reach \subseteq have
    <2>1. start \notin (0 - BackfillDays)..night
      <3>1. SUFFICES ASSUME start \in (0 - BackfillDays)..night PROVE FALSE  OBVIOUS
      <3>2. <<start, night>> \in Bars!HourlyAsks(read)  BY <3>1, <1>7, <1>10
      <3> QED  BY <3>2, <1>10
    <2>2. start >= 0 - BackfillDays  BY <1>1, <1>6 DEF BarsAssumption, BarKinds
    <2>3. start > night  BY <2>1, <2>2, <1>1, <1>6
    <2>4. \A d \in Bars!Reach : d \in Int /\ d <= night  BY <1>1 DEF Bars!Reach, Bars!Within
    <2>5. \A d \in Bars!Reach : d < start  BY <2>3, <2>4, <1>1, <1>6
    <2> QED  BY <1>10, <2>5, <1>5
  <1> QED  BY <1>5, <1>8, <1>9, <1>10

\* The reach of a window after the next trading day: nothing new but that day.
LEMMA NextReach ==
    ASSUME BarsAssumption, BarKinds, Bars!NextDay
    PROVE  /\ night' \in TradingDays /\ night' > night
           /\ \A d \in Bars!Reach' : d \in Bars!Reach \/ d = night'
  <1>1. PICK n \in TradingDays : n > night /\ (\A e \in TradingDays : e > night => n <= e) /\ night' = n
    BY DEF Bars!NextDay
  <1>2. ASSUME NEW d \in Bars!Reach' PROVE d \in Bars!Reach \/ d = night'
    <2>1. d \in TradingDays /\ night' - BackfillDays <= d /\ d <= night'
      BY <1>2 DEF Bars!Reach, Bars!Within
    <2>2. d \in Int /\ night \in Int /\ night' \in Int /\ BackfillDays \in Nat
      BY <2>1, <1>1 DEF BarsAssumption, BarKinds
    <2>3. CASE d > night  BY <2>1, <2>2, <2>3, <1>1
    <2>4. CASE d <= night  BY <2>1, <2>2, <2>4, <1>1 DEF Bars!Reach, Bars!Within
    <2> QED  BY <2>2, <2>3, <2>4
  <1> QED  BY <1>1, <1>2

\* A contract at the money of a front expiry is among those the slot asks about.
LEMMA MoneyIsNear ==
    ASSUME BarsAssumption, night \in Nat, Bars!AtTheMoney, Bars!StrikeRank(OneContract) = 1
    PROVE  OneContract \in Bars!NearSpot
  <1>1. Bars!Listed \in SUBSET {k.expiry : k \in Ladder}  BY DEF Bars!Listed
  <1>2. Bars!Listed \in SUBSET Int /\ IsFiniteSet(Bars!Listed)
    <2>1. \A k \in Ladder : k.expiry \in Int  BY DEF BarsAssumption
    <2>2. IsFiniteSet({k.expiry : k \in Ladder})  BY DEF BarsAssumption
    <2>3. IsFiniteSet(Bars!Listed)  BY <1>1, <2>2, PartOfFinite
    <2>4. \A e \in Bars!Listed : \E k \in Ladder : e = k.expiry  BY Zenon DEF Bars!Listed
    <2> QED  BY <2>1, <2>3, <2>4
  <1>3. FrontExpiries \in 1..Cardinality(Bars!Listed)
    <2>1. Cardinality(Bars!Listed) \in Nat  BY <1>2, FS_CardinalityType
    <2> QED  BY <2>1, SameCardinality DEF Bars!AtTheMoney, BarsAssumption
  <1>4. PICK e \in Bars!Listed : Cardinality(Upto(Bars!Listed, e)) = FrontExpiries
    BY <1>2, <1>3, RankExists
  <1>5. Bars!ExpiryRank(e) = FrontExpiries  BY <1>4, SameCardinality DEF Bars!ExpiryRank, Upto
  <1>6. 1 <= 2 * StrikesAside + 1  BY DEF BarsAssumption
  <1>7. OneContract \in Ladder /\ Bars!Close # 0 /\ OneContract.expiry \in Bars!Listed
        /\ Bars!ExpiryRank(OneContract.expiry) <= FrontExpiries
    BY DEF Bars!AtTheMoney, BarsAssumption
  <1> QED  BY <1>4, <1>5, <1>6, <1>7 DEF Bars!NearSpot

\* What AtTheMoney and the ranks are made of stays while the day and the close do.
LEMMA MoneyStays ==
    ASSUME UNCHANGED <<series, night, spot>>
    PROVE  /\ Bars!AtTheMoney' <=> Bars!AtTheMoney
           /\ Bars!StrikeRank(OneContract)' = Bars!StrikeRank(OneContract)
           /\ Bars!Tonight' = Bars!Tonight
  BY DEF Bars!AtTheMoney, Bars!StrikeRank, Bars!ExpiryRank, Bars!Listed, Bars!Close, Bars!Away,
         Bars!Tonight

\* The nightly jobs ask for days of the calendar, back to the start of the window.
LEMMA AsksTyped ==
    ASSUME BarsAssumption, Bars!TypeOK, BarKinds, NEW read \in BOOLEAN
    PROVE  Bars!HourlyAsks(read) \cup Bars!BarAsks(read) \subseteq ((0 - BackfillDays)..LastTradingDay) \X TradingDays
  <1>1. night \in TradingDays /\ night \in Nat /\ night <= LastTradingDay /\ LastTradingDay \in Nat /\ BackfillDays \in Nat
    BY DEF BarsAssumption, Bars!TypeOK
  <1>2. night \in (0 - BackfillDays)..LastTradingDay /\ night - BackfillDays \in (0 - BackfillDays)..LastTradingDay
        /\ \A s \in (0 - BackfillDays)..night : s \in (0 - BackfillDays)..LastTradingDay
    BY <1>1
  <1>3. \A a \in Bars!BarAsks(read) : a = <<night - BackfillDays, night>> \/ a = <<night, night>>
    BY DEF Bars!BarAsks, Bars!HistoryAsks, Bars!Tonight
  <1>4. \A a \in Bars!HourlyAsks(read) : a = <<night, night>> \/ \E s \in (0 - BackfillDays)..night : a = <<s, night>>
    <2>1. role \in {"listed", "research"} \/ Bars!HourlyAsks(read) = {}  BY DEF Bars!HourlyAsks
    <2>2. CASE role = "listed"  BY <2>2 DEF Bars!HourlyAsks, Bars!Tonight
    <2>3. CASE role = "research"
      <3>1. role # "listed"  BY <2>3
      <3>2. \E start : Bars!HourlyAsks(read) = {<<s, night>> : s \in {start} \cap (0 - BackfillDays)..night}
        BY <2>3, <3>1 DEF Bars!HourlyAsks
      <3> QED  BY <3>2
    <2> QED  BY <2>1, <2>2, <2>3
  <1> QED  BY <1>1, <1>2, <1>3, <1>4

\* What was on file and what is fetched are on file.
LEMMA BarFetchStep ==
    ASSUME BarsAssumption, BarsInv, NEW a \in asked, Bars!Fetch(a)
    PROVE  BarsInv'
  <1> USE DEF Bars!Fetch
  <1>1. /\ a[1] \in Int /\ a[2] \in TradingDays /\ a = <<a[1], a[2]>> /\ night \in Int /\ TradingDays \subseteq Int
        /\ BackfillDays \in Nat
    BY DEF BarsInv, BarKinds, BarsAssumption
  <1>2. BarKinds'  BY <1>1 DEF BarsInv, BarKinds, Bars!Within
  <1>3. NothingAhead'
    <2>1. a[2] <= night /\ \A d \in Bars!Within(a[1], a[2]) : d \in TradingDays /\ d <= a[2]
      BY DEF BarsInv, NothingAhead, Bars!Within
    <2>2. \A d \in Bars!Within(a[1], a[2]) : d <= night  BY <2>1, <1>1
    <2> QED  BY <2>2 DEF BarsInv, NothingAhead
  <1>4. Bars!Reach' = Bars!Reach /\ Bars!Reach \subseteq TradingDays  BY DEF Bars!Reach, Bars!Within
  <1>5. ASSUME series = "hours", ~watched
        PROVE  NoHoleBehind' /\ NoHoleBefore' /\ Due(role = "research")'
    <2>1. NoHoleBehind /\ NoHoleBefore /\ Due(role = "research")  BY <1>5 DEF BarsInv, HoursInv
    <2>2. ASSUME NEW d \in Bars!Reach, NEW e \in have', e > d  PROVE d \in have'
      <3>1. d \in Int /\ e \in Int  BY <1>1, <1>2, <1>4 DEF BarKinds
      <3>2. CASE e \in have  BY <2>1, <2>2, <3>2 DEF NoHoleBehind
      <3>3. CASE e \notin have
        <4>1. a[1] <= e /\ e <= a[2]  BY <3>3, <2>2 DEF Bars!Within
        <4>2. CASE d < a[1]  BY <2>1, <2>2, <4>2 DEF NoHoleBefore
        <4>3. CASE a[1] <= d  BY <4>1, <4>3, <3>1, <1>1, <1>4, <2>2 DEF Bars!Within
        <4> QED  BY <4>2, <4>3, <3>1, <1>1
      <3> QED  BY <3>2, <3>3
    <2>3. NoHoleBehind'  BY <2>2, <1>4 DEF NoHoleBehind
    <2>4. NoHoleBefore'  BY <2>1, <1>4 DEF NoHoleBefore
    <2>5. ASSUME NEW s \in Int, <<s, night>> = a PROVE Bars!Reach \subseteq have'
      <3>1. a[1] = s /\ a[2] = night  BY <2>5
      <3>2. SUFFICES ASSUME NEW d \in Bars!Reach PROVE d \in have'  OBVIOUS
      <3>3. d \in TradingDays /\ d \in Int /\ d <= night  BY <1>1, <3>2 DEF Bars!Reach, Bars!Within
      <3>4. CASE d < a[1]  BY <2>1, <3>4 DEF NoHoleBefore
      <3>5. CASE a[1] <= d  BY <3>1, <3>3, <3>5 DEF Bars!Within
      <3> QED  BY <3>3, <3>4, <3>5, <1>1
    <2>6. Due(role = "research")'
      <3>1. CASE \E s \in Int : <<s, night>> \in asked
        <4>1. PICK s \in Int : <<s, night>> \in asked  BY <3>1
        <4>2. CASE <<s, night>> = a  BY <2>5, <4>2, <1>4 DEF Due
        <4>3. CASE <<s, night>> # a  BY <4>1, <4>3 DEF Due
        <4> QED  BY <4>2, <4>3
      <3>2. CASE ~ \E s \in Int : <<s, night>> \in asked  BY <2>1, <3>2, <1>4 DEF Due
      <3> QED  BY <3>1, <3>2
    <2> QED  BY <2>3, <2>4, <2>6
  <1>6. HoursInv'  BY <1>5 DEF HoursInv
  <1>7. PinnedInv'
    <2>1. CASE a = <<night - BackfillDays, night>>
      <3>1. a[1] = night - BackfillDays /\ a[2] = night  BY <2>1
      <3>2. Bars!Reach \subseteq have'  BY <3>1 DEF Bars!Reach, Bars!Within
      <3> QED  BY <3>2, <1>4 DEF PinnedInv
    <2>2. CASE a # <<night - BackfillDays, night>>  BY <2>2, <1>4 DEF BarsInv, PinnedInv
    <2> QED  BY <2>1, <2>2
  <1> QED  BY <1>2, <1>3, <1>6, <1>7 DEF BarsInv

\* The failure of a job that asks for today is what the slot's evidence is lost by.
LEMMA BarFailStep ==
    ASSUME BarsAssumption, BarsInv, NEW a \in asked, Bars!Fail(a)
    PROVE  BarsInv'
  <1> USE DEF Bars!Fail
  <1>1. BarKinds' /\ NothingAhead'  BY DEF BarsInv, BarKinds, NothingAhead
  <1>2. Bars!Reach' = Bars!Reach  BY DEF Bars!Reach, Bars!Within
  <1>3. a = <<a[1], a[2]>>  BY DEF BarsInv, BarKinds
  <1>4. ok' => ok /\ a[2] # night  BY DEF BarsInv, BarKinds
  <1>5. HoursInv'
    <2>1. SUFFICES ASSUME series = "hours", ~watched
                   PROVE  NoHoleBehind' /\ NoHoleBefore' /\ Due(role = "research")'
      BY DEF HoursInv
    <2>2. NoHoleBehind /\ NoHoleBefore /\ Due(role = "research")  BY <2>1 DEF BarsInv, HoursInv
    <2>3. NoHoleBehind' /\ NoHoleBefore'  BY <1>2, <2>2 DEF NoHoleBehind, NoHoleBefore
    <2>4. ok' => \A s \in Int : <<s, night>> # a  BY <1>4
    <2>5. Due(role = "research")'  BY <1>2, <1>4, <2>2, <2>4 DEF Due
    <2> QED  BY <2>3, <2>5
  <1>6. PinnedInv'  BY <1>2, <1>4 DEF BarsInv, PinnedInv
  <1> QED  BY <1>1, <1>5, <1>6 DEF BarsInv

\* A fire.
LEMMA BarFireStep ==
    ASSUME BarsAssumption, BarsInv, NEW read \in BOOLEAN, Bars!Fire(read)
    PROVE  BarsInv'
  <1> USE DEF Bars!Fire
  <1>1. Bars!Reach' = Bars!Reach  BY DEF Bars!Reach, Bars!Within
  <1>2. night \in Int /\ BackfillDays \in Nat /\ night \in TradingDays
    BY DEF BarsInv, BarKinds, BarsAssumption
  <1>3. CASE series = "hours"
    <2>1. asked' = asked \cup Bars!HourlyAsks(read)  BY <1>3
    <2>2. CASE watched
      <3>1. Bars!HourlyAsks(read) \subseteq Int \X TradingDays /\ \A a \in Bars!HourlyAsks(read) : a[1] <= night /\ a[2] = night
        BY <1>2, AsksReachBack DEF BarsInv
      <3>2. BarKinds' /\ NothingAhead'  BY <2>1, <3>1, <1>2 DEF BarsInv, BarKinds, NothingAhead
      <3> QED  BY <3>2, <2>2, <1>3 DEF BarsInv, HoursInv, PinnedInv
    <2>3. CASE ~watched
      <3>1. role # "listed" /\ NoHoleBehind /\ NoHoleBefore /\ Due(role = "research")
        BY <1>3, <2>3 DEF BarsInv, BarKinds, HoursInv
      <3>2. /\ Bars!HourlyAsks(read) \subseteq Int \X TradingDays
            /\ \A a \in Bars!HourlyAsks(read) : a[1] <= night /\ a[2] = night
            /\ \A a \in Bars!HourlyAsks(read) : \A d \in Bars!Reach : d < a[1] => d \in have
            /\ role = "research" => Bars!HourlyAsks(read) # {} \/ Bars!Reach \subseteq have
        BY <3>1, AsksReachBack DEF BarsInv
      <3>3. BarKinds' /\ NothingAhead'  BY <2>1, <3>2, <1>2 DEF BarsInv, BarKinds, NothingAhead
      <3>4. NoHoleBehind'  BY <3>1, <1>1 DEF NoHoleBehind
      <3>5. NoHoleBefore'  BY <3>1, <3>2, <2>1, <1>1 DEF NoHoleBefore
      <3>6. ASSUME Bars!HourlyAsks(read) # {} PROVE \E s \in Int : <<s, night>> \in asked'
        <4>1. PICK a \in Bars!HourlyAsks(read) : TRUE  BY <3>6
        <4>2. a = <<a[1], night>> /\ a[1] \in Int  BY <4>1, <3>2
        <4> QED  BY <4>1, <4>2, <2>1
      <3>7. Due(role = "research")'  BY <3>2, <3>6, <1>1 DEF Due
      <3> QED  BY <3>3, <3>4, <3>5, <3>7, <1>3 DEF BarsInv, HoursInv, PinnedInv
    <2> QED  BY <2>2, <2>3
  <1>4. CASE series # "hours"
    <2>1. asked' = asked \cup Bars!BarAsks(read) /\ ok' = read  BY <1>4 DEF BarsInv, BarKinds
    <2>2. /\ \A a \in Bars!BarAsks(read) : a = <<night - BackfillDays, night>> \/ a = <<night, night>>
          /\ read /\ role = "pinned" => <<night - BackfillDays, night>> \in Bars!BarAsks(read)
      BY DEF Bars!BarAsks, Bars!HistoryAsks, Bars!Tonight
    <2>3. /\ Bars!BarAsks(read) \subseteq Int \X TradingDays
          /\ \A a \in Bars!BarAsks(read) : a[1] <= night /\ a[2] <= night
      BY <2>2, <1>2
    <2>4. BarKinds' /\ NothingAhead'  BY <2>1, <2>3, <1>4 DEF BarsInv, BarKinds, NothingAhead
    <2>5. PinnedInv'  BY <2>1, <2>2 DEF PinnedInv
    <2> QED  BY <2>4, <2>5, <1>4 DEF BarsInv, HoursInv
  <1> QED  BY <1>3, <1>4

\* The next trading day: the window moves past nothing that is not on file.
LEMMA BarNextDayStep ==
    ASSUME BarsAssumption, BarsInv, Bars!NextDay
    PROVE  BarsInv'
  <1>1. night' \in TradingDays /\ night' > night /\ \A d \in Bars!Reach' : d \in Bars!Reach \/ d = night'
    BY NextReach DEF BarsInv
  <1>2. night \in Int /\ night' \in Int /\ TradingDays \subseteq Int
    BY <1>1 DEF BarsInv, BarKinds, BarsAssumption
  <1>3. BarKinds'  BY <1>1 DEF BarsInv, BarKinds, Bars!NextDay
  <1>4. NothingAhead'
    <2>1. have \subseteq Int /\ \A a \in asked : a[1] \in Int /\ a[2] \in Int
      BY <1>2 DEF BarsInv, BarKinds
    <2> QED  BY <1>1, <1>2, <2>1 DEF BarsInv, NothingAhead, Bars!NextDay
  <1>5. NoHoleBehind => NoHoleBehind'
    <2>1. SUFFICES ASSUME NoHoleBehind, NEW d \in Bars!Reach', NEW e \in have, e > d PROVE d \in have
      BY DEF NoHoleBehind, Bars!NextDay
    <2>2. e \in Int /\ e <= night  BY <1>2 DEF BarsInv, BarKinds, NothingAhead
    <2>3. d # night'  BY <2>1, <2>2, <1>1, <1>2
    <2> QED  BY <2>1, <2>3, <1>1 DEF NoHoleBehind
  <1>6. NoHoleBefore => NoHoleBefore'
    <2>1. SUFFICES ASSUME NoHoleBefore, NEW a \in asked, NEW d \in Bars!Reach', d < a[1] PROVE d \in have
      BY DEF NoHoleBefore, Bars!NextDay
    <2>2. a[1] \in Int /\ a[1] <= night  BY DEF BarsInv, BarKinds, NothingAhead
    <2>3. d # night'  BY <2>1, <2>2, <1>1, <1>2
    <2> QED  BY <2>1, <2>3, <1>1 DEF NoHoleBefore
  <1>7. ok' = FALSE /\ series' = series /\ (~watched' => ~watched)
    BY DEF Bars!NextDay
  <1>8. HoursInv'
    BY <1>5, <1>6, <1>7 DEF BarsInv, HoursInv, Due, Bars!NextDay
  <1>9. PinnedInv'  BY <1>7 DEF PinnedInv
  <1> QED  BY <1>3, <1>4, <1>8, <1>9 DEF BarsInv

\* The first state and every step keep the invariant.
LEMMA BarsInvStep ==
    ASSUME BarsAssumption
    PROVE  (Bars!Init => BarsInv) /\ (BarsInv /\ [Bars!Next]_(Bars!vars) => BarsInv')
  <1>1. Bars!Init => BarsInv
    <2> SUFFICES ASSUME Bars!Init PROVE BarsInv  OBVIOUS
    <2>1. BarKinds /\ NothingAhead  BY DEF Bars!Init, BarKinds, NothingAhead, Bars!RolesOf
    <2> QED  BY <2>1 DEF Bars!Init, BarsInv, HoursInv, PinnedInv, NoHoleBehind, NoHoleBefore, Due
  <1>2. BarsInv /\ [Bars!Next]_(Bars!vars) => BarsInv'
    <2> SUFFICES ASSUME BarsInv, [Bars!Next]_(Bars!vars) PROVE BarsInv'  OBVIOUS
    <2>1. ASSUME NEW read \in BOOLEAN, Bars!Fire(read) PROVE BarsInv'  BY <2>1, BarFireStep
    <2>2. ASSUME Bars!NextDay PROVE BarsInv'  BY <2>2, BarNextDayStep
    <2>3. ASSUME NEW a \in asked, Bars!Fetch(a) PROVE BarsInv'  BY <2>3, BarFetchStep
    <2>4. ASSUME NEW a \in asked, Bars!Fail(a) PROVE BarsInv'  BY <2>4, BarFailStep
    <2>5. CASE UNCHANGED Bars!vars
      BY <2>5
         DEF Bars!vars, BarsInv, BarKinds, NothingAhead, HoursInv, PinnedInv, NoHoleBehind,
             NoHoleBefore,
                  Due, Bars!Reach, Bars!Within
    <2> QED  BY <2>1, <2>2, <2>3, <2>4, <2>5 DEF Bars!Next
  <1> QED  BY <1>1, <1>2

\* Whatever the slot and its jobs do, the values keep their types, and a contract at the
\* money waits for its bar or has it.
LEMMA MoneyStep ==
    ASSUME BarsAssumption
    PROVE  /\ Bars!Init => Bars!TypeOK /\ MoneyInv
           /\ BarsInv /\ Bars!TypeOK /\ MoneyInv /\ [Bars!Next]_(Bars!vars) => (Bars!TypeOK /\ MoneyInv)'
  <1>1. Bars!Init => Bars!TypeOK /\ MoneyInv
    <2> SUFFICES ASSUME Bars!Init PROVE Bars!TypeOK /\ MoneyInv  OBVIOUS
    <2>1. spot \in ClosingPrices  BY DEF Bars!Init, BarsAssumption
    <2> QED  BY <2>1 DEF Bars!Init, Bars!TypeOK, Bars!RolesOf, MoneyInv
  <1>2. ASSUME BarsInv, Bars!TypeOK, MoneyInv, [Bars!Next]_(Bars!vars) PROVE (Bars!TypeOK /\ MoneyInv)'
    <2>0. BarKinds /\ night \in Nat /\ night \in TradingDays
      BY <1>2 DEF BarsInv, Bars!TypeOK, BarsAssumption
    <2>1. ASSUME NEW read \in BOOLEAN, Bars!Fire(read) PROVE (Bars!TypeOK /\ MoneyInv)'
      <3>1. Bars!HourlyAsks(read) \cup Bars!BarAsks(read) \subseteq ((0 - BackfillDays)..LastTradingDay) \X TradingDays
        BY <1>2, <2>0, AsksTyped
      <3>2. Bars!TypeOK'  BY <1>2, <2>1, <3>1 DEF Bars!Fire, Bars!TypeOK
      <3>3. MoneyInv'
        <4> SUFFICES ASSUME series' = "bars", ok', Bars!AtTheMoney', (Bars!StrikeRank(OneContract) = 1)'
                     PROVE  Bars!Tonight' \in asked'
          BY DEF MoneyInv
        <4>1. UNCHANGED <<series, night, spot>>  BY <2>1 DEF Bars!Fire
        <4>2. Bars!AtTheMoney /\ Bars!StrikeRank(OneContract) = 1 /\ Bars!Tonight' = Bars!Tonight
          BY <4>1, MoneyStays
        <4>3. OneContract \in Bars!NearSpot  BY <2>0, <4>2, MoneyIsNear
        <4>4. Bars!Tonight \in Bars!BarAsks(read)  BY <4>3 DEF Bars!BarAsks
        <4>5. asked' = asked \cup Bars!BarAsks(read)  BY <2>1, <4>1 DEF Bars!Fire
        <4> QED  BY <4>2, <4>4, <4>5
      <3> QED  BY <3>2, <3>3
    <2>2. CASE Bars!NextDay
      <3>1. Bars!TypeOK'
        <4>1. night' \in TradingDays /\ watched' \in BOOLEAN /\ role' \in Bars!RolesOf(series)
              /\ spot' \in ClosingPrices
          BY <1>2, <2>2 DEF Bars!NextDay, Bars!TypeOK
        <4> QED  BY <1>2, <2>2, <4>1 DEF Bars!NextDay, Bars!TypeOK
      <3> QED  BY <2>2, <3>1 DEF Bars!NextDay, MoneyInv
    <2>3. ASSUME NEW a \in asked, Bars!Fetch(a) \/ Bars!Fail(a) PROVE (Bars!TypeOK /\ MoneyInv)'
      <3>1. UNCHANGED <<series, night, spot>>  BY <2>3 DEF Bars!Fetch, Bars!Fail
      <3>2. /\ Bars!AtTheMoney' <=> Bars!AtTheMoney
            /\ Bars!StrikeRank(OneContract)' = Bars!StrikeRank(OneContract) /\ Bars!Tonight' = Bars!Tonight
        BY <3>1, MoneyStays
      <3>3. Bars!TypeOK'
        BY <1>2, <2>3 DEF Bars!Fetch, Bars!Fail, Bars!TypeOK, Bars!Within
      <3>4. CASE a = Bars!Tonight
        <4>1. a[1] = night /\ a[2] = night  BY <3>4 DEF Bars!Tonight
        <4>2. CASE Bars!Fetch(a)
          <5>1. night \in have'  BY <2>0, <4>1, <4>2 DEF Bars!Fetch, Bars!Within
          <5> QED  BY <3>1, <3>3, <5>1 DEF MoneyInv
        <4>3. CASE Bars!Fail(a)
          <5>1. ~ok'  BY <4>1, <4>3 DEF Bars!Fail
          <5> QED  BY <3>3, <5>1 DEF MoneyInv
        <4> QED  BY <2>3, <4>2, <4>3
      <3>5. CASE a # Bars!Tonight
        <4>1. /\ ok' => ok
              /\ Bars!Tonight \in asked => Bars!Tonight \in asked'
              /\ night \in have => night \in have'
          <5>0. ok \in BOOLEAN  BY <1>2 DEF Bars!TypeOK
          <5>1. CASE Bars!Fetch(a)
            <6>1. ok' = ok /\ asked' = asked \ {a} /\ have \subseteq have'  BY <5>1 DEF Bars!Fetch
            <6> QED  BY <3>5, <6>1
          <5>2. CASE Bars!Fail(a)
            <6>1. ok' = (ok /\ a[2] # night) /\ asked' = asked \ {a} /\ have' = have
              BY <5>2 DEF Bars!Fail
            <6> QED  BY <3>5, <5>0, <6>1
          <5> QED  BY <2>3, <5>1, <5>2
        <4> QED  BY <1>2, <3>1, <3>2, <3>3, <4>1 DEF MoneyInv
      <3> QED  BY <3>4, <3>5
    <2>4. CASE UNCHANGED Bars!vars
      <3>1. UNCHANGED <<series, night, spot>>  BY <2>4 DEF Bars!vars
      <3>2. /\ Bars!AtTheMoney' <=> Bars!AtTheMoney
            /\ Bars!StrikeRank(OneContract)' = Bars!StrikeRank(OneContract) /\ Bars!Tonight' = Bars!Tonight
        BY <3>1, MoneyStays
      <3> QED  BY <1>2, <2>4, <3>2 DEF Bars!vars, Bars!TypeOK, MoneyInv
    <2> QED  BY <1>2, <2>1, <2>2, <2>3, <2>4 DEF Bars!Next
  <1> QED  BY <1>1, <1>2


\* The bars of a name that was never on the watch list have no hole behind their newest
\* one, and reach over the window once a fire's jobs are done.
LEMMA HoursHaveNoHole == ASSUME BarsInv PROVE Bars!HoursWhole
  BY DEF BarsInv, HoursInv, Bars!HoursWhole, NoHoleBehind, Due

\* A pinned contract has its bars of the whole window once a fire's jobs are done.
LEMMA PinnedHaveNoGap == ASSUME BarsInv PROVE Bars!PinnedWhole
  BY DEF BarsInv, PinnedInv, Bars!PinnedWhole

\* And the contract at the money of a front expiry has its bar once a fire's jobs are done.
LEMMA MoneyHasItsBar == ASSUME MoneyInv PROVE Bars!MoneyWhole
  BY DEF MoneyInv, Bars!MoneyWhole

-----------------------------------------------------------------------------
(* The trim.  A slot computes the age of what may go from the calendar it could read; two *)
(* days of a calendar with a number of its days between them are at least that many days  *)
(* apart, so the age spares every window that is promised (daily.py).                     *)

\* The latest day of a calendar before another is one of its days.
LEMMA LatestIs ==
    ASSUME NEW D \in SUBSET Nat, IsFiniteSet(D), NEW d \in Nat, {e \in D : e <= d} # {}
    PROVE  /\ Trim!Latest(D, d) \in D /\ Trim!Latest(D, d) <= d
           /\ \A e \in D : e <= d => e <= Trim!Latest(D, d)
  <1> DEFINE S == {e \in D : e <= d}
  <1>1. S \in SUBSET D /\ S \in SUBSET Int
    <2>1. S \subseteq D  OBVIOUS
    <2>2. \A e \in Nat : e \in Int  OBVIOUS
    <2> HIDE DEF S
    <2> QED  BY <2>1, <2>2, Zenon
  <1>2. IsFiniteSet(S)  BY <1>1, PartOfFinite
  <1>3. Max(S) \in S /\ \A e \in S : e <= Max(S)
    <2> HIDE DEF S
    <2> QED  BY <1>1, <1>2, MaxIsGreatest DEF S
  <1> QED  BY <1>3, SameMax DEF Trim!Latest

\* The first of the last n days up to another: with it there are n of them.
LEMMA FirstOfIs ==
    ASSUME NEW D \in SUBSET Nat, IsFiniteSet(D), NEW d \in Nat,
           NEW n \in Nat, n > 0, n <= Cardinality({f \in D : f <= d})
    PROVE  /\ Trim!FirstOf(D, n, d) \in D /\ Trim!FirstOf(D, n, d) <= d
           /\ Cardinality({f \in D : Trim!FirstOf(D, n, d) <= f /\ f <= d}) = n
  <1> DEFINE S == {f \in D : f <= d}
  <1>1. S \in SUBSET D /\ S \in SUBSET Int
    <2>1. S \subseteq D  OBVIOUS
    <2>2. \A e \in Nat : e \in Int  OBVIOUS
    <2> HIDE DEF S
    <2> QED  BY <2>1, <2>2, Zenon
  <1>2. IsFiniteSet(S) /\ Cardinality(S) \in Nat  BY <1>1, PartOfFinite
  <1>3. n \in 1..Cardinality(S)  BY <1>2
  <1>4. PICK e \in S : Cardinality(From(S, e)) = n
    <2> HIDE DEF S
    <2> QED  BY <1>1, <1>2, <1>3, BackRankExists
  <1>5. \A g : From(S, g) = {f \in D : g <= f /\ f <= d}  BY Zenon DEF From
  <1>6. e \in D /\ Cardinality({f \in D : e <= f /\ f <= d}) = n  BY <1>4, <1>5
  <1> DEFINE g == Trim!FirstOf(D, n, d)
  <1>7. g \in D /\ Cardinality({f \in D : g <= f /\ f <= d}) = n
    BY <1>6, SameCardinality, Zenon DEF Trim!FirstOf
  <1>8. g <= d
    <2> SUFFICES ASSUME ~(g <= d) PROVE FALSE  OBVIOUS
    <2>1. g \in Nat  BY <1>7
    <2>2. \A f \in D : ~(g <= f /\ f <= d)  BY <2>1
    <2>3. {f \in D : g <= f /\ f <= d} = {}  BY <2>2
    <2> QED  BY <1>7, <2>3, FS_EmptySet
  <1> QED  BY <1>7, <1>8

\* Two days of a calendar, the first with more of its days after it, are so much apart.
LEMMA RanksApart ==
    ASSUME NEW D \in SUBSET Nat, IsFiniteSet(D), NEW d \in Nat, NEW e \in D, NEW g \in D,
           NEW n \in Nat, e <= d, g <= d,
           Cardinality({f \in D : g <= f /\ f <= d}) = n,
           Cardinality({f \in D : e <= f /\ f <= d}) >= n + 2
    PROVE  e + 2 <= g
  <1> DEFINE E == {f \in D : e <= f /\ f <= d}
             G == {f \in D : g <= f /\ f <= d}
  <1>1. E \in SUBSET D /\ G \in SUBSET D  OBVIOUS
  <1>2. IsFiniteSet(E) /\ IsFiniteSet(G) /\ Cardinality(E) \in Nat /\ Cardinality(G) \in Nat
    BY <1>1, PartOfFinite
  <1> SUFFICES ASSUME g <= e + 1 PROVE FALSE
    BY SMT
  <1>3. E \subseteq G \cup {e}
    <2>1. \A f \in Nat : e <= f => f = e \/ g <= f  OBVIOUS
    <2> QED  BY <2>1
  <1>4. IsFiniteSet({e}) /\ Cardinality({e}) = 1  BY FS_Singleton
  <1>5. /\ IsFiniteSet(G \cup {e})
        /\ Cardinality(G \cup {e}) = Cardinality(G) + 1 - Cardinality(G \cap {e})
    BY <1>2, <1>4, FS_Union
  <1>6. Cardinality(G \cap {e}) \in Nat
    <2>1. G \cap {e} \in SUBSET G  OBVIOUS
    <2> QED  BY <1>2, <2>1, PartOfFinite
  <1>7. Cardinality(E) <= Cardinality(G \cup {e})
    BY <1>3, <1>5, PartOfFinite
  <1> QED  BY <1>2, <1>5, <1>6, <1>7

\* Division, for the months of days.
LEMMA DivIs ==
    ASSUME NEW L \in Nat, L > 0, NEW a \in Int
    PROVE  a \div L \in Int /\ L * (a \div L) <= a /\ a < L * (a \div L) + L
  OBVIOUS

\* The month of a day is a number.
LEMMA DivNat ==
    ASSUME NEW L \in Nat, L > 0, NEW a \in Nat
    PROVE  a \div L \in Nat /\ a \div L <= a
  OBVIOUS

\* Months that lie apart are a month apart at least.
LEMMA MonthsApart ==
    ASSUME NEW L \in Nat, L > 0, NEW p \in Int, NEW q \in Int, p * L < L * q
    PROVE  L * p + L <= L * q
  OBVIOUS

\* A cutoff that is rounded out to a month spares what the age itself spares.
LEMMA BeyondIsOlder ==
    ASSUME TrimAssumption, today \in Nat, NEW d \in Nat, NEW days \in Int
    PROVE  /\ Trim!Beyond(d, days) => Trim!Older(d, days)
           /\ Trim!Beyond(Trim!Month(d) * MonthDays, days) => Trim!Older(d, days)
  <1> DEFINE c == today - days
             L == MonthDays
  <1>0. L \in Nat /\ L > 0 /\ c \in Int  BY DEF TrimAssumption
  <1>1. c \div L \in Int /\ L * (c \div L) <= c  BY <1>0, DivIs
  <1>2. d \div L \in Int /\ d < L * (d \div L) + L  BY <1>0, DivIs
  <1>3. Trim!Beyond(d, days) => d < c  BY <1>0, <1>1 DEF Trim!Beyond, Trim!MonthStart, Trim!Month
  <1>4. (d \div L) * L < L * (c \div L) => d < c
    BY <1>0, <1>1, <1>2, MonthsApart
  <1> QED  BY <1>3, <1>4 DEF Trim!Older, Trim!Beyond, Trim!MonthStart, Trim!Month

-----------------------------------------------------------------------------
\* The days a running slot keeps, by one calendar or the other.
KeptDays == {Trim!SnapshotKeep(C) : C \in {WorkDays, OpenDays}}

\* The inductive invariant of the trim: the age in hand was computed from a calendar.
TrimInv ==
    /\ Trim!TypeOK
    /\ step # "idle" => keep \in KeptDays
    /\ mode = "held" => step \in {"idle", "window", "provision"}

\* The age a slot computes spares the last Keep - 2 weekdays, and no less than the window of
\* the intraday rows.
LEMMA KeepSpares ==
    ASSUME TrimAssumption, today \in FirstDay..FinalDay, NEW C \in {WorkDays, OpenDays}
    PROVE  /\ Trim!SnapshotKeep(C) \in 1..FinalDay /\ IntradayDays <= Trim!SnapshotKeep(C)
           /\ \A d \in Nat : Trim!Older(d, Trim!SnapshotKeep(C)) => ~(d >= Trim!FirstOf(WorkDays, SessionsKept - 2, today))
  <1> DEFINE T == Trim!Target
  <1>0. /\ WorkDays \in SUBSET Nat /\ IsFiniteSet(WorkDays) /\ OpenDays \subseteq WorkDays
        /\ SessionsKept \in Nat /\ SessionsKept >= 3 /\ IntradayDays \in Nat /\ IntradayDays < SessionsKept
        /\ FirstDay \in Nat /\ FinalDay \in Nat \ {0} /\ today \in Nat /\ today <= FinalDay
        /\ \E e \in WorkDays : today - 2 <= e /\ e <= today
        /\ SessionsKept <= Cardinality({f \in OpenDays : f <= today})
        /\ SessionsKept <= Cardinality({f \in OpenDays : f <= Trim!Latest(WorkDays, today)})
    BY DEF TrimAssumption
  <1>1. T \in WorkDays /\ T <= today /\ today - 2 <= T /\ \A e \in WorkDays : e <= today => e <= T
    <2>1. {e \in WorkDays : e <= today} # {}  BY <1>0
    <2>2. T \in WorkDays /\ T <= today /\ \A e \in WorkDays : e <= today => e <= T
      BY <1>0, <2>1, LatestIs DEF Trim!Target
    <2> HIDE DEF T
    <2>3. PICK e \in WorkDays : today - 2 <= e /\ e <= today  BY <1>0
    <2>4. e <= T /\ e \in Nat /\ T \in Nat  BY <1>0, <2>2, <2>3
    <2>5. today - 2 <= T  BY <1>0, <2>3, <2>4
    <2> QED  BY <2>2, <2>5
  <1>2. T \in Nat /\ SessionsKept <= Cardinality({f \in OpenDays : f <= T})
    BY <1>0, <1>1 DEF Trim!Target
  <1> HIDE DEF T
  <1>3. C \in SUBSET WorkDays /\ C \in SUBSET Nat /\ IsFiniteSet(C) /\ OpenDays \subseteq C
    <2>1. C \in SUBSET WorkDays /\ OpenDays \subseteq C  BY <1>0
    <2> QED  BY <1>0, <2>1, PartOfFinite
  <1>4. SessionsKept <= Cardinality({f \in C : f <= T})
    <2>1. {f \in OpenDays : f <= T} \in SUBSET {f \in C : f <= T}  BY <1>3
    <2>2. {f \in C : f <= T} \in SUBSET C  OBVIOUS
    <2>3. IsFiniteSet({f \in C : f <= T})  BY <1>3, <2>2, PartOfFinite
    <2>4. /\ Cardinality({f \in OpenDays : f <= T}) \in Nat /\ Cardinality({f \in C : f <= T}) \in Nat
          /\ Cardinality({f \in OpenDays : f <= T}) <= Cardinality({f \in C : f <= T})
      BY <2>1, <2>3, PartOfFinite
    <2> QED  BY <1>0, <1>2, <2>4
  <1> DEFINE e == Trim!FirstOf(C, SessionsKept, T)
  <1>5. e \in C /\ e <= T /\ Cardinality({f \in C : e <= f /\ f <= T}) = SessionsKept
    BY <1>0, <1>2, <1>3, <1>4, FirstOfIs
  <1> HIDE DEF e
  <1>6. e \in WorkDays /\ e \in Nat  BY <1>3, <1>5
  <1> DEFINE W(x) == {f \in WorkDays : x <= f /\ f <= T}
  <1>7. Cardinality(W(e)) \in Nat /\ SessionsKept <= Cardinality(W(e)) /\ IsFiniteSet(W(e))
    <2>1. {f \in C : e <= f /\ f <= T} \in SUBSET W(e)  BY <1>3
    <2>2. W(e) \in SUBSET WorkDays  OBVIOUS
    <2>3. IsFiniteSet(W(e))  BY <1>0, <2>2, PartOfFinite
    <2> HIDE DEF W
    <2> QED  BY <1>5, <2>1, <2>3, PartOfFinite
  <1>8. T - e >= SessionsKept - 1
    <2>1. \A f \in Nat : e <= f /\ f <= T => f \in e..T  BY <1>2, <1>6
    <2>2. W(e) \in SUBSET (e..T)  BY <1>0, <2>1
    <2>3. IsFiniteSet(e..T) /\ Cardinality(e..T) = T - e + 1
      BY <1>2, <1>5, <1>6, FS_Interval
    <2>4. Cardinality(W(e)) <= T - e + 1
      <3> HIDE DEF W
      <3> QED  BY <2>2, <2>3, PartOfFinite
    <2> QED  BY <1>0, <1>2, <1>6, <1>7, <2>4
  <1>9. Trim!SnapshotKeep(C) = T - e
    <2> DEFINE M == {1, T - e}
    <2>1. Trim!SnapshotKeep(C) = Max(M)  BY SameMax DEF Trim!SnapshotKeep, e, T
    <2>2. T - e \in Int /\ 1 <= T - e  BY <1>0, <1>2, <1>6, <1>8
    <2>3. Max(M) = T - e  BY <2>2, OfTwo
    <2> QED  BY <2>1, <2>3
  <1> DEFINE n == SessionsKept - 2
             g == Trim!FirstOf(WorkDays, n, today)
  <1>10. {f \in WorkDays : f <= today} = {f \in WorkDays : f <= T}
    <2>1. \A f \in WorkDays : f <= today <=> f <= T  BY <1>0, <1>1, <1>2
    <2> QED  BY <2>1
  <1>11. n <= Cardinality({f \in WorkDays : f <= today})
    <2>1. W(e) \in SUBSET {f \in WorkDays : f <= T}  OBVIOUS
    <2>2. {f \in WorkDays : f <= T} \in SUBSET WorkDays  OBVIOUS
    <2>3. IsFiniteSet({f \in WorkDays : f <= T})  BY <1>0, <2>2, PartOfFinite
    <2>4. Cardinality({f \in WorkDays : f <= T}) \in Nat
          /\ Cardinality(W(e)) <= Cardinality({f \in WorkDays : f <= T})
      <3> HIDE DEF W
      <3> QED  BY <2>1, <2>3, PartOfFinite
    <2>5. Cardinality({f \in WorkDays : f <= today}) = Cardinality({f \in WorkDays : f <= T})
      BY <1>10, Zenon
    <2> HIDE DEF W
    <2> QED  BY <1>0, <1>7, <2>4, <2>5
  <1>12. g \in WorkDays /\ g <= today /\ Cardinality({f \in WorkDays : g <= f /\ f <= today}) = n
    <2>1. n \in Nat /\ n > 0  BY <1>0
    <2> HIDE DEF n
    <2> QED  BY <1>0, <1>11, <2>1, FirstOfIs
  <1> HIDE DEF g
  <1>13. g \in Nat /\ g <= T /\ Cardinality(W(g)) = n
    <2>1. \A f \in WorkDays : f <= today <=> f <= T  BY <1>0, <1>1, <1>2
    <2>2. {f \in WorkDays : g <= f /\ f <= today} = W(g)  BY <2>1
    <2> QED  BY <1>0, <1>12, <2>1, <2>2
  <1>14. e + 2 <= g
    <2>1. n \in Nat /\ n + 2 = SessionsKept  BY <1>0
    <2>2. Cardinality({f \in WorkDays : g <= f /\ f <= T}) = n  BY <1>13
    <2>3. Cardinality({f \in WorkDays : e <= f /\ f <= T}) >= n + 2  BY <1>7, <2>1
    <2> HIDE DEF n
    <2> QED  BY <1>0, <1>2, <1>5, <1>6, <1>12, <1>13, <2>1, <2>2, <2>3, RanksApart
  <1>15. \A d \in Nat : Trim!Older(d, T - e) => ~(d >= g)
    BY <1>0, <1>1, <1>2, <1>6, <1>13, <1>14 DEF Trim!Older
  <1>16. T - e \in 1..FinalDay /\ IntradayDays <= T - e
    BY <1>0, <1>1, <1>2, <1>6, <1>8
  <1> QED  BY <1>9, <1>15, <1>16 DEF g

\* The partitions that are provided for are of months.
LEMMA MonthsTyped ==
    ASSUME TrimAssumption, today \in FirstDay..FinalDay
    PROVE  Trim!Months \subseteq (-MonthsBack)..(FinalDay + MonthsAhead)
  <1>1. MonthDays \in Nat /\ MonthDays > 0 /\ today \in Nat /\ today <= FinalDay /\ FinalDay \in Nat
        /\ MonthsBack \in Nat /\ MonthsAhead \in Nat
    BY DEF TrimAssumption
  <1>2. Trim!Month(today) \in Nat /\ Trim!Month(today) <= today  BY <1>1, DivNat DEF Trim!Month
  <1>3. \A m \in (Trim!Month(today) - MonthsBack)..(Trim!Month(today) + MonthsAhead) : m \in (-MonthsBack)..(FinalDay + MonthsAhead)
    <2> DEFINE p == Trim!Month(today)
    <2>1. p \in Nat /\ p <= FinalDay  BY <1>1, <1>2
    <2> HIDE DEF p
    <2>2. \A m \in (p - MonthsBack)..(p + MonthsAhead) : m \in (-MonthsBack)..(FinalDay + MonthsAhead)
      BY <1>1, <2>1
    <2> QED  BY <2>2 DEF p
  <1> QED  BY <1>3 DEF Trim!Months

\* The slot is idle at first.
LEMMA TrimInit == ASSUME TrimAssumption, Trim!Init PROVE TrimInv
  <1>1. today \in FirstDay..FinalDay /\ keep \in 1..FinalDay /\ step = "idle"
    BY DEF TrimAssumption, Trim!Init
  <1>2. parts \in [Trim!Partitioned -> SUBSET ((-MonthsBack)..(FinalDay + MonthsAhead))]
    BY <1>1, MonthsTyped DEF Trim!Init
  <1> QED  BY <1>1, <1>2 DEF Trim!Init, TrimInv, Trim!TypeOK

\* Days that pass bring rows of their kind.
LEMMA IncomingTyped ==
    ASSUME TrimAssumption, today \in FirstDay..FinalDay
    PROVE  Trim!Incoming \subseteq Trim!Row
  <1>0. today \in Nat /\ today <= FinalDay /\ FinalDay \in Nat /\ OpenDays \in SUBSET Nat
        /\ IsFiniteSet(OpenDays) /\ SessionsKept <= Cardinality({f \in OpenDays : f <= today})
        /\ SessionsKept \in Nat /\ SessionsKept >= 3
    <2>1. OpenDays \in SUBSET WorkDays /\ IsFiniteSet(WorkDays) /\ WorkDays \in SUBSET Nat
      BY DEF TrimAssumption
    <2>2. IsFiniteSet(OpenDays) /\ OpenDays \in SUBSET Nat  BY <2>1, PartOfFinite
    <2>3. today \in Nat /\ today <= FinalDay /\ FinalDay \in Nat /\ SessionsKept \in Nat /\ SessionsKept >= 3
      BY DEF TrimAssumption
    <2>4. SessionsKept <= Cardinality({f \in OpenDays : f <= today})  BY DEF TrimAssumption
    <2> QED  BY <2>2, <2>3, <2>4
  <1>1. {f \in OpenDays : f <= today} # {}
    <2> SUFFICES ASSUME {f \in OpenDays : f <= today} = {} PROVE FALSE  OBVIOUS
    <2>1. Cardinality({f \in OpenDays : f <= today}) = 0  BY FS_EmptySet
    <2> QED  BY <1>0, <2>1
  <1>2. Trim!Latest(OpenDays, today) \in 0..FinalDay
    <2> DEFINE l == Trim!Latest(OpenDays, today)
    <2>1. l \in OpenDays /\ l <= today  BY <1>0, <1>1, LatestIs
    <2> HIDE DEF l
    <2>2. l \in Nat  BY <1>0, <2>1
    <2>3. l \in 0..FinalDay  BY <1>0, <2>1, <2>2
    <2> QED  BY <2>3 DEF l
  <1>3. today \in 0..FinalDay /\ \A d \in 0..today : d \in 0..FinalDay  BY <1>0
  <1> SUFFICES ASSUME NEW x \in Trim!Incoming PROVE x \in Trim!Row  OBVIOUS
  <1>4. CASE x \in {Trim!Entry("snapshot", k, Trim!Latest(OpenDays, today)) : k \in {"eod", "intraday", "pinned"}}
    BY <1>2, <1>4 DEF Trim!Entry, Trim!Row
  <1>5. CASE x \in {Trim!Entry("daily", "eod", d) : d \in {e \in 0..today : ~Trim!Beyond(e, DaysKept)}}
    BY <1>3, <1>5 DEF Trim!Entry, Trim!Row
  <1>6. CASE x = Trim!Entry("heap", "eod", today)
    BY <1>3, <1>6 DEF Trim!Entry, Trim!Row
  <1> QED  BY <1>4, <1>5, <1>6 DEF Trim!Incoming

\* What is left of the rows is of their kind.
LEMMA LeaveTyped ==
    ASSUME NEW R, Trim!Leave(R), row \in [KeptRows -> Trim!Row \cup {Trim!Absent}]
    PROVE  row' \in [KeptRows -> Trim!Row \cup {Trim!Absent}]
           /\ \A r \in KeptRows : Trim!Leaves(r) => r \in R
  BY DEF Trim!Leave, Trim!Leaves, Trim!Present

\* Any step of the slot leaves the days alone and goes from a step to a step.
Steps == {"idle", "intraday", "drop", "window", "provision", "rows", "pack", "months", "dated",
          "heap"}

\* Such a step keeps the invariant.
LEMMA TrimSteady ==
    ASSUME TrimInv, UNCHANGED <<mode, owned, today, keep>>, step # "idle" \/ step' = "idle",
           step' \in Steps, mode = "held" => step' \in {"idle", "window", "provision"},
           row' \in [KeptRows -> Trim!Row \cup {Trim!Absent}],
           parts' \in [Trim!Partitioned -> SUBSET ((-MonthsBack)..(FinalDay + MonthsAhead))]
    PROVE  TrimInv'
  <1>1. KeptDays' = KeptDays
    BY DEF KeptDays, Trim!SnapshotKeep, Trim!Target
  <1> QED  BY <1>1 DEF TrimInv, Trim!TypeOK, Steps

\* Every step of the slot and of the days.
LEMMA TrimNext == ASSUME TrimAssumption, TrimInv, [Trim!Next]_(Trim!vars) PROVE TrimInv'
  <1>0. Trim!TypeOK /\ row \in [KeptRows -> Trim!Row \cup {Trim!Absent}] /\ today \in FirstDay..FinalDay
        /\ parts \in [Trim!Partitioned -> SUBSET ((-MonthsBack)..(FinalDay + MonthsAhead))] /\ step \in Steps
    BY DEF TrimInv, Trim!TypeOK, Steps
  <1>1. ASSUME NEW r \in KeptRows, NEW x \in Trim!Incoming, Trim!Ingest(r, x) PROVE TrimInv'
    <2>1. x \in Trim!Row  BY <1>0, <1>1, IncomingTyped
    <2>2. row' \in [KeptRows -> Trim!Row \cup {Trim!Absent}]  BY <1>0, <1>1, <2>1 DEF Trim!Ingest
    <2>3. KeptDays' = KeptDays  BY <1>1 DEF Trim!Ingest, KeptDays, Trim!SnapshotKeep, Trim!Target
    <2> QED  BY <1>1, <2>2, <2>3 DEF Trim!Ingest, TrimInv, Trim!TypeOK
  <1>2. CASE Trim!DayPasses
    <2>1. today' \in FirstDay..FinalDay
      BY <1>0, <1>2 DEF Trim!DayPasses, TrimAssumption
    <2> QED  BY <1>2, <2>1 DEF Trim!DayPasses, TrimInv, Trim!TypeOK
  <1>3. ASSUME NEW C \in {WorkDays, OpenDays}, Trim!Begin(C) PROVE TrimInv'
    <2>1. keep' \in 1..FinalDay /\ keep' \in KeptDays
      BY <1>0, <1>3, KeepSpares DEF Trim!Begin, KeptDays
    <2>2. KeptDays' = KeptDays
      BY <1>3 DEF Trim!Begin, Trim!At, KeptDays, Trim!SnapshotKeep, Trim!Target
    <2>3. step' \in {"intraday", "window"} /\ (mode = "held" => step' = "window")
      BY <1>3 DEF Trim!Begin, Trim!To
    <2> QED  BY <1>3, <2>1, <2>2, <2>3 DEF Trim!Begin, Trim!At, TrimInv, Trim!TypeOK
  <1>4. ASSUME NEW at, NEW R, NEW then, Trim!Purge(at, R, then), at \notin {"idle", "window", "provision"},
               then \in {"idle", "drop", "months", "dated", "heap"}
        PROVE TrimInv'
    <2>1. row' \in [KeptRows -> Trim!Row \cup {Trim!Absent}]
      BY <1>0, <1>4, LeaveTyped DEF Trim!Purge
    <2>2. mode # "held" /\ step # "idle"  BY <1>4 DEF Trim!Purge, Trim!At, TrimInv
    <2> QED  BY <1>0, <1>4, <2>1, <2>2, TrimSteady DEF Trim!Purge, Trim!At, Trim!To, Steps
  <1>5. ASSUME NEW R, Trim!PurgeIntraday(R) \/ Trim!PurgeRows(R) \/ Trim!Pack(R) \/ Trim!PurgeDated(R) \/ Trim!PurgeHeap(R)
        PROVE TrimInv'
    BY <1>4, <1>5 DEF Trim!PurgeIntraday, Trim!PurgeRows, Trim!Pack, Trim!PurgeDated, Trim!PurgeHeap
  <1>6. ASSUME NEW t \in Trim!Partitioned, NEW days, NEW then, NEW at, Trim!At(at), Trim!Drop(t, days, then),
               at \in {"drop", "months"}, then \in {"window", "dated"}
        PROVE TrimInv'
    <2>1. row' \in [KeptRows -> Trim!Row \cup {Trim!Absent}]
      BY <1>0, <1>6, LeaveTyped DEF Trim!Drop
    <2>2. parts' \in [Trim!Partitioned -> SUBSET ((-MonthsBack)..(FinalDay + MonthsAhead))]
      BY <1>0, <1>6 DEF Trim!Drop
    <2>3. mode # "held" /\ step # "idle"  BY <1>6 DEF Trim!At, TrimInv
    <2> QED  BY <1>0, <1>6, <2>1, <2>2, <2>3, TrimSteady DEF Trim!Drop, Trim!At, Trim!To, Steps
  <1>7. CASE Trim!DropSnapshots \/ Trim!DropMonths
    BY <1>6, <1>7 DEF Trim!DropSnapshots, Trim!DropMonths, Trim!Partitioned
  <1>8. ASSUME NEW T \in SUBSET Trim!Partitioned, NEW then, NEW at \in {"window", "provision"},
               Trim!At(at), Trim!Provide(T, then), then \in Steps,
               mode = "held" => then \in {"idle", "window", "provision"}
        PROVE TrimInv'
    <2>1. parts' \in [Trim!Partitioned -> SUBSET ((-MonthsBack)..(FinalDay + MonthsAhead))]
      BY <1>0, <1>8, MonthsTyped DEF Trim!Provide
    <2> QED  BY <1>0, <1>8, <2>1, TrimSteady DEF Trim!Provide, Trim!At, Trim!To
  <1>9. Trim!AfterProvision \in Steps /\ (mode = "held" => Trim!AfterProvision = "idle")
    BY DEF Trim!AfterProvision, Steps
  <1>10. CASE Trim!OpenWindow \/ Trim!Provision
    BY <1>8, <1>9, <1>10 DEF Trim!OpenWindow, Trim!Provision, Trim!Partitioned, Steps
  <1>11. CASE Trim!SnapshotsFail
    BY <1>0, <1>11, TrimSteady DEF Trim!SnapshotsFail, Trim!At, Trim!To, Steps
  <1>12. CASE Trim!StepFails
    <2>1. step' \in Steps /\ step # "idle" /\ (mode = "held" => step' = "idle")
      BY <1>9, <1>12 DEF Trim!StepFails, Trim!To, Steps, TrimInv
    <2> QED  BY <1>0, <1>12, <2>1, TrimSteady DEF Trim!StepFails, Trim!At
  <1>13. CASE UNCHANGED Trim!vars
    BY <1>13 DEF Trim!vars, TrimInv, Trim!TypeOK, KeptDays, Trim!SnapshotKeep, Trim!Target
  <1> QED  BY <1>1, <1>2, <1>3, <1>5, <1>7, <1>10, <1>11, <1>12, <1>13 DEF Trim!Next

-----------------------------------------------------------------------------
\* What each step removes is past every window that is promised for it.
LEMMA SnapshotsSpared ==
    ASSUME TrimAssumption, TrimInv, mode # "held", step # "idle", NEW x \in Trim!Row,
           x.table = "snapshot", Trim!Older(x.day, keep)
    PROVE  ~Trim!Promised(x)
  <1>1. PICK C \in {WorkDays, OpenDays} : keep = Trim!SnapshotKeep(C)
    BY DEF TrimInv, KeptDays
  <1>2. today \in FirstDay..FinalDay /\ x.day \in Nat /\ today \in Nat
    BY DEF TrimInv, Trim!TypeOK, Trim!Row, TrimAssumption
  <1>3. keep \in 1..FinalDay /\ IntradayDays <= keep /\ ~(x.day >= Trim!FirstOf(WorkDays, SessionsKept - 2, today))
    BY <1>1, <1>2, KeepSpares
  <1>4. Trim!Older(x.day, IntradayDays)
    BY <1>2, <1>3 DEF Trim!Older, TrimAssumption
  <1> QED  BY <1>3, <1>4 DEF Trim!Promised

\* The same of the rows of a day in progress.
LEMMA IntradaysSpared ==
    ASSUME mode # "held", NEW x \in Trim!Row, x.kind = "intraday", Trim!Older(x.day, IntradayDays)
    PROVE  ~Trim!Promised(x)
  <1>1. x.table = "snapshot"  BY DEF Trim!Row
  <1> QED  BY <1>1 DEF Trim!Promised

\* The same of the rows that are kept by date.
LEMMA DatedSpared ==
    ASSUME mode # "held", NEW x \in Trim!Row, x.table # "snapshot", Trim!Older(x.day, DaysKept)
    PROVE  ~Trim!Promised(x)
  <1>1. x.kind = "eod"  BY DEF Trim!Row
  <1> QED  BY <1>1 DEF Trim!Promised

\* So no step removes what is in its window.
LEMMA WindowStep ==
    ASSUME TrimAssumption, TrimInv, [Trim!Next]_(Trim!vars), NEW r \in KeptRows, Trim!Leaves(r)
    PROVE  ~Trim!Promised(row[r])
  <1> DEFINE x == row[r]
  <1>0. /\ row \in [KeptRows -> Trim!Row \cup {Trim!Absent}] /\ today \in Nat /\ x \in Trim!Row /\ x.day \in Nat
        /\ keep \in Int /\ DaysKept \in Int /\ row' # row
    <2>1. row \in [KeptRows -> Trim!Row \cup {Trim!Absent}] /\ today \in Nat /\ keep \in Int
          /\ DaysKept \in Int
      BY DEF TrimInv, Trim!TypeOK, TrimAssumption
    <2>2. x # Trim!Absent /\ row'[r] = Trim!Absent  BY DEF Trim!Leaves, Trim!Present
    <2>3. x \in Trim!Row  BY <2>1, <2>2
    <2> QED  BY <2>1, <2>2, <2>3 DEF Trim!Row
  <1>1. ASSUME NEW q \in KeptRows, NEW y \in Trim!Incoming, Trim!Ingest(q, y) PROVE FALSE
    <2>1. y # Trim!Absent
      <3>1. y \in Trim!Row  BY IncomingTyped DEF TrimInv, Trim!TypeOK
      <3>2. y.table # "none"  BY <3>1 DEF Trim!Row
      <3> QED  BY <3>2 DEF Trim!Absent
    <2> QED  BY <1>0, <1>1, <2>1 DEF Trim!Ingest, Trim!Leaves, Trim!Present
  <1>2. \A at, R, then : Trim!Purge(at, R, then) => r \in R /\ step = at
    BY <1>0, LeaveTyped DEF Trim!Purge, Trim!At
  <1>3. ASSUME NEW R \in SUBSET Trim!Intradays, Trim!PurgeIntraday(R) PROVE ~Trim!Promised(x)
    <2>1. r \in Trim!Intradays /\ step = "intraday"  BY <1>2, <1>3 DEF Trim!PurgeIntraday
    <2>2. mode # "held"  BY <2>1 DEF TrimInv
    <2> QED  BY <1>0, <2>1, <2>2, IntradaysSpared DEF Trim!Intradays
  <1>4. ASSUME NEW R \in SUBSET Trim!Snapshots, Trim!PurgeRows(R) PROVE ~Trim!Promised(x)
    <2>1. r \in Trim!Snapshots /\ step = "rows"  BY <1>2, <1>4 DEF Trim!PurgeRows
    <2>2. mode # "held" /\ step # "idle"  BY <2>1 DEF TrimInv
    <2> QED  BY <1>0, <2>1, <2>2, SnapshotsSpared DEF Trim!Snapshots
  <1>5. ASSUME NEW R \in SUBSET (Trim!Intradays \cup Trim!Snapshots), Trim!Pack(R) PROVE ~Trim!Promised(x)
    <2>1. r \in Trim!Intradays \cup Trim!Snapshots /\ step = "pack"  BY <1>2, <1>5 DEF Trim!Pack
    <2>2. mode # "held" /\ step # "idle"  BY <2>1 DEF TrimInv
    <2> QED  BY <1>0, <2>1, <2>2, SnapshotsSpared, IntradaysSpared
                DEF Trim!Snapshots, Trim!Intradays
  <1>6. ASSUME NEW R \in SUBSET Trim!Dated("daily"), Trim!PurgeDated(R) PROVE ~Trim!Promised(x)
    <2>1. r \in Trim!Dated("daily") /\ step = "dated"  BY <1>2, <1>6 DEF Trim!PurgeDated
    <2>2. mode # "held"  BY <2>1 DEF TrimInv
    <2>3. x.table = "daily" /\ Trim!Beyond(x.day, DaysKept)  BY <2>1 DEF Trim!Dated
    <2>4. Trim!Older(x.day, DaysKept)  BY <1>0, <2>3, BeyondIsOlder
    <2> QED  BY <1>0, <2>2, <2>3, <2>4, DatedSpared
  <1>7. ASSUME NEW R \in SUBSET Trim!Dated("heap"), Trim!PurgeHeap(R) PROVE ~Trim!Promised(x)
    <2>1. r \in Trim!Dated("heap") /\ step = "heap"  BY <1>2, <1>7 DEF Trim!PurgeHeap
    <2>2. mode # "held"  BY <2>1 DEF TrimInv
    <2>3. x.table = "heap" /\ Trim!Beyond(x.day, DaysKept)  BY <2>1 DEF Trim!Dated
    <2>4. Trim!Older(x.day, DaysKept)  BY <1>0, <2>3, BeyondIsOlder
    <2> QED  BY <1>0, <2>2, <2>3, <2>4, DatedSpared
  <1>8. ASSUME NEW t, NEW days \in Int, NEW then, Trim!Drop(t, days, then)
        PROVE  x.table = t /\ Trim!Older(x.day, days)
    <2>1. r \in Trim!InMonths(t, Trim!MonthsPast(t, days))  BY <1>0, <1>8, LeaveTyped DEF Trim!Drop
    <2>2. x.table = t /\ Trim!Beyond(Trim!Month(x.day) * MonthDays, days)
      BY <2>1 DEF Trim!InMonths, Trim!MonthsPast
    <2> QED  BY <1>0, <2>2, BeyondIsOlder
  <1>9. CASE Trim!DropSnapshots
    <2>1. x.table = "snapshot" /\ Trim!Older(x.day, keep) /\ step = "drop"
      BY <1>0, <1>8, <1>9 DEF Trim!DropSnapshots, Trim!At
    <2>2. mode # "held" /\ step # "idle"  BY <2>1 DEF TrimInv
    <2> QED  BY <1>0, <2>1, <2>2, SnapshotsSpared
  <1>10. CASE Trim!DropMonths
    <2>1. x.table = "daily" /\ Trim!Older(x.day, DaysKept) /\ step = "months"
      BY <1>0, <1>8, <1>10 DEF Trim!DropMonths, Trim!At
    <2>2. mode # "held"  BY <2>1 DEF TrimInv
    <2> QED  BY <1>0, <2>1, <2>2, DatedSpared
  <1>11. ASSUME Trim!DayPasses \/ (\E C \in {WorkDays, OpenDays} : Trim!Begin(C)) \/ Trim!OpenWindow \/ Trim!Provision
                 \/ Trim!SnapshotsFail \/ Trim!StepFails \/ UNCHANGED Trim!vars
         PROVE  FALSE
    BY <1>0, <1>11
       DEF Trim!DayPasses, Trim!Begin, Trim!OpenWindow, Trim!Provision, Trim!Provide,
           Trim!SnapshotsFail, Trim!StepFails,
                       Trim!vars
  <1> QED  BY <1>1, <1>3, <1>4, <1>5, <1>6, <1>7, <1>9, <1>10, <1>11 DEF Trim!Next

-----------------------------------------------------------------------------
(* All parts together.  A step of one is a step that leaves the others alone, so what each *)
(* part's steps preserve, a step of AllNext preserves.                                     *)

\* A step of the whole is a step of a part, and a step of no other.
LEMMA StepsOfParts ==
    ASSUME [AllNext]_allVars
    PROVE  /\ [Next]_vars /\ [Eve!Next]_(Eve!vars) /\ [Months!Next]_(Months!vars)
           /\ [Trim!Next]_(Trim!vars) /\ [Bars!Next]_(Bars!vars)
  <1> USE DEF Eve!vars, Months!vars, Trim!vars, Bars!vars, eveVars, monthVars, trimVars, barVars
  <1>1. CASE AllNext
    <2>1. Frozen  BY <1>1 DEF AllNext
    <2>2. /\ part = "evening" => Eve!Next
          /\ part = "depth"   => Months!Next
          /\ part = "pages"   => Next
          /\ part = "trim"    => Trim!Next
          /\ part = "bars"    => Bars!Next
      BY <1>1 DEF AllNext
    <2> QED  BY <2>1, <2>2 DEF Frozen
  <1>2. CASE UNCHANGED allVars  BY <1>2 DEF allVars
  <1> QED  BY <1>1, <1>2

\* The inductive invariant of the whole.
AllInv ==
    /\ ChainInv /\ Eve!TypeOK /\ Months!TypeOK /\ TrimInv
    /\ BarsInv /\ Bars!TypeOK /\ MoneyInv

\* Each part starts with its own.
LEMMA AllInvInit == AllInit => AllInv
  <1> SUFFICES ASSUME AllInit PROVE AllInv  OBVIOUS
  <1> USE CollectionAssumption DEF AllInit
  <1>1. ChainInv  BY ChainStep
  <1>2. Eve!TypeOK  BY EveTypes DEF EveningAssumption
  <1>3. Months!TypeOK  BY DepthTypes
  <1>4. TrimInv  BY TrimInit
  <1>5. BarsInv /\ Bars!TypeOK /\ MoneyInv  BY BarsInvStep, MoneyStep
  <1> QED  BY <1>1, <1>2, <1>3, <1>4, <1>5 DEF AllInv

\* A step is a step of one part, which keeps its own.
LEMMA AllInvNext == AllInv /\ [AllNext]_allVars => AllInv'
  <1> SUFFICES ASSUME AllInv, [AllNext]_allVars PROVE AllInv'  OBVIOUS
  <1> USE CollectionAssumption, StepsOfParts DEF AllInv
  <1>1. ChainInv'  BY ChainStep
  <1>2. Eve!TypeOK'  BY EveTypes DEF EveningAssumption
  <1>3. Months!TypeOK'  BY DepthTypes
  <1>4. TrimInv'  BY TrimNext
  <1>5. BarsInv' /\ Bars!TypeOK' /\ MoneyInv'  BY BarsInvStep, MoneyStep
  <1> QED  BY <1>1, <1>2, <1>3, <1>4, <1>5

\* It is what the runs check.
LEMMA AllInvMeans == AllInv => TypesOK /\ NothingForgotten /\ ChainWhole
  <1> SUFFICES ASSUME AllInv PROVE TypesOK /\ NothingForgotten /\ ChainWhole  OBVIOUS
  <1> USE CollectionAssumption DEF AllInv
  <1>1. TypesOK  BY DEF TypesOK, ChainInv, TrimInv
  <1>2. ChainWhole  BY ChainMeans
  <1>3. Bars!CaughtUp  BY HoursHaveNoHole, PinnedHaveNoGap, MoneyHasItsBar DEF Bars!CaughtUp
  <1> QED  BY <1>1, <1>2, <1>3, SlotCovers DEF NothingForgotten

\* So it holds always.
LEMMA AllInvHolds == AllSpec => []AllInv
  BY AllInvInit, AllInvNext, PTL DEF AllSpec

\* Every part's variables hold values of their kind, for any chain of pages, any catalogue,
\* any calendar and any number of rows and names.
THEOREM CollectionTypes == AllSpec => []TypesOK
  BY AllInvHolds, AllInvMeans, PTL

\* A chain whose jobs all say done is whole, whatever failed, was tried again, continued or
\* enqueued once more, for any vendor's cursors and any number of pages to a job.
THEOREM DoneChainIsWhole == AllSpec => []ChainWhole
  BY AllInvHolds, AllInvMeans, PTL

\* What one fire of a slot leaves behind, another takes up: a fire of the evening slot would
\* enqueue every name without a job, and the hourly bars, the bars of a pinned contract and
\* those of the one at the money have no gap once a fire's jobs are done, for any calendar,
\* ladder of contracts and order of jobs.
THEOREM LaterFireTakesUp == AllSpec => []NothingForgotten
  BY AllInvHolds, AllInvMeans, PTL

\* No row leaves before its window is over, whatever the trim drops, whichever step fails and
\* whatever calendar it read.
THEOREM TrimKeepsWindow == AllSpec => WindowKept
  <1>1. AllInv /\ [AllNext]_allVars =>
            [\A r \in KeptRows : Trim!Leaves(r) => ~Trim!Promised(row[r])]_(Trim!vars)
    BY CollectionAssumption, StepsOfParts, WindowStep DEF AllInv
  <1> QED  BY <1>1, AllInvHolds, PTL DEF AllSpec, WindowKept, Trim!WindowKept

=============================================================================
