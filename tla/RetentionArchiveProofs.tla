----------------------- MODULE RetentionArchiveProofs -----------------------
(***************************************************************************)
(* Proofs about the archive, for any table, any passes and windows, and    *)
(* any number of writes, failures and crashes.                             *)
(***************************************************************************)
EXTENDS RetentionArchive, SequenceTheorems, TLAPS

\* What the proofs assume beside ArchiveAssumption: a commit that raises was not
\* applied.  Without it the promise fails, as the run about the commit shows.
CommitHonest == TRUE \notin RaiseOutcomes

\* The copies are true: none is newer than its item, and they grow with the files.
CopiesTrue ==
    /\ \A k \in DOMAIN files, i \in Items : files[k].copy[i] <= ver[i]
    /\ \A k, l \in DOMAIN files, i \in Items :
          k < l /\ files[l].copy[i] # 0 => files[k].copy[i] <= files[l].copy[i]

\* The transaction's copy is true as well, and exact while its delete is pending.
ReadTrue ==
    /\ \A i \in Items : copy[i] <= ver[i]
    /\ pc \in {"copied", "deleted"} =>
          \A k \in DOMAIN files, i \in Items : Archived(i) => files[k].copy[i] <= copy[i]
    /\ pc \in {"deleted", "renamed"} =>
          \A i \in Items : Archived(i) => i \in here /\ ver[i] = copy[i]
    /\ pc \in {"renamed", "committed"} => files[Len(files)].copy = copy
    /\ pc = "committed" => \A i \in Items : Archived(i) /\ i \in here => ver[i] > copy[i]

\* The inductive invariant of the archive.
Inv == TypeOK /\ CopiesTrue /\ ReadTrue /\ LedgerVouches

-----------------------------------------------------------------------------
\* Cutoffs and range ends are days.
LEMMA DayTypes ==
    /\ \A d \in Int : MonthStart(d) \in Int
    /\ \A s, t \in Int : ChunkEnd(s, t) \in Int
  <1>1. \A d \in Int : MonthStart(d) \in Int
    BY ArchiveAssumption DEF MonthStart
  <1> QED  BY <1>1, ArchiveAssumption DEF ChunkEnd, Lower

\* The file that Rename appends.
LEMMA RenameEffect ==
    ASSUME TypeOK, Rename
    PROVE  /\ files' \in Seq(File) /\ DOMAIN files' = DOMAIN files \cup {Len(files) + 1}
           /\ Len(files') = Len(files) + 1 /\ files' # <<>>
           /\ Len(files) + 1 \notin DOMAIN files
           /\ \A k \in DOMAIN files : files'[k] = files[k] /\ k < Len(files) + 1
           /\ files'[Len(files) + 1].copy = copy /\ ~files'[Len(files) + 1].logged
  <1> DEFINE new == [copy |-> copy, logged |-> FALSE]
  <1>1. new \in File /\ new.copy = copy /\ ~new.logged  BY DEF TypeOK, File
  <1>2. files \in Seq(File) /\ files' = Append(files, new)  BY DEF TypeOK, Rename
  <1> HIDE DEF new
  <1> QED  BY <1>1, <1>2, AppendProperties

\* What is left of the files when a failed commit unlinks the last one.
LEMMA UnlinkEffect ==
    ASSUME TypeOK, NEW applied \in BOOLEAN, CommitRaises(applied)
    PROVE  /\ files' \in Seq(File) /\ DOMAIN files' = DOMAIN files \ {Len(files)}
           /\ \A k \in DOMAIN files' : files'[k] = files[k]
           /\ Len(files) \in DOMAIN files
  <1>1. files \in Seq(File) /\ files # <<>>  BY DEF TypeOK, CommitRaises
  <1>2. Len(files) \in Nat /\ Len(files) > 0 /\ DOMAIN files = 1..Len(files)
    BY <1>1
  <1>3. files' = SubSeq(files, 1, Len(files) - 1)  BY DEF CommitRaises
  <1>4. files' = [k \in 1..(Len(files) - 1) |-> files[k]]  BY <1>1, <1>2, <1>3
  <1>5. \A k \in 1..(Len(files) - 1) : files[k] \in File  BY <1>1, <1>2
  <1>6. DOMAIN files' = 1..(Len(files) - 1)  BY <1>4
  <1>7. files' \in Seq(File)  BY <1>2, <1>4, <1>5
  <1> QED  BY <1>2, <1>4, <1>6, <1>7

\* The ledger line changes no copy.
LEMMA LedgerEffect ==
    ASSUME TypeOK, WriteLedger
    PROVE  /\ files' \in Seq(File) /\ DOMAIN files' = DOMAIN files
           /\ \A k \in DOMAIN files : /\ files'[k].copy = files[k].copy
                                      /\ k # Len(files) => files'[k].logged = files[k].logged
  <1>1. files \in Seq(File) /\ files # <<>>  BY DEF TypeOK, WriteLedger
  <1>2. Len(files) \in Nat /\ DOMAIN files = 1..Len(files) /\ Len(files) \in DOMAIN files
    BY <1>1
  <1>3. files' = [k \in DOMAIN files |-> IF k = Len(files) THEN [files[k] EXCEPT !.logged = TRUE]
                                                         ELSE files[k]]
    BY <1>1, <1>2 DEF WriteLedger
  <1>4. \A k \in DOMAIN files : files[k] \in File  BY <1>1
  <1>5. \A k \in DOMAIN files : files'[k] \in File /\ files'[k].copy = files[k].copy
                                /\ (k # Len(files) => files'[k].logged = files[k].logged)
    BY <1>3, <1>4 DEF File
  <1>6. files' = [k \in 1..Len(files) |-> files'[k]]  BY <1>2, <1>3
  <1>7. files' \in [1..Len(files) -> File]  BY <1>2, <1>5, <1>6
  <1>8. files' \in Seq(File)  BY <1>2, <1>7
  <1> QED  BY <1>3, <1>5, <1>8

-----------------------------------------------------------------------------
\* Every step keeps the types.
LEMMA TypeStep == TypeOK /\ [Next]_vars => TypeOK'
  <1> USE ArchiveAssumption
  <1> SUFFICES ASSUME TypeOK, [Next]_vars PROVE TypeOK'  OBVIOUS
  <1>1. CASE Midnight  BY <1>1 DEF Midnight, TypeOK
  <1>2. ASSUME NEW i \in Items, Ingest(i) PROVE TypeOK'
    <2>1. ver' \in [Items -> Version]  BY <1>2 DEF Ingest, TypeOK, Version
    <2> QED  BY <1>2, <2>1 DEF Ingest, TypeOK
  <1>3. ASSUME NEW p \in Passes, StartPass(p) PROVE TypeOK'
    <2>d. today - Keep[p] \in Int  BY DEF TypeOK
    <2>1. CutoffDay(p) \in Int  BY <2>d, DayTypes DEF CutoffDay
    <2>2. PICK i \in Items : range' = [pass |-> p, cut |-> CutoffDay(p), day |-> DayOf[i]]
      BY <1>3 DEF StartPass, Selected
    <2> QED  BY <1>3, <2>1, <2>2 DEF StartPass, TypeOK, Pc
  <1>4. CASE EndPass  BY <1>4 DEF EndPass, TypeOK, Pc
  <1>5. CASE ReadRange
    <2>1. End \in Int  BY DayTypes DEF End, TypeOK
    <2>2. range' \in [pass: Passes, cut: Int, day: Int]
      BY <1>5, <2>1 DEF ReadRange, TypeOK
    <2>a. copy' = copy \/ \E S : copy' = [i \in Items |-> IF i \in S THEN ver[i] ELSE 0]
      BY <1>5 DEF ReadRange
    <2>b. ver \in [Items -> Version] /\ 0 \in Version  BY DEF TypeOK, Version
    <2>3. copy' \in [Items -> Version]  BY <2>a, <2>b DEF TypeOK
    <2>4. pc' \in {"ranging", "copied"}  BY <1>5 DEF ReadRange, TypeOK, Pc
    <2> QED  BY <1>5, <2>2, <2>3, <2>4 DEF ReadRange, TypeOK, Pc
  <1>6. CASE DeleteRange  BY <1>6 DEF DeleteRange, TypeOK, Pc
  <1>7. CASE Rename  BY <1>7, RenameEffect DEF Rename, TypeOK, Pc
  <1>8. CASE Commit  BY <1>8 DEF Commit, TypeOK, Pc
  <1>9. ASSUME NEW applied \in BOOLEAN, CommitRaises(applied) PROVE TypeOK'
    BY <1>9, UnlinkEffect DEF CommitRaises, TypeOK, Pc, Nothing, Version
  <1>10. CASE Abort  BY <1>10 DEF Abort, TypeOK, Pc, Nothing, Version
  <1>11. ASSUME NEW applied \in BOOLEAN, CrashAtCommit(applied) PROVE TypeOK'
    BY <1>11 DEF CrashAtCommit, TypeOK, Pc, Nothing, Version
  <1>12. CASE WriteLedger
    <2>1. End \in Int  BY DayTypes DEF End, TypeOK
    <2>2. range' \in [pass: Passes, cut: Int, day: Int]
      BY <1>12, <2>1 DEF WriteLedger, TypeOK
    <2>3. copy' \in [Items -> Version]  BY <1>12 DEF WriteLedger, Nothing, Version
    <2>4. files' \in Seq(File)  BY <1>12, LedgerEffect
    <2>5. UNCHANGED <<here, ver, today>> /\ pc' = "ranging"  BY <1>12 DEF WriteLedger
    <2> QED  BY <2>2, <2>3, <2>4, <2>5 DEF TypeOK, Pc
  <1>13. CASE LedgerFails  BY <1>13 DEF LedgerFails, TypeOK, Pc, Nothing, Version
  <1>14. CASE UNCHANGED vars  BY <1>14 DEF vars, TypeOK
  <1> QED
    BY <1>1, <1>2, <1>3, <1>4, <1>5, <1>6, <1>7, <1>8, <1>9, <1>10, <1>11, <1>12, <1>13, <1>14
    DEF Next, PassStep, Failure

\* Every step keeps the copies true and the ledger honest.
LEMMA InvStep == Inv /\ [Next]_vars => Inv'
  <1> SUFFICES ASSUME Inv, [Next]_vars PROVE Inv'  OBVIOUS
  <1> USE DEF Inv
  <1>0. TypeOK'  BY TypeStep
  <1>t. /\ ver \in [Items -> Nat] /\ copy \in [Items -> Nat]
        /\ \A k \in DOMAIN files : files[k].copy \in [Items -> Nat]
        /\ DOMAIN files \subseteq Nat
    <2>1. \A k \in DOMAIN files : files[k] \in File  BY DEF TypeOK
    <2> QED  BY <2>1 DEF TypeOK, File, Version
  <1> USE DEF Archived
  <1>1. ASSUME UNCHANGED <<here, ver, files, copy>>,
               pc' \in {"idle", "ranging"} \/ pc' = pc
        PROVE  Inv'
    BY <1>0, <1>1 DEF CopiesTrue, ReadTrue, LedgerVouches
  <1>2. ASSUME NEW j \in Items, Ingest(j) PROVE Inv'
    <2>1. /\ here' = here \cup {j} /\ UNCHANGED <<files, pc, copy>>
          /\ ~(pc \in {"deleted", "renamed"} /\ copy[j] # 0)
          /\ ver'[j] = ver[j] + 1 /\ \A i \in Items : i # j => ver'[i] = ver[i]
      BY <1>2, <1>t DEF Ingest
    <2>2. CopiesTrue'  BY <1>t, <2>1 DEF CopiesTrue
    <2>3. ReadTrue'  BY <1>t, <2>1 DEF ReadTrue
    <2>4. LedgerVouches'  BY <1>t, <2>1 DEF CopiesTrue, LedgerVouches
    <2> QED  BY <1>0, <2>2, <2>3, <2>4
  <1>3. CASE ReadRange
    <2>1. CASE copy' = copy /\ pc' = pc
      BY <1>3, <1>1, <2>1 DEF ReadRange
    <2>2. CASE pc' = "copied" /\ \A i \in Items : copy'[i] \in {0, ver[i]}
      <3>1. UNCHANGED <<here, ver, files>>  BY <1>3 DEF ReadRange
      <3>2. ReadTrue'  BY <1>t, <2>2, <3>1 DEF ReadTrue, CopiesTrue
      <3> QED  BY <1>0, <3>1, <3>2 DEF CopiesTrue, LedgerVouches
    <2> QED  BY <1>3, <2>1, <2>2 DEF ReadRange
  <1>4. CASE DeleteRange
    BY <1>0, <1>4 DEF DeleteRange, CopiesTrue, ReadTrue, LedgerVouches
  <1>5. CASE Rename
    <2>1. UNCHANGED <<here, ver, copy>> /\ pc = "deleted" /\ pc' = "renamed"
      BY <1>5 DEF Rename
    <2> DEFINE n == Len(files) + 1
    <2>2. /\ DOMAIN files' = DOMAIN files \cup {n} /\ Len(files') = n /\ n \notin DOMAIN files
          /\ \A k \in DOMAIN files : files'[k] = files[k] /\ k < n
          /\ files'[n].copy = copy /\ ~files'[n].logged
      BY <1>5, RenameEffect
    <2>3. n \in Nat  BY DEF TypeOK
    <2> HIDE DEF n
    <2>4. CopiesTrue'  BY <1>t, <2>1, <2>2, <2>3 DEF CopiesTrue, ReadTrue
    <2>5. ReadTrue'  BY <2>1, <2>2 DEF ReadTrue
    <2>6. LedgerVouches'  BY <2>1, <2>2 DEF LedgerVouches
    <2> QED  BY <1>0, <2>4, <2>5, <2>6
  <1>6. CASE Commit
    BY <1>0, <1>6 DEF Commit, CopiesTrue, ReadTrue, LedgerVouches
  <1>7. ASSUME NEW applied \in BOOLEAN, CommitRaises(applied) PROVE Inv'
    <2>1. here' \subseteq here /\ UNCHANGED ver /\ pc' = "idle" /\ copy' = Nothing
      BY <1>7 DEF CommitRaises
    <2>2. DOMAIN files' \subseteq DOMAIN files /\ \A k \in DOMAIN files' : files'[k] = files[k]
      BY <1>7, UnlinkEffect
    <2>3. ReadTrue'  BY <1>t, <2>1 DEF ReadTrue, Nothing
    <2> QED  BY <1>0, <2>1, <2>2, <2>3 DEF CopiesTrue, LedgerVouches
  <1>8. ASSUME pc' = "idle", copy' = Nothing, here' \subseteq here, UNCHANGED <<ver, files>>
        PROVE  Inv'
    <2>1. ReadTrue'  BY <1>t, <1>8 DEF ReadTrue, Nothing
    <2> QED  BY <1>0, <1>8, <2>1 DEF CopiesTrue, LedgerVouches
  <1>9. CASE WriteLedger
    <2>1. UNCHANGED <<here, ver>> /\ pc = "committed" /\ pc' = "ranging" /\ copy' = Nothing
      BY <1>9 DEF WriteLedger
    <2>2. /\ DOMAIN files' = DOMAIN files
          /\ \A k \in DOMAIN files : /\ files'[k].copy = files[k].copy
                                     /\ k # Len(files) => files'[k].logged = files[k].logged
      BY <1>9, LedgerEffect
    <2>3. ReadTrue'  BY <1>t, <2>1 DEF ReadTrue, Nothing
    <2>4. CopiesTrue'  BY <2>1, <2>2 DEF CopiesTrue
    <2>5. LedgerVouches'  BY <2>1, <2>2 DEF LedgerVouches, ReadTrue
    <2> QED  BY <1>0, <2>3, <2>4, <2>5
  <1>10. CASE Midnight \/ EndPass \/ \E p \in Passes : StartPass(p)
    BY <1>1, <1>10 DEF Midnight, EndPass, StartPass
  <1>11. ASSUME NEW applied \in BOOLEAN, Abort \/ LedgerFails \/ CrashAtCommit(applied)
         PROVE  Inv'
    BY <1>8, <1>11 DEF Abort, LedgerFails, CrashAtCommit
  <1>12. CASE UNCHANGED vars  BY <1>1, <1>12 DEF vars
  <1> QED
    BY <1>2, <1>3, <1>4, <1>5, <1>6, <1>7, <1>9, <1>10, <1>11, <1>12, ArchiveAssumption
    DEF Next, PassStep, Failure

\* The invariant holds throughout.
LEMMA InvAlways == Spec => []Inv
  <1>1. Init => Inv
    <2> SUFFICES ASSUME Init PROVE Inv  OBVIOUS
    <2>1. files = <<>> /\ DOMAIN files = {} /\ files \in Seq(File)  BY DEF Init
    <2>2. TypeOK
      BY <2>1, ArchiveAssumption DEF Init, TypeOK, Nothing, Version, Pc
    <2> QED
      BY <2>1, <2>2 DEF Init, Inv, CopiesTrue, ReadTrue, LedgerVouches, Nothing, Archived
  <1> QED  BY <1>1, InvStep, PTL DEF Spec

\* Table, archive and pass keep their types.
THEOREM TypeCorrect == Spec => []TypeOK
  <1>1. Inv => TypeOK  BY DEF Inv
  <1> QED  BY <1>1, InvAlways, PTL

\* A ledger line never names a row that is still in the table, whatever fails.
THEOREM LedgerIsHonest == Spec => []LedgerVouches
  <1>1. Inv => LedgerVouches  BY DEF Inv
  <1> QED  BY <1>1, InvAlways, PTL

-----------------------------------------------------------------------------
\* A step loses no row, when a commit that raises was not applied.
LEMMA MissStep ==
    ASSUME CommitHonest
    PROVE  Inv /\ NeverMissOne /\ [Next]_vars => NeverMissOne'
  <1> SUFFICES ASSUME Inv, NeverMissOne, [Next]_vars PROVE NeverMissOne'  OBVIOUS
  <1>t. /\ ver \in [Items -> Nat] /\ copy \in [Items -> Nat]
        /\ files \in Seq(File)
    BY DEF Inv, TypeOK, Version
  <1>1. ASSUME NEW i \in Items, Ingest(i) PROVE NeverMissOne'
    <2>1. here' = here \cup {i} /\ UNCHANGED files
          /\ \A j \in Items : j # i => ver'[j] = ver[j]
      BY <1>1, <1>t DEF Ingest
    <2> QED  BY <2>1 DEF NeverMissOne
  <1>2. ASSUME here' = {i \in here : ~Archived(i)} \/ here' = here,
               pc = "renamed", UNCHANGED <<ver, files>>
        PROVE  NeverMissOne'
    <2>1. files # <<>> /\ files[Len(files)].copy = copy
      BY <1>2 DEF Inv, TypeOK, ReadTrue
    <2>2. Len(files) \in DOMAIN files  BY <1>t, <2>1
    <2>3. \A i \in Items : Archived(i) => files[Len(files)].copy[i] = ver[i]
      BY <1>2, <2>1 DEF Inv, ReadTrue
    <2> QED  BY <1>2, <2>2, <2>3 DEF NeverMissOne
  <1>3. ASSUME CommitRaises(FALSE) PROVE NeverMissOne'
    <2>1. UNCHANGED <<here, ver>> /\ pc = "renamed"  BY <1>3 DEF CommitRaises
    <2>2. /\ DOMAIN files' = DOMAIN files \ {Len(files)}
          /\ \A k \in DOMAIN files' : files'[k] = files[k]
      BY <1>3, UnlinkEffect DEF Inv
    <2>3. \A i \in Items : i \notin here => files[Len(files)].copy[i] = 0
      BY <2>1 DEF Inv, ReadTrue, Archived
    <2>4. \A i \in Items : ver[i] > 0 /\ i \notin here =>
            \E k \in DOMAIN files' : files'[k].copy[i] = ver[i]
      BY <1>t, <2>2, <2>3 DEF NeverMissOne
    <2> QED  BY <2>1, <2>4 DEF NeverMissOne
  <1>4. CASE Rename
    <2>1. UNCHANGED <<here, ver>>  BY <1>4 DEF Rename
    <2> QED  BY <1>4, <2>1, RenameEffect DEF NeverMissOne, Inv
  <1>5. CASE WriteLedger
    <2>1. UNCHANGED <<here, ver>>  BY <1>5 DEF WriteLedger
    <2> QED  BY <1>5, <2>1, LedgerEffect DEF NeverMissOne, Inv
  <1>6. ASSUME UNCHANGED <<here, ver, files>> PROVE NeverMissOne'
    BY <1>6 DEF NeverMissOne
  <1>7. CASE Commit  BY <1>2, <1>7 DEF Commit
  <1>8. ASSUME NEW applied \in BOOLEAN, CrashAtCommit(applied) PROVE NeverMissOne'
    BY <1>2, <1>8 DEF CrashAtCommit
  <1>9. ASSUME NEW applied \in RaiseOutcomes, CommitRaises(applied) PROVE NeverMissOne'
    <2>1. applied = FALSE  BY ArchiveAssumption DEF CommitHonest
    <2> QED  BY <1>3, <1>9, <2>1
  <1> QED
    BY <1>1, <1>4, <1>5, <1>6, <1>7, <1>8, <1>9
    DEF Next, PassStep, Failure, Midnight, StartPass, EndPass, ReadRange, DeleteRange, Abort,
        LedgerFails, vars

\* The archive never misses a row, and of a row's copies the newest is its last
\* version: whatever is written, aborted or crashed meanwhile.
THEOREM ArchiveNeverMisses ==
    ASSUME CommitHonest
    PROVE  Spec => []NewestCopyIsLast
  <1>1. Init => NeverMissOne  BY DEF Init, NeverMissOne, Nothing
  <1>2. Inv /\ NeverMissOne => NewestCopyIsLast
    <2> SUFFICES ASSUME Inv, NeverMissOne, NEW i \in Items, ver[i] > 0, i \notin here
                 PROVE  \E k \in DOMAIN files :
                            /\ files[k].copy[i] = ver[i]
                            /\ \A l \in DOMAIN files : l > k => files[l].copy[i] \in {0, ver[i]}
      BY DEF NewestCopyIsLast
    <2>1. PICK k \in DOMAIN files : files[k].copy[i] = ver[i]  BY DEF NeverMissOne
    <2>2. \A l \in DOMAIN files : files[l].copy[i] \in Nat /\ files[l].copy[i] <= ver[i]
      <3>1. \A l \in DOMAIN files : files[l] \in File  BY DEF Inv, TypeOK
      <3> QED  BY <3>1 DEF Inv, CopiesTrue, File, Version
    <2>3. ver[i] \in Nat /\ DOMAIN files \subseteq Nat  BY DEF Inv, TypeOK, Version
    <2>4. \A l \in DOMAIN files : l > k => files[l].copy[i] \in {0, ver[i]}
      BY <2>1, <2>2, <2>3 DEF Inv, CopiesTrue
    <2> QED  BY <2>1, <2>4
  <1>3. Inv /\ NeverMissOne /\ [Next]_vars => NeverMissOne'  BY MissStep
  <1> QED  BY <1>1, <1>2, <1>3, InvAlways, PTL DEF Spec

-----------------------------------------------------------------------------
(* Files and months.                                                       *)

\* Multiples of a number are a whole number of it apart.
LEMMA Spacing ==
    ASSUME NEW m \in Nat \ {0}, NEW a \in Int, NEW b \in Int, a < b
    PROVE  m * a + m <= m * b
  OBVIOUS

\* The month of a day, counted from the first one.
LEMMA MonthNumber ==
    ASSUME NEW d \in Int
    PROVE  LET b == (d - 1) \div MonthLen
           IN  /\ b \in Int /\ MonthStart(d) = MonthLen * b + 1
               /\ MonthStart(d) <= d /\ d < MonthStart(d) + MonthLen
  <1> DEFINE e == d - 1
             b == e \div MonthLen
             r == e % MonthLen
  <1>1. MonthLen \in Nat \ {0} /\ e \in Int  BY ArchiveAssumption
  <1> HIDE DEF e
  <1>2. b \in Int /\ e - r = MonthLen * b /\ r \in 0..(MonthLen - 1)  BY <1>1
  <1>3. MonthStart(d) = d - r  BY DEF MonthStart, e
  <1>4. d = e + 1  BY DEF e
  <1> HIDE DEF b, r
  <1>5. MonthLen * b \in Int  BY <1>1, <1>2
  <1> QED  BY <1>1, <1>2, <1>3, <1>4, <1>5 DEF b, e

\* What a range selects lies in the month of its first day.
LEMMA RangeInOneMonth ==
    ASSUME NEW s \in Int, NEW cut \in Int, NEW d \in Int, s <= d, d < ChunkEnd(s, cut)
    PROVE  MonthStart(d) = MonthStart(s)
  <1> DEFINE a == (s - 1) \div MonthLen
             b == (d - 1) \div MonthLen
  <1>1. MonthLen \in Nat \ {0}  BY ArchiveAssumption
  <1>2. /\ a \in Int /\ MonthStart(s) = MonthLen * a + 1
        /\ MonthStart(s) <= s /\ s < MonthStart(s) + MonthLen
    BY MonthNumber
  <1>3. /\ b \in Int /\ MonthStart(d) = MonthLen * b + 1
        /\ MonthStart(d) <= d /\ d < MonthStart(d) + MonthLen
    BY MonthNumber
  <1>4. MonthStart(s) \in Int /\ MonthStart(d) \in Int  BY DayTypes
  <1>5. d < MonthStart(s) + MonthLen
    <2>1. s + (IF Span > 1 THEN Span ELSE 1) \in Int  BY ArchiveAssumption
    <2> QED  BY <1>1, <1>4, <2>1 DEF ChunkEnd, Lower
  <1> HIDE DEF a, b
  <1>6. ~(a < b)
    <2>1. SUFFICES ASSUME a < b PROVE FALSE  OBVIOUS
    <2>2. MonthLen * a + MonthLen <= MonthLen * b  BY <1>1, <1>2, <1>3, <2>1, Spacing
    <2>3. MonthStart(s) + MonthLen <= MonthStart(d)  BY <1>1, <1>2, <1>3, <1>4, <2>2
    <2> QED  BY <1>1, <1>3, <1>4, <1>5, <2>3
  <1>7. ~(b < a)
    <2>1. SUFFICES ASSUME b < a PROVE FALSE  OBVIOUS
    <2>2. MonthLen * b + MonthLen <= MonthLen * a  BY <1>1, <1>2, <1>3, <2>1, Spacing
    <2>3. MonthStart(d) + MonthLen <= MonthStart(s)  BY <1>1, <1>2, <1>3, <1>4, <2>2
    <2> QED  BY <1>1, <1>2, <1>3, <1>4, <2>3
  <1>8. a = b  BY <1>2, <1>3, <1>6, <1>7
  <1> QED  BY <1>2, <1>3, <1>8

\* The transaction has read one month.
CopyInOneMonth ==
    \A i, j \in Items : copy[i] > 0 /\ copy[j] > 0 => MonthStart(DayOf[i]) = MonthStart(DayOf[j])
\* The inductive invariant of the months.
MonthInv == TypeOK /\ CopyInOneMonth /\ FileInOneMonth

\* Files are copies of one transaction, and a transaction reads one range.
LEMMA MonthStep == MonthInv /\ [Next]_vars => MonthInv'
  <1> SUFFICES ASSUME MonthInv, [Next]_vars PROVE MonthInv'  OBVIOUS
  <1> USE DEF MonthInv
  <1>0. TypeOK'  BY TypeStep
  <1>1. ASSUME copy' = copy \/ copy' = Nothing PROVE CopyInOneMonth'
    BY <1>1 DEF CopyInOneMonth, Nothing
  <1>2. ASSUME files' = files PROVE FileInOneMonth'  BY <1>2 DEF FileInOneMonth
  <1>3. CASE ReadRange
    <2>1. files' = files  BY <1>3 DEF ReadRange
    <2>2. CASE copy' = copy  BY <1>0, <1>1, <1>2, <2>1, <2>2
    <2>3. CASE copy' # copy
      <3> DEFINE rows == Selected(range.pass, range.day, End)
      <3>1. copy' = [i \in Items |-> IF i \in rows THEN ver[i] ELSE 0]
        BY <1>3, <2>3 DEF ReadRange
      <3>2. \A i \in rows : range.day <= DayOf[i] /\ DayOf[i] < ChunkEnd(range.day, range.cut)
        BY DEF Selected, End
      <3>3. range.day \in Int /\ range.cut \in Int /\ \A i \in Items : DayOf[i] \in Int
        BY ArchiveAssumption DEF TypeOK
      <3> HIDE DEF rows
      <3>4. \A i \in Items : copy'[i] > 0 => i \in rows  BY <3>1
      <3>5. \A i \in Items : copy'[i] > 0 => MonthStart(DayOf[i]) = MonthStart(range.day)
        BY <3>2, <3>3, <3>4, RangeInOneMonth
      <3>6. CopyInOneMonth'  BY <3>5 DEF CopyInOneMonth
      <3> QED  BY <1>0, <1>2, <2>1, <3>6
    <2> QED  BY <2>2, <2>3
  <1>4. CASE Rename
    <2>1. copy' = copy  BY <1>4 DEF Rename
    <2>2. \A k \in DOMAIN files' :
             \/ k \in DOMAIN files /\ files'[k] = files[k]
             \/ files'[k].copy = copy
      BY <1>4, RenameEffect
    <2>3. FileInOneMonth'  BY <2>2 DEF FileInOneMonth, CopyInOneMonth
    <2> QED  BY <1>0, <1>1, <2>1, <2>3
  <1>5. ASSUME NEW applied \in BOOLEAN, CommitRaises(applied) PROVE MonthInv'
    <2>1. copy' = Nothing  BY <1>5 DEF CommitRaises
    <2>2. \A k \in DOMAIN files' : k \in DOMAIN files /\ files'[k] = files[k]
      BY <1>5, UnlinkEffect
    <2>3. FileInOneMonth'  BY <2>2 DEF FileInOneMonth
    <2> QED  BY <1>0, <1>1, <2>1, <2>3
  <1>6. CASE WriteLedger
    <2>1. copy' = Nothing  BY <1>6 DEF WriteLedger
    <2>2. \A k \in DOMAIN files' : k \in DOMAIN files /\ files'[k].copy = files[k].copy
      BY <1>6, LedgerEffect
    <2>3. FileInOneMonth'  BY <2>2 DEF FileInOneMonth
    <2> QED  BY <1>0, <1>1, <2>1, <2>3
  <1>7. ASSUME files' = files, copy' = copy \/ copy' = Nothing PROVE MonthInv'
    BY <1>0, <1>1, <1>2, <1>7
  <1>8. CASE \/ Midnight \/ DeleteRange \/ Commit \/ EndPass \/ Abort \/ LedgerFails
             \/ UNCHANGED vars
    BY <1>7, <1>8 DEF Midnight, DeleteRange, Commit, EndPass, Abort, LedgerFails, vars
  <1>9. ASSUME NEW i \in Items, Ingest(i) PROVE MonthInv'  BY <1>7, <1>9 DEF Ingest
  <1>10. ASSUME NEW p \in Passes, StartPass(p) PROVE MonthInv'  BY <1>7, <1>10 DEF StartPass
  <1>11. ASSUME NEW applied \in BOOLEAN, CrashAtCommit(applied) PROVE MonthInv'
    BY <1>7, <1>11 DEF CrashAtCommit
  <1>12. RaiseOutcomes \subseteq BOOLEAN  BY ArchiveAssumption
  <1> QED
    BY <1>3, <1>4, <1>5, <1>6, <1>8, <1>9, <1>10, <1>11, <1>12 DEF Next, PassStep, Failure

\* No file of the archive spans two months, wherever passes stop, fail or start again.
THEOREM FilesAreMonthly == Spec => []FileInOneMonth
  <1>1. Init => MonthInv
    <2>1. Init => TypeOK
      BY ArchiveAssumption DEF Init, TypeOK, Nothing, Version, Pc, File
    <2> QED  BY <2>1 DEF Init, MonthInv, CopyInOneMonth, FileInOneMonth, Nothing
  <1>2. MonthInv => FileInOneMonth  BY DEF MonthInv
  <1> QED  BY <1>1, <1>2, MonthStep, PTL DEF Spec

=============================================================================
