-------------------------- MODULE RetentionArchive --------------------------
(***************************************************************************)
(* Archive before delete.  A pass walks the days of one table that are     *)
(* past the retention window, oldest first, in ranges of whole days.  Each *)
(* range is one REPEATABLE READ transaction: read its rows into a partial  *)
(* Parquet file, DELETE the same rows, rename the file into place, commit, *)
(* and then write the manifest and the ledger line.  The ingest handlers   *)
(* keep upserting rows of any day meanwhile, and the process, the disk or  *)
(* the connection may fail between any two of these steps.                 *)
(*                                                                         *)
(* A primary key of the table is an item; a write gives it a new version.  *)
(* Partial files are not modelled: nobody reads them.                      *)
(***************************************************************************)
EXTENDS Integers, Sequences

CONSTANTS
    Items,          \* primary keys of the table
    DayOf,          \* the day in each key
    Passes,         \* the passes of one night: "intraday" and "all", or "all" alone
    Eligible,       \* the items that each pass's extra predicate selects
    Keep,           \* keep_days of each pass
    MonthFloor,     \* whether the cutoff is floored to a month
    MonthLen,       \* days in a month
    Span,           \* span_days
    LastDay,        \* bound: the clock stops here
    MaxVer,         \* bound: writes to one item
    MaxFiles,       \* bound: a crash may leave a copy only while there are fewer files
    RaiseOutcomes   \* when commit() raises: whether the server may have applied it

ASSUME ArchiveAssumption ==
    /\ DayOf \in [Items -> Nat \ {0}]
    /\ Eligible \in [Passes -> SUBSET Items] /\ Keep \in [Passes -> Nat]
    /\ MonthFloor \in BOOLEAN /\ MonthLen \in Nat \ {0} /\ Span \in Nat
    /\ LastDay \in Nat \ {0} /\ MaxVer \in Nat /\ MaxFiles \in Nat
    /\ RaiseOutcomes \subseteq BOOLEAN

VARIABLES
    here,       \* the items that are in the table
    ver,        \* the last version of each item, 0 if there was none
    today,      \* the date
    files,      \* the archive's files, in the order of their stamps
    pc,         \* where the pass is
    range,      \* which pass, its cutoff, and the first day of the current range
    copy        \* what the transaction has read: a version of each item, 0 for none

vars == <<here, ver, today, files, pc, range, copy>>

Version == 0..MaxVer
File    == [copy: [Items -> Version], logged: BOOLEAN]

\* "ranging": at the head of archive_past_window's loop.  "copied": the partial file
\* is written and verified.  "deleted": the DELETE has run.  "renamed": the file is in
\* place, the transaction open.  "committed": neither manifest nor ledger is written.
Pc == {"idle", "ranging", "copied", "deleted", "renamed", "committed"}

Nothing == [i \in Items |-> 0]

-----------------------------------------------------------------------------
MonthStart(d) == d - ((d - 1) % MonthLen)
Lower(a, b)   == IF a < b THEN a ELSE b

\* _cutoff_day: the first day that is kept.
CutoffDay(p) == LET d == today - Keep[p] IN IF MonthFloor THEN MonthStart(d) ELSE d

\* Mutant of ChunkEnd: a range may cross the end of a month.
ChunkEndAcross(start, cut) == Lower(cut, start + (IF Span > 1 THEN Span ELSE 1))

\* _chunk_end: never beyond the cutoff, the month, or span_days.
ChunkEnd(start, cut) ==
    Lower(cut, Lower(MonthStart(start) + MonthLen,
                     start + (IF Span > 1 THEN Span ELSE 1)))

\* The rows the pass's predicate selects in [from, to).
Selected(p, from, to) == {i \in here \cap Eligible[p] : from <= DayOf[i] /\ DayOf[i] < to}

End == ChunkEnd(range.day, range.cut)

Archived(i) == copy[i] # 0

-----------------------------------------------------------------------------
Init ==
    /\ here = {} /\ ver = Nothing /\ today = 1
    /\ files = <<>>
    /\ pc = "idle" /\ copy = Nothing
    /\ range \in [pass: Passes, cut: {1}, day: {1}]

Midnight ==
    /\ today < LastDay
    /\ today' = today + 1
    /\ UNCHANGED <<here, ver, files, pc, range, copy>>

\* An ingest handler upserts item i, of any day that has come.  While the transaction
\* holds the row's delete lock, the upsert waits.
Ingest(i) ==
    /\ ver[i] < MaxVer /\ DayOf[i] <= today
    /\ ~(pc \in {"deleted", "renamed"} /\ Archived(i))
    /\ here' = here \cup {i}
    /\ ver' = [ver EXCEPT ![i] = @ + 1]
    /\ UNCHANGED <<today, files, pc, range, copy>>

\* Mutant of StartPass: the pass resumes where the last one stopped.
ResumePass(p) ==
    /\ pc = "idle" /\ range.day < CutoffDay(p)
    /\ range' = [pass |-> p, cut |-> CutoffDay(p), day |-> range.day]
    /\ pc' = "ranging"
    /\ UNCHANGED <<here, ver, today, files, copy>>

\* archive_past_window: an available archive, the cutoff, and the oldest expired day.
StartPass(p) ==
    LET cut == CutoffDay(p) IN
    /\ pc = "idle"
    /\ \E i \in Selected(p, 1, cut) :
         /\ \A j \in Selected(p, 1, cut) : DayOf[i] <= DayOf[j]
         /\ range' = [pass |-> p, cut |-> cut, day |-> DayOf[i]]
    /\ pc' = "ranging"
    /\ UNCHANGED <<here, ver, today, files, copy>>

\* Behind the cutoff, or out of budget.
EndPass ==
    /\ pc = "ranging"
    /\ pc' = "idle"
    /\ UNCHANGED <<here, ver, today, files, range, copy>>

\* archive_range, up to the verified partial file.  An empty range is skipped.
ReadRange ==
    LET rows == Selected(range.pass, range.day, End) IN
    /\ pc = "ranging" /\ range.day < range.cut
    /\ IF rows = {}
       THEN range' = [range EXCEPT !.day = End] /\ UNCHANGED <<pc, copy>>
       ELSE /\ copy' = [i \in Items |-> IF i \in rows THEN ver[i] ELSE 0]
            /\ pc' = "copied"
            /\ UNCHANGED range
    /\ UNCHANGED <<here, ver, today, files>>

\* Mutant of DeleteRange: READ COMMITTED, the DELETE takes whatever is there now.
DeleteAnyVersion ==
    /\ pc = "copied"
    /\ pc' = "deleted"
    /\ UNCHANGED <<here, ver, today, files, range, copy>>

\* DELETE with the same predicate under the same snapshot: a row written since then
\* is a serialization failure, a row inserted since then is not seen.
DeleteRange ==
    /\ pc = "copied"
    /\ \A i \in Items : Archived(i) => i \in here /\ ver[i] = copy[i]
    /\ pc' = "deleted"
    /\ UNCHANGED <<here, ver, today, files, range, copy>>

\* Mutants of Rename: the file is not put in place; the ledger is written first.
RenameForgotten ==
    /\ pc = "deleted"
    /\ pc' = "renamed"
    /\ UNCHANGED <<here, ver, today, files, range, copy>>

RenameLogged ==
    /\ pc = "deleted"
    /\ files' = Append(files, [copy |-> copy, logged |-> TRUE])
    /\ pc' = "renamed"
    /\ UNCHANGED <<here, ver, today, range, copy>>

\* os.replace(partial, final): every export is a new file.
Rename ==
    /\ pc = "deleted"
    /\ files' = Append(files, [copy |-> copy, logged |-> FALSE])
    /\ pc' = "renamed"
    /\ UNCHANGED <<here, ver, today, range, copy>>

Commit ==
    /\ pc = "renamed"
    /\ here' = {i \in here : ~Archived(i)}
    /\ pc' = "committed"
    /\ UNCHANGED <<ver, today, files, range, copy>>

\* commit() raised: the file is unlinked and the pass stops.  The server may have
\* applied the transaction before the connection was lost.
CommitRaises(applied) ==
    /\ pc = "renamed"
    /\ here' = IF applied THEN {i \in here : ~Archived(i)} ELSE here
    /\ files' = SubSeq(files, 1, Len(files) - 1)
    /\ pc' = "idle" /\ copy' = Nothing
    /\ UNCHANGED <<ver, today, range>>

\* A mismatch, an I/O error, a serialization failure, a lost connection, or a crash
\* before the rename: rollback, and no file is left that a reader would open.
Abort ==
    /\ pc \in {"copied", "deleted"}
    /\ pc' = "idle" /\ copy' = Nothing
    /\ UNCHANGED <<here, ver, today, files, range>>

\* A crash between the rename and the commit, or while the commit is under way.
CrashAtCommit(applied) ==
    /\ pc = "renamed"
    /\ applied \/ Len(files) < MaxFiles
    /\ here' = IF applied THEN {i \in here : ~Archived(i)} ELSE here
    /\ pc' = "idle" /\ copy' = Nothing
    /\ UNCHANGED <<ver, today, files, range>>

\* The manifest and the ledger line; then the next range.
WriteLedger ==
    /\ pc = "committed"
    /\ files' = [files EXCEPT ![Len(files)].logged = TRUE]
    /\ range' = [range EXCEPT !.day = End]
    /\ pc' = "ranging" /\ copy' = Nothing
    /\ UNCHANGED <<here, ver, today>>

\* They cannot be written, or the process dies first: the rows have left already.
LedgerFails ==
    /\ pc = "committed"
    /\ pc' = "idle" /\ copy' = Nothing
    /\ UNCHANGED <<here, ver, today, files, range>>

-----------------------------------------------------------------------------
PassStep == \/ \E p \in Passes : StartPass(p)
            \/ ReadRange \/ DeleteRange \/ Rename \/ Commit \/ WriteLedger

Failure == \/ EndPass \/ Abort \/ LedgerFails
           \/ \E applied \in RaiseOutcomes : CommitRaises(applied)
           \/ \E applied \in BOOLEAN : CrashAtCommit(applied)

Next == Midnight \/ (\E i \in Items : Ingest(i)) \/ PassStep \/ Failure

Spec == Init /\ [][Next]_vars

\* The trim runs again and again, and neither its budget nor a failure stops the same
\* step for ever: strong fairness, because a failure disables what it interrupts.
FairSpec ==
    /\ Spec
    /\ \A p \in Passes : SF_vars(StartPass(p))
    /\ SF_vars(ReadRange) /\ SF_vars(DeleteRange) /\ SF_vars(Rename) /\ SF_vars(Commit)
    /\ WF_vars(WriteLedger \/ LedgerFails) /\ WF_vars(Abort) /\ WF_vars(EndPass)

-----------------------------------------------------------------------------
(***************************************************************************)
(* Properties                                                              *)
(***************************************************************************)
\* Tables, files and the pass hold values of their kind, and the transaction that is
\* about to end has a file in place.
TypeOK ==
    /\ here \subseteq Items /\ ver \in [Items -> Version] /\ today \in 1..LastDay
    /\ files \in Seq(File) /\ copy \in [Items -> Version]
    /\ pc \in Pc
    /\ range \in [pass: Passes, cut: Int, day: Int]
    /\ pc \in {"renamed", "committed"} => files # <<>>

\* The module's promise: the archive can hold a row twice but never miss one.  Each
\* item that has left the table has its last version in some file.
NeverMissOne ==
    \A i \in Items : ver[i] > 0 /\ i \notin here =>
        \E k \in DOMAIN files : files[k].copy[i] = ver[i]

\* Readers deduplicate on the primary key: of all the copies of an item that has left,
\* the one in the newest file is its last version, whatever crashes left behind.
NewestCopyIsLast ==
    \A i \in Items : ver[i] > 0 /\ i \notin here =>
        \E k \in DOMAIN files :
            /\ files[k].copy[i] = ver[i]
            /\ \A l \in DOMAIN files : l > k => files[l].copy[i] \in {0, ver[i]}

\* A ledger line vouches for rows that have left: each row of a logged file is gone, or
\* has been written again since.
LedgerVouches ==
    \A k \in DOMAIN files, i \in Items :
        files[k].logged /\ files[k].copy[i] > 0 /\ i \in here => ver[i] > files[k].copy[i]

\* Ranges never span two months, so no file does.
FileInOneMonth ==
    \A k \in DOMAIN files, i, j \in Items :
        files[k].copy[i] > 0 /\ files[k].copy[j] > 0
            => MonthStart(DayOf[i]) = MonthStart(DayOf[j])

\* An item past the window of a pass at last leaves the table, also one that arrives
\* late for a day that was archived long ago.
ExpiredLeaves ==
    \A i \in Items :
        (i \in here /\ \E p \in Passes : i \in Eligible[p] /\ DayOf[i] < CutoffDay(p))
            ~> i \notin here

=============================================================================
