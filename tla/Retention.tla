----------------------------- MODULE Retention ------------------------------
(***************************************************************************)
(* What the nightly trim slot takes from the market tables, and how: rows  *)
(* by their age, whole months by their partition, intraday snapshots by a  *)
(* shorter clock, and nothing from a table that is held.  An archived      *)
(* table gives its rows up through RetentionArchive only.  The slot also   *)
(* provides the months to come with partitions; a row without one lands in *)
(* the DEFAULT partition, and keeps its month from ever getting one.       *)
(*                                                                         *)
(* Days are numbered and months are MonthLen of them.  Three tables stand  *)
(* for option_snapshot, option_daily and short_volume.                     *)
(***************************************************************************)
EXTENDS Integers, FiniteSetsExt

CONSTANTS
    Rows,           \* rows that come and go
    Weekdays, Open, \* days of the calendar; those of them with a session
    Start, MaxDay,  \* bounds: the first and the last day
    MonthLen,
    Intraday,       \* option_snapshot_intraday_keep_days
    Keep,           \* option_snapshot_keep_sessions
    RetentionDays,  \* contracts.retention_days of option_daily and short_volume
    Back, Ahead     \* months that ensure_month_partitions reaches

VARIABLES
    mode,   \* what the configuration says of the tables
    owned,  \* whether the partitions belong to the plugin's role
    today,
    row,
    parts,  \* per partitioned table, the months that have a partition
    step,   \* what the slot does next
    keep    \* snapshot_keep, in days, as the running slot computed it

vars == <<mode, owned, today, row, parts, step, keep>>

Partitioned == {"snapshot", "daily"}
\* "eod" is the anchor at 16:00, "pinned" one of a contract that Research pinned.
Row == [table: {"snapshot"}, kind: {"eod", "intraday", "pinned"}, day: 0..MaxDay]
         \cup [table: {"daily", "heap"}, kind: {"eod"}, day: 0..MaxDay]
Absent == [table |-> "none", kind |-> "eod", day |-> 0]

Month(d)      == d \div MonthLen
MonthStart(d) == MonthLen * Month(d)
Present(r)    == row[r] # Absent
Latest(D, d)  == Max({e \in D : e <= d})

\* The first of the last n days of a calendar.
FirstOf(D, n, d) == CHOOSE e \in D : Cardinality({f \in D : e <= f /\ f <= d}) = n

\* resolve_target_date: the latest weekday.
Target == Latest(Weekdays, today)
SnapshotKeep(calendar) == Max({1, Target - FirstOf(calendar, Keep, Target)})

-----------------------------------------------------------------------------
\* The two cutoffs: an age in days, and an age rounded out to a month.
Older(d, days)  == d < today - days
Beyond(d, days) == d < MonthStart(today - days)

\* Mutant of MonthsPast: the cutoff is not truncated to a month.
MonthsPastByDay(t, days) == {m \in parts[t] : Older(m * MonthLen, days)}

\* drop_month_partitions_older_than: a month that is wholly past the window.
MonthsPast(t, days) == {m \in parts[t] : Beyond(m * MonthLen, days)}

Intradays == {r \in Rows : Present(r) /\ row[r].kind = "intraday" /\ Older(row[r].day, Intraday)}
\* Pinned contracts are spared by the deletes.
Snapshots == {r \in Rows : /\ row[r].table = "snapshot" /\ row[r].kind # "pinned"
                           /\ Older(row[r].day, keep)}
Dated(t)  == {r \in Rows : row[r].table = t /\ Beyond(row[r].day, RetentionDays)}
InMonths(t, M) == {r \in Rows : row[r].table = t /\ Month(row[r].day) \in M}

\* The months a table is to have, and those that rows in the default partition bar.
Months == (Month(today) - Back)..(Month(today) + Ahead)
Barred(t) == {m \in Months \ parts[t] : InMonths(t, {m}) # {}}

Leave(R) == row' = [r \in Rows |-> IF r \in R THEN Absent ELSE row[r]]

-----------------------------------------------------------------------------
Init ==
    /\ mode \in {"direct", "held", "archived"} /\ owned \in BOOLEAN
    /\ mode # "direct" => owned
    /\ today = Start /\ keep = 1 /\ step = "idle"
    /\ row = [r \in Rows |-> Absent]
    /\ parts = [t \in Partitioned |-> Months]

\* What the handlers write: today's session, or for option_daily any day of the depth.
Entry(t, k, d) == [table |-> t, kind |-> k, day |-> d]
Incoming ==
    {Entry("snapshot", k, Latest(Open, today)) : k \in {"eod", "intraday", "pinned"}}
      \cup {Entry("daily", "eod", d) : d \in {e \in 0..today : ~Beyond(e, RetentionDays)}}
      \cup {Entry("heap", "eod", today)}

Ingest(r, x) ==
    /\ ~Present(r)
    /\ row' = [row EXCEPT ![r] = x]
    /\ UNCHANGED <<mode, owned, today, parts, step, keep>>

\* The slot is done long before the next night.
DayPasses ==
    /\ step = "idle" /\ today < MaxDay
    /\ today' = today + 1
    /\ UNCHANGED <<mode, owned, row, parts, step, keep>>

To(s) == step' = s
At(s) == step = s /\ UNCHANGED <<mode, owned, today>>

\* The slot starts.  A calendar that cannot be read has no holidays.
Begin(calendar) ==
    /\ At("idle")
    /\ keep' = SnapshotKeep(calendar)
    /\ To(IF mode = "direct" THEN "intraday" ELSE "window")
    /\ UNCHANGED <<row, parts>>

\* Batches, committed one by one until the budget is spent: some of the rows, or all.
Purge(at, R, then) ==
    /\ At(at)
    /\ Leave(R)
    /\ To(then)
    /\ UNCHANGED <<parts, keep>>

\* DROP TABLE of the months, refused to a role that does not own them.
Drop(t, days, then) ==
    /\ owned
    /\ LET M == MonthsPast(t, days) IN
       /\ Leave(InMonths(t, M))
       /\ parts' = [parts EXCEPT ![t] = @ \ M]
    /\ To(then)
    /\ UNCHANGED keep

\* ensure_month_partitions, for all of the tables or for none.
Provide(T, then) ==
    /\ \A t \in T : Barred(t) = {}
    /\ parts' = [t \in Partitioned |-> IF t \in T THEN parts[t] \cup Months ELSE parts[t]]
    /\ To(then)
    /\ UNCHANGED <<row, keep>>

DropSnapshots == At("drop") /\ Drop("snapshot", keep, "window")
OpenWindow    == At("window") /\ Provide({"snapshot"}, "provision")
\* A failure of any of the three skips the others.
SnapshotsFail ==
    /\ step \in {"intraday", "drop", "window"} /\ At(step)
    /\ To("provision")
    /\ UNCHANGED <<row, parts, keep>>

AfterProvision == IF mode = "direct" THEN "rows" ELSE IF mode = "held" THEN "idle" ELSE "pack"
Provision == At("provision") /\ Provide(Partitioned, AfterProvision)

DropMonths == At("months") /\ Drop("daily", RetentionDays, "dated")

\* Any other step fails: logged, and the next one is taken.
StepFails ==
    /\ At(step)
    /\ \/ step = "provision" /\ To(AfterProvision)
       \/ step = "rows"      /\ To("months")
       \/ step = "pack"      /\ To("dated")
       \/ step = "months"    /\ To("dated")
       \/ step = "dated"     /\ To("heap")
       \/ step = "heap"      /\ To("idle")
    /\ UNCHANGED <<row, parts, keep>>

\* Mutant of PurgeDated: dropping the months is taken to be enough.
NothingDated(R) == At("dated") /\ To("heap") /\ UNCHANGED <<row, parts, keep>>

PurgeIntraday(R) == Purge("intraday", R, "drop")
PurgeRows(R)  == Purge("rows", R, "months")

\* archive_past_window, by both clocks; RetentionArchive says how.
Pack(R)       == Purge("pack", R, "dated")
PurgeDated(R) == Purge("dated", R, "heap")
PurgeHeap(R)  == Purge("heap", R, "idle")

Next ==
    \/ \E r \in Rows, x \in Incoming : Ingest(r, x)
    \/ DayPasses
    \/ \E calendar \in {Weekdays, Open} : Begin(calendar)
    \/ \E R \in SUBSET Intradays : PurgeIntraday(R)
    \/ \E R \in SUBSET Snapshots : PurgeRows(R)
    \/ \E R \in SUBSET (Intradays \cup Snapshots) : Pack(R)
    \/ \E R \in SUBSET Dated("daily") : PurgeDated(R)
    \/ \E R \in SUBSET Dated("heap") : PurgeHeap(R)
    \/ DropSnapshots \/ OpenWindow \/ SnapshotsFail \/ Provision \/ DropMonths \/ StepFails

\* The slot fires every night, and a step that can go through does not fail for ever.
Fairness ==
    /\ WF_vars(Begin(Open))
    /\ WF_vars(SnapshotsFail \/ StepFails)
    /\ SF_vars(PurgeIntraday(Intradays))
    /\ SF_vars(PurgeRows(Snapshots))
    /\ SF_vars(Pack(Intradays \cup Snapshots))
    /\ SF_vars(PurgeDated(Dated("daily")))
    /\ SF_vars(PurgeHeap(Dated("heap")))

Spec == Init /\ [][Next]_vars /\ Fairness

-----------------------------------------------------------------------------
TypeOK ==
    /\ mode \in {"direct", "held", "archived"} /\ owned \in BOOLEAN
    /\ today \in Start..MaxDay /\ keep \in 1..MaxDay
    /\ row \in [Rows -> Row \cup {Absent}]
    /\ parts \in [Partitioned -> SUBSET ((-Back)..(MaxDay + Ahead))]
    /\ step \in {"idle", "intraday", "drop", "window", "provision", "rows", "pack", "months",
                 "dated", "heap"}

\* The windows a table promises.  Of the snapshots' Keep sessions the two oldest may go,
\* see KeepsItsSessions, and a calendar that cannot be read counts weekdays.
Promised(x) ==
    \/ mode = "held"
    \/ x.kind = "intraday" /\ ~Older(x.day, Intraday)
    \/ /\ x.table = "snapshot" /\ x.kind # "intraday"
       /\ x.day >= FirstOf(Weekdays, Keep - 2, today)
    \/ x.table # "snapshot" /\ ~Older(x.day, RetentionDays)

Leaves(r) == Present(r) /\ row'[r] = Absent

\* No row leaves before its window is over: not with the month it shares with older rows,
\* not with the intraday rows of its day, and not at all while its table is held.
WindowKept == [][\A r \in Rows : Leaves(r) => ~Promised(row[r])]_vars

\* What retention has to remove in the end, whoever owns the partitions and wherever the
\* row landed.
Past(x) ==
    /\ x # Absent /\ mode # "held"
    /\ x.kind = "intraday" => Older(x.day, Intraday)
    /\ x.table = "snapshot" => /\ x.kind # "pinned"
                               /\ x.kind = "eod" => x.day < FirstOf(Open, Keep, Target)
    /\ x.table # "snapshot" => Beyond(x.day, RetentionDays)

\* A row past its window leaves, also from the default partition, which no drop reaches.
PastWindowLeaves == \A r \in Rows : Past(row[r]) ~> row[r] = Absent

\* "keep 90 sessions" is the promise Research depends on.
KeepsItsSessions ==
    [][\A r \in Rows : Leaves(r) /\ row[r].table = "snapshot" /\ row[r].kind = "eod"
         => row[r].day < FirstOf(Open, Keep, today)]_vars

=============================================================================
