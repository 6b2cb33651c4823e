--------------------------- MODULE CoverageHistory ---------------------------
(***************************************************************************)
(* The memory of the coverage matrix: ops_jobs.coverage_sample, one row    *)
(* per change of the verdicts (coverage_history.py), written at the end of *)
(* every compute of the whole estate (coverage_dimensions._compute).       *)
(*                                                                         *)
(* A compute runs in a thread of the API process: the background refresh,  *)
(* of which slow_cache starts one at a time, or a caller's own under       *)
(* ?refresh=true, which nothing holds back.                                *)
(***************************************************************************)
EXTENDS CoverageAxes

CONSTANTS
    Datasets,
    Contract,       \* [Datasets -> its row of contracts.py]
    Estates,        \* the tables a dataset may have
    Scope, Sessions, Session, Today,
    Computers,      \* threads that compute
    MaxRows         \* bound: rows ever inserted

VARIABLES
    table,      \* [Datasets -> Estates]
    rows,       \* coverage_sample: [id, map, old], old once last_seen_at is past KEEP_DAYS
    ids,        \* the serial of coverage_sample_id
    pc,         \* [Computers -> "idle", "computed", "merging"]
    reading,    \* [Computers -> [map, unread]], what it has measured
    head,       \* [Computers -> the newest row when its transaction read it, or {}]
    said        \* [Datasets -> the last verdicts that were measured and recorded, or {}]

vars == <<table, rows, ids, pc, reading, head, said>>

Verdict == {"ok", "partial", "thin", "boundary", "unknown"}
Map     == [Datasets -> [Axes -> Verdict]]
Reads   == {"whole", "middle", "failed"}
Idle    == [map |-> <<>>, unread |-> {}]

\* What a compute makes of a table, by what became of its reads.
Judged(d, how) == Verdicts(Contract[d], table[d], Scope, Sessions, Session, Today, how)

Newest(R) == {r \in R : \A q \in R : q.id <= r.id}

-----------------------------------------------------------------------------
Init ==
    /\ table \in [Datasets -> Estates]
    /\ rows = {} /\ ids = 0
    /\ pc = [c \in Computers |-> "idle"]
    /\ reading = [c \in Computers |-> Idle]
    /\ head = [c \in Computers |-> {}]
    /\ said = [d \in Datasets |-> {}]

\* Rows land, or are lost.
TableChanges(d) ==
    /\ \E t \in Estates \ {table[d]} : table' = [table EXCEPT ![d] = t]
    /\ UNCHANGED <<rows, ids, pc, reading, head, said>>

\* _compute: every dataset is judged, each with reads that may fail on their own.
Compute(c) ==
    /\ pc[c] = "idle" /\ ids + Cardinality({b \in Computers : pc[b] # "idle"}) < MaxRows
    /\ \E how \in [Datasets -> Reads] :
          reading' = [reading EXCEPT ![c] =
              [map |-> [d \in Datasets |-> Judged(d, how[d])],
               unread |-> {d \in Datasets : how[d] = "failed"}]]
    /\ pc' = [pc EXCEPT ![c] = "computed"]
    /\ UNCHANGED <<table, rows, ids, head, said>>

\* record, its first statement: the newest row.
ReadHead(c) ==
    /\ pc[c] = "computed"
    /\ head' = [head EXCEPT ![c] = Newest(rows)]
    /\ pc' = [pc EXCEPT ![c] = "merging"]
    /\ UNCHANGED <<table, rows, ids, reading, said>>

\* Mutant of CarryForward: a dataset that could not be read is recorded as unknown.
RecordUnknown(map, unread, h) == map

\* _carry_forward: what could not be read keeps the verdicts of the newest row.
CarryForward(map, unread, h) ==
    [d \in Datasets |-> IF d \in unread /\ h # {} THEN (CHOOSE r \in h : TRUE).map[d] ELSE map[d]]

\* Mutant of Ends: the head that was read stays.
EndsKeepingHead(c) ==
    /\ pc' = [pc EXCEPT ![c] = "idle"]
    /\ reading' = [reading EXCEPT ![c] = Idle]
    /\ UNCHANGED head

Ends(c) ==
    /\ pc' = [pc EXCEPT ![c] = "idle"]
    /\ reading' = [reading EXCEPT ![c] = Idle]
    /\ head' = [head EXCEPT ![c] = {}]

\* The same digest as the newest row: it has been seen again.  Another one: a new row.
Save(c) ==
    /\ pc[c] = "merging"
    /\ LET got == reading[c]
           map == CarryForward(got.map, got.unread, head[c])
           same == {r \in head[c] : r.map = map}
       IN  /\ IF same # {}
              THEN /\ rows' = {IF \E h \in same : h.id = r.id THEN [r EXCEPT !.old = FALSE] ELSE r
                                 : r \in rows}
                   /\ UNCHANGED ids
              ELSE /\ rows' = rows \cup {[id |-> ids + 1, map |-> map, old |-> FALSE]}
                   /\ ids' = ids + 1
           /\ said' = [d \in Datasets |-> IF d \in got.unread THEN said[d] ELSE {got.map[d]}]
    /\ Ends(c)
    /\ UNCHANGED table

\* The write fails and is rolled back, or the process dies.
SaveFails(c) ==
    /\ pc[c] \in {"computed", "merging"}
    /\ Ends(c)
    /\ UNCHANGED <<table, rows, ids, said>>

\* No compute has reproduced these rows for KEEP_DAYS: the page was not read, or moved on.
Ages(r) ==
    /\ ~r.old
    /\ rows' = {IF q.id <= r.id THEN [q EXCEPT !.old = TRUE] ELSE q : q \in rows}
    /\ UNCHANGED <<table, ids, pc, reading, head, said>>

Outdated(R) == {r \in R : r.old} \ Newest(R)

\* trim_samples, from the trim slot.
Trim ==
    /\ Outdated(rows) # {}
    /\ rows' = rows \ Outdated(rows)
    /\ UNCHANGED <<table, ids, pc, reading, head, said>>

Next ==
    \/ \E d \in Datasets : TableChanges(d)
    \/ \E c \in Computers : Compute(c) \/ ReadHead(c) \/ Save(c) \/ SaveFails(c)
    \/ \E r \in rows : Ages(r)
    \/ Trim

Spec == Init /\ [][Next]_vars

-----------------------------------------------------------------------------
(***************************************************************************)
(* Properties                                                              *)
(***************************************************************************)
TypeOK ==
    /\ table \in [Datasets -> Estates]
    /\ ids \in 0..MaxRows
    /\ \A r \in rows : r.id \in 1..ids /\ r.map \in Map /\ r.old \in BOOLEAN
    /\ \A c \in Computers : /\ pc[c] \in {"idle", "computed", "merging"}
                            /\ pc[c] # "idle" => reading[c].map \in Map
                            /\ head[c] # {} => pc[c] = "merging"

\* The newest row tells, for every dataset that was ever measured and recorded, what was
\* measured last: neither a read that fails, nor a compute that is lost, nor the trim of a
\* quiet half year makes the matrix forget what it knew.
Remembered ==
    \A d \in Datasets : said[d] # {} => \E r \in Newest(rows) : r.map[d] \in said[d]

\* Four healthy verdicts of a dataset that comes by the session mean what a reader takes them
\* to mean: the newest delivery has 94.95 percent of the names that were asked for and sold,
\* which is what rounds to 95, it is no older than the deadline allows, no session between
\* the first and the last one held is blank, and none of those due holds less than half of
\* the ones before it.  No share of any dataset is more than the whole.
OkIsSolid ==
    \A d \in Datasets :
        LET c == Contract[d]
            v == Judged(d, "whole")
            asked == Scope \ c.voided
            held == DaysHeld(table[d])
            traded == held \cap Sessions
            last == HeldOn(table[d], Max({day \in held : day <= Session}))
            b == Breadth(table[d], c.window, Session, Scope, c.voided, c.judged)
        IN  /\ b.held <= b.of
            /\ c.window = "session" /\ c.cadence = "session" /\ (\A a \in Axes : v[a] = "ok") =>
                  /\ 2000 * Cardinality(asked \ last) <= 101 * Cardinality(asked)
                  /\ Today - Max(held) <= (c.hours + 23) \div 24 + 1
                  /\ Sessions \cap (Min(traded)..Max(traded)) \subseteq held
                  /\ \A day \in traded :
                        (day <= Session /\ \A e \in Sessions : e < day => HeldOn(table[d], e) = asked)
                        /\ Cardinality({e \in Sessions : e < day}) >= MinTrailing
                           => 2 * Cardinality(HeldOn(table[d], day)) >= Cardinality(asked)

=============================================================================
