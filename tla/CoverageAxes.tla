---------------------------- MODULE CoverageAxes ----------------------------
(***************************************************************************)
(* What the coverage matrix says of one dataset: the measures of           *)
(* coverage_dimensions.py and continuity.py over the rows a table holds,   *)
(* and the verdicts verdicts.py gives them.                                *)
(*                                                                         *)
(* A table is a set of <<day, symbol>>; days are numbered, and the days    *)
(* of `sessions` are those on which the market is open.                    *)
(***************************************************************************)
EXTENDS Integers, FiniteSets, FiniteSetsExt

None == -1      \* an optional number that is absent

Graded(pct) == IF pct >= 950 THEN "ok" ELSE IF pct >= 500 THEN "partial" ELSE "thin"

-----------------------------------------------------------------------------
(* Breadth.                                                                *)

HeldOn(table, d) == {r[2] : r \in {q \in table : q[1] = d}}
DaysHeld(table) == {r[1] : r \in table}

\* _held_symbols: the newest delivery no later than the session, or all that was ever seen.
HeldSymbols(table, window, session) ==
    LET due == {d \in DaysHeld(table) : session = None \/ d <= session}
    IN  IF window = "ever" THEN {r[2] : r \in table}
        ELSE IF due = {} THEN {} ELSE HeldOn(table, Max(due))

\* A share in tenths of a percent, rounded to the nearest.
Share(n, of) == (2000 * n + of) \div (2 * of)

\* _one: what is held of what the tier asks for, less what the vendor does not sell.
Breadth(table, window, session, scope, voided, judged) ==
    LET asked == scope \ voided
        held == HeldSymbols(table, window, session)
    IN  [judged |-> judged, held |-> Cardinality(held \cap asked), of |-> Cardinality(asked),
         outside |-> Cardinality(held \ asked)]

BreadthVerdict(error, b) ==
    IF error THEN "unknown"
    ELSE IF ~b.judged THEN "boundary"
    ELSE IF b.of = 0 THEN "unknown"
    ELSE Graded(Share(b.held, b.of))

-----------------------------------------------------------------------------
(* Depth.                                                                  *)

Boundaries == {"current_only", "catalogue", "forward_only"}

\* _per_symbol_oldest, then the spans of the population breadth divides by.
Spans(table, today, scope) ==
    LET oldest == [s \in {r[2] : r \in table} |-> Min({r[1] : r \in {q \in table : q[2] = s}})]
        in == DOMAIN oldest \cap scope
    IN  [s \in IF in # {} THEN in ELSE DOMAIN oldest |-> today - oldest[s]]

\* Sessions are counted as 1.45 calendar days each.
Needed(kind, value) == IF kind = "sessions" THEN (145 * value + 50) \div 100 ELSE value

Depth(table, kind, value, today, scope) ==
    LET spans == Spans(table, today, scope)
        unmeasured == kind \in Boundaries \/ DOMAIN spans = {}
    IN  [measured |-> ~unmeasured, kind |-> kind, judged |-> kind # "since",
         atTarget |-> Cardinality({s \in DOMAIN spans : spans[s] >= Needed(kind, value)}),
         of |-> Cardinality(DOMAIN spans)]

DepthVerdict(error, d) ==
    IF error THEN "unknown"
    ELSE IF ~d.measured THEN IF d.kind \in Boundaries THEN "boundary" ELSE "unknown"
    ELSE IF ~d.judged THEN "boundary"
    ELSE IF d.of = 0 THEN "unknown"
    ELSE IF 100 * d.atTarget >= 95 * d.of THEN "ok"
    ELSE IF 100 * d.atTarget >= 50 * d.of THEN "partial" ELSE "thin"

-----------------------------------------------------------------------------
(* Continuity.                                                             *)

CONSTANTS Neighbourhood, MinTrailing

\* Twice the median of count over a set of days.
Median2(count, days) ==
    LET n == Cardinality(days)
        Least(k) == Min({count[d] : d \in {e \in days :
                            Cardinality({f \in days : count[f] <= count[e]}) >= k}})
    IN  Least((n + 1) \div 2) + Least((n + 2) \div 2)

\* The days of a series that come just before, or just after, one of its days.
Before(days, d) ==
    {e \in days : e < d /\ Cardinality({f \in days : e < f /\ f < d}) < Neighbourhood}
After(days, d) ==
    {e \in days : e > d /\ Cardinality({f \in days : d < f /\ f < e}) < Neighbourhood}

\* Mutant of BelowTrailing: the median is taken for its double.
BelowHalfTrailing(count, days, d, num, den) ==
    /\ Cardinality(Before(days, d)) >= MinTrailing
    /\ 4 * den * count[d] < num * Median2(count, Before(days, d))

\* A day has less than num/den of the median of the days before it.
BelowTrailing(count, days, d, num, den) ==
    /\ Cardinality(Before(days, d)) >= MinTrailing
    /\ Median2(count, Before(days, d)) > 0
    /\ 2 * den * count[d] < num * Median2(count, Before(days, d))

\* thin_days.
ThinDays(count, days) == {d \in days : BelowTrailing(count, days, d, 1, 2)}

\* measure: sessions without a row inside the observed span, and thin ones that are due.
Continuity(table, sessions, session) ==
    LET present == DaysHeld(table) \cap sessions
        due == {d \in present : session = None \/ d <= session}
        count == [d \in due |-> Cardinality(HeldOn(table, d))]
    IN  [measured |-> TRUE, why |-> FALSE,
         present |-> Cardinality(present),
         absent |-> IF present = {} THEN 0
                    ELSE Cardinality((Min(present)..Max(present)) \cap (sessions \ present)),
         thin |-> Cardinality(ThinDays(count, due))]

\* The answer when the rows per day could not be read: not measured, and a reason.
ContinuityUnread == [measured |-> FALSE, why |-> TRUE, present |-> 0, absent |-> 0, thin |-> 0]

ContinuityVerdict(error, c) ==
    LET holes == c.absent + c.thin
        all == c.present + c.absent
    IN  IF error THEN "unknown"
        ELSE IF ~c.measured THEN IF c.why THEN "boundary" ELSE "unknown"
        ELSE IF all = 0 THEN "unknown"
        ELSE IF holes = 0 THEN "ok"
        ELSE IF 10 * holes <= all THEN "partial" ELSE "thin"

-----------------------------------------------------------------------------
(* Freshness.                                                              *)

\* The median gap between the days held, or None.
Interval(table, sessions) ==
    LET days == DaysHeld(table) \cap sessions
        gap == [d \in days \ {Min(days)} |-> d - Max({e \in days : e < d})]
    IN  IF Cardinality(days) < 2 THEN None ELSE Median2(gap, DOMAIN gap) \div 2

Freshness(table, cadence, dated, today, interval) ==
    LET behind == IF table = {} THEN None ELSE today - Max(DaysHeld(table))
    IN  [measured |-> dated, cadence |-> cadence, judged |-> cadence # "filing",
         behind |-> behind,
         overdue |-> IF cadence # "settlement" \/ behind = None \/ interval \in {None, 0}
                     THEN "unknown"
                     ELSE IF behind > 2 * interval THEN "yes" ELSE "no"]

FreshnessVerdict(error, f, hours) ==
    LET allowed == ((hours + 23) \div 24) + 1
    IN  IF error THEN "unknown"
        ELSE IF ~f.measured THEN "boundary"
        ELSE IF f.behind = None THEN "unknown"
        ELSE IF ~f.judged THEN "boundary"
        ELSE IF f.cadence # "session"
             THEN CASE f.overdue = "unknown" -> "unknown" [] f.overdue = "yes" -> "thin"
                    [] OTHER -> "ok"
        ELSE IF f.behind <= allowed THEN "ok"
        ELSE IF f.behind <= 3 * allowed THEN "partial" ELSE "thin"

-----------------------------------------------------------------------------
Axes == {"breadth", "depth", "freshness", "continuity"}

\* _one and verdicts_for: a dataset's row.  `how` is what became of its reads: "whole",
\* "middle" (the continuity read alone failed) or "failed" (breadth, depth or freshness did).
Verdicts(c, table, scope, sessions, session, today, how) ==
    LET error == how = "failed"
        seen == IF error THEN {} ELSE table
        middle == IF how = "middle" THEN ContinuityUnread
                  ELSE Continuity(table, sessions, session)
        interval == IF how = "middle" THEN None ELSE Interval(table, sessions)
    IN  [breadth |-> BreadthVerdict(error,
                        Breadth(seen, c.window, session, scope, c.voided, c.judged)),
         depth |-> DepthVerdict(error, Depth(seen, c.depth, c.target, today, scope)),
         freshness |-> FreshnessVerdict(error,
                        Freshness(seen, c.cadence, TRUE, today, interval), c.hours),
         continuity |-> ContinuityVerdict(error, middle)]

=============================================================================
