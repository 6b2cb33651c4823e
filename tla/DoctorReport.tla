---------------------------- MODULE DoctorReport ----------------------------
(***************************************************************************)
(* What the doctor says of one session, as functions of what it read: the  *)
(* severity of each check, the verdict over them, the verdict that gates   *)
(* the Research batch, and which fixes it prescribes.                      *)
(***************************************************************************)
EXTENDS Integers, FiniteSets

CONSTANTS
    Names,      \* optionable underlyings: the vendor lists a live chain of each
    Windowed    \* those of the tiers core and edge, collected near the money

WholeChain == Names \ Windowed

\* What a session holds of a chain, and what share of its live contracts that is.  A
\* "hot" chain came back thin with an IV far above its usual one.
Rows  == {"none", "hot", "part", "whole"}
Share == [none |-> 0, hot |-> 50, part |-> 80, whole |-> 100]
Bars  == {"none", "short", "whole"}

\* What the reads of a report can be: "bars" and the three statements over the chains.
Reads == {"chain", "degraded", "bars"}
Severity == {"crit", "warn", "ok", "silent"}

-----------------------------------------------------------------------------
CeilingOfOne(n) == IF n > 1 THEN n ELSE 1

\* _coverage_finding: under 90% of a chain is short.
ShortOf(rows) == {n \in WholeChain : Share[rows[n]] < 90}

Held(rows) ==
    LET With(r) == Cardinality({n \in WholeChain : rows[n] = r})
    IN  50 * With("hot") + 80 * With("part") + 100 * With("whole")

Coverage(rows) ==
    LET short == Cardinality(ShortOf(rows))  live == Cardinality(WholeChain)
    IN  IF short = 0 THEN "ok"
        ELSE IF 2 * Held(rows) < 100 * live \/ short > CeilingOfOne(live \div 2) THEN "crit"
        ELSE "warn"

\* _presence_finding: a windowed chain is there or it is not.
Missing(rows) == {n \in Windowed : rows[n] = "none"}
Presence(rows) ==
    LET missing == Cardinality(Missing(rows))
    IN  IF missing = 0 THEN "ok"
        ELSE IF 10 * missing > Cardinality(Windowed) THEN "crit" ELSE "warn"

\* _degraded_snapshots
Hot(rows) == {n \in Names : rows[n] = "hot"}

\* The findings, by check.  A statement that failed leaves a warning of another name
\* behind ("option_chain"), and a count that failed reads as -1.
Findings(rows, bars, unread) ==
    [option_snapshot |-> IF "chain" \in unread \/ WholeChain = {} THEN "silent" ELSE Coverage(rows),
     option_chain    |-> IF "chain" \in unread THEN "warn" ELSE "silent",
     windowed        |-> IF "chain" \in unread \/ Windowed = {} THEN "silent" ELSE Presence(rows),
     degraded        |-> IF "degraded" \in unread \/ Hot(rows) # {} THEN "warn" ELSE "ok",
     stock_daily     |-> IF "bars" \in unread \/ bars # "whole" THEN "crit" ELSE "ok"]

\* EOD_CRITICAL_CHECKS
EodCritical == {"option_snapshot", "stock_daily"}

Worst(S) == IF "crit" \in S THEN "critical" ELSE IF "warn" \in S THEN "degraded" ELSE "healthy"
Verdict(f)    == Worst({f[c] : c \in DOMAIN f})
EodVerdict(f) == Worst({f[c] : c \in EodCritical})

\* Prescriptions: what the chain no longer reflects is lost, not pending.
Fixes(rows, bars, unread, fixable) ==
    LET chains == "chain" \notin unread /\ (ShortOf(rows) # {} \/ Missing(rows) # {})
    IN  {x \in {"eod-pipeline"} : chains /\ fixable}
          \cup {x \in {"universe-daily"} : "bars" \in unread \/ bars # "whole"}

Refetches(rows, unread, fixable) ==
    IF "degraded" \notin unread /\ fixable THEN Hot(rows) ELSE {}

=============================================================================
