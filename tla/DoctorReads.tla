----------------------------- MODULE DoctorReads -----------------------------
(***************************************************************************)
(* The reads of one report of the doctor, in the order run_doctor makes    *)
(* them on one connection.  A read that fails leaves the transaction       *)
(* aborted until somebody rolls it back, and the time limit that a check   *)
(* sets for itself (SET LOCAL) holds for the reads after it until the      *)
(* transaction ends.  What a check says when its read failed is its own    *)
(* business: a warning, a count of -1, a guess over other names, or        *)
(* nothing at all.                                                         *)
(***************************************************************************)
EXTENDS Integers, Sequences, FiniteSets

CONSTANT MaxFaults      \* bound: reads of a report that are slow or broken

\* The limit of the connection (api/doctor.py), and how long a slow read takes.
Connection == 120
Slow       == 45

-----------------------------------------------------------------------------
(* The reads.                                                              *)

\* Most checks catch their own failure and roll back.
Read(n) == [name |-> n, limit |-> 0, mends |-> TRUE, commits |-> FALSE, sinks |-> FALSE,
            unless |-> {}]
Within(sec, r)  == [r EXCEPT !.limit = sec]
Unless(U, r)    == [r EXCEPT !.unless = U]
Unmended(r)     == [r EXCEPT !.mends = FALSE]
Committed(r)    == [r EXCEPT !.commits = TRUE]
Sinking(r)      == [r EXCEPT !.sinks = TRUE]

\* resolve_session: after the close of a weekday the first probe is enough, whether it was
\* read or not (a holiday is taken for a session then); at any other time the calendar has
\* to answer.
SessionReads(evening) ==
    <<Unmended(Read("trading"))>> \o IF evening THEN <<>> ELSE <<Sinking(Read("completed"))>>

\* load_watchlist_symbols stores an answer of the Platform, and reads the last one when
\* the Platform does not answer; load_research_universe.
Stored == Committed(Read("stored"))
WatchReads(platform) == IF platform THEN <<Stored>> ELSE <<Read("cached")>>
UniverseReads == <<Read("universe")>>

\* filter_optionable_underlyings and the probe of chain_session swallow the error and leave
\* the transaction as it is.
Optionable == <<Unmended(Read("optionable"))>>
ChainReads == <<Unmended(Read("chain_day")), Read("live"), Read("snap"), Read("oi")>>
WindowedReads ==
    LET Present(n) == Unless({"universe", "live", "snap", "oi"}, Read(n))
    IN  <<Present("windowed_snap"), Present("windowed_oi")>>
SpotReads     == <<Within(20, Read("spot"))>>
DegradedReads == <<Read("base_days"), Unless({"base_days"}, Within(25, Read("degraded")))>>

StockReads == <<Read("daily"), Unless({"cached"}, Read("listed")), Read("stock_snapshot")>>
FundamentalReads ==
    <<Sinking(Read("ratios_day")), Read("ratios"), Read("short"), Read("ratios_floor"),
      Read("short_floor")>>
SlotReads   == <<Read("fresh"), Within(20, Read("evidence")), Read("closed")>>
FailedReads == <<Read("samples"), Read("failed_rows")>>
QueueReads  == <<Read("runway"), Read("stuck"), Read("pages")>>

\* Two datasets: the sessions of the first are judged on their width as well.
ContinuityReads ==
    LET Dated(n) == Unless({"sessions"}, Within(30, Read(n)))
    IN  <<Read("sessions"), Dated("presence"), Unless({"sessions", "presence"}, Dated("width")),
          Dated("other_presence")>>
DepthReads ==
    <<Read("depth_universe"), Read("planned"), Committed(Within(120, Read("oldest"))),
      Unless({"oldest"}, Committed(Within(60, Read("empty"))))>>

Script(evening, platform) ==
    SessionReads(evening) \o WatchReads(platform) \o UniverseReads \o Optionable \o ChainReads
      \o WindowedReads \o SpotReads \o DegradedReads \o StockReads \o FundamentalReads
      \o SlotReads \o FailedReads \o QueueReads \o ContinuityReads \o DepthReads

\* The names of all of them.
Names ==
    {"trading", "completed", "stored", "cached", "universe", "optionable", "chain_day", "live",
     "snap", "oi", "windowed_snap", "windowed_oi", "spot", "base_days", "degraded", "daily",
     "listed", "stock_snapshot", "ratios_day", "ratios", "short", "ratios_floor",
     "short_floor", "fresh", "evidence", "closed", "samples", "failed_rows", "runway", "stuck",
     "pages", "sessions", "presence", "width", "other_presence", "depth_universe", "planned",
     "oldest", "empty"}

-----------------------------------------------------------------------------
(* What the checks say of data that is bad everywhere, or nowhere, when    *)
(* the reads U failed.                                                     *)
Lost(U, S) == U \cap S # {}
Judged(bad, severity) == IF bad THEN severity ELSE "ok"

\* Names taken from elsewhere: the checks of the chain speak of others than they should.
OtherNames(U) == Lost(U, {"universe", "optionable"})

ChainSays(U, bad) ==
    LET unread == Lost(U, {"live", "snap", "oi"})
        Over(severity) == IF OtherNames(U) THEN "guess" ELSE Judged(bad, severity)
    IN  [chain    |-> IF unread THEN "warn" ELSE Over("crit"),
         windowed |-> IF unread \/ "universe" \in U THEN "silent"
                      ELSE IF Lost(U, {"windowed_snap", "windowed_oi"}) THEN "warn"
                      ELSE Over("crit"),
         spot     |-> IF "spot" \in U THEN "warn" ELSE Over("warn"),
         degraded |-> IF Lost(U, {"base_days", "degraded"}) THEN "warn" ELSE Over("warn")]

\* A count that failed is -1; the list of the watched names that failed is no finding.
StockSays(U, bad) ==
    [daily     |-> IF "daily" \in U THEN "crit" ELSE Judged(bad, "crit"),
     watchlist |-> IF Lost(U, {"cached", "listed"}) THEN "silent" ELSE Judged(bad, "warn"),
     snapshot  |-> IF "stock_snapshot" \in U THEN "warn" ELSE Judged(bad, "warn")]

\* The medians fall back to the absolute floor, which thin data passes.
FundamentalSays(U, bad) ==
    [fundamentals |-> IF Lost(U, {"ratios", "short"}) THEN "crit"
                      ELSE IF Lost(U, {"ratios_floor", "short_floor"}) THEN "ok"
                      ELSE Judged(bad, "warn")]

\* Without the rows of its own a slot is judged by its jobs, then by the row it shares; a
\* slot that sleeps on closed days is late after them.
SlotSays(U, bad) ==
    [slots |-> IF {"fresh", "evidence"} \subseteq U \/ "closed" \in U THEN "warn"
               ELSE IF Lost(U, {"fresh", "evidence"}) THEN "guess" ELSE Judged(bad, "warn")]

\* The samples count failures and the rows can be retried: one stands in for the other.
FailedSays(U, bad) ==
    [failed |-> IF {"samples", "failed_rows"} \subseteq U THEN "silent" ELSE Judged(bad, "warn")]

QueueSays(U, bad) ==
    [runway |-> IF "runway" \in U THEN "silent" ELSE Judged(bad, "crit"),
     stuck  |-> IF "stuck" \in U THEN "silent" ELSE Judged(bad, "warn"),
     pages  |-> IF "pages" \in U THEN "silent" ELSE Judged(bad, "warn")]

ContinuitySays(U, bad) ==
    LET Over(S) == IF "sessions" \in U THEN "silent"
                   ELSE IF Lost(U, S) THEN "warn" ELSE Judged(bad, "warn")
    IN  [continuity |-> Over({"presence", "width"}), continuity_other |-> Over({"other_presence"})]

\* Months already asked for count as open when the notes about them were not read.
DepthSays(U, bad) ==
    [depth |-> IF Lost(U, {"oldest", "empty", "planned"}) THEN "warn"
               ELSE IF "depth_universe" \in U THEN "guess" ELSE Judged(bad, "warn")]

Says(U, bad) ==
    <<ChainSays(U, bad), StockSays(U, bad), FundamentalSays(U, bad), SlotSays(U, bad),
      FailedSays(U, bad), QueueSays(U, bad), ContinuitySays(U, bad), DepthSays(U, bad)>>

-----------------------------------------------------------------------------
VARIABLES
    left,       \* reads still to make
    aborted,    \* whether the transaction waits for a rollback
    limit,      \* statement_timeout in force
    unread,     \* reads that failed
    at_fault,   \* reads that were slow or broken by themselves
    report      \* "making", "made", or "none" when a read escaped

vars == <<left, aborted, limit, unread, at_fault, report>>

TypeOK ==
    /\ aborted \in BOOLEAN
    /\ limit \in {20, 25, 30, 60, 120}
    /\ unread \subseteq Names /\ at_fault \subseteq Names
    /\ report \in {"making", "made", "none"}

Init ==
    /\ \E evening, platform \in BOOLEAN : left = Script(evening, platform)
    /\ aborted = FALSE /\ limit = Connection /\ unread = {} /\ at_fault = {}
    /\ report = "making"

\* A read is made within the limit in force, or within its own from here on.
InForce(r) == IF r.limit = 0 THEN limit ELSE r.limit

Fails(r, cost) == aborted \/ cost = "broken" \/ (cost = "slow" /\ Slow > InForce(r))

\* _rollback: the transaction is clean again and has the limit of the connection.
\* Mutant of Mended: the probe of thin and hot chains forgets to roll back.
MendedButOne(r) == r.mends /\ r.name # "degraded"

Mended(r) == r.mends

Leave(r) ==
    /\ unread' = unread \cup {r.name}
    /\ IF Mended(r) THEN aborted' = FALSE /\ limit' = Connection
       ELSE aborted' = TRUE /\ limit' = limit
    /\ report' = IF r.sinks THEN "none" ELSE IF Len(left) = 1 THEN "made" ELSE report

Keep(r) ==
    /\ limit' = IF r.commits THEN Connection ELSE InForce(r)
    /\ report' = IF Len(left) = 1 THEN "made" ELSE report
    /\ UNCHANGED <<aborted, unread>>

Step(cost) ==
    LET r == Head(left)
    IN  /\ report = "making" /\ r.unless \cap unread = {}
        /\ left' = Tail(left)
        /\ at_fault' = IF cost = "quick" THEN at_fault ELSE at_fault \cup {r.name}
        /\ IF Fails(r, cost) THEN Leave(r) ELSE Keep(r)

\* A read that an earlier failure makes pointless.  The jobs of the slots are not asked when
\* every slot has a row of its own.
Skip ==
    /\ report = "making"
    /\ \/ Head(left).unless \cap unread # {}
       \/ Head(left).name = "evidence" /\ "fresh" \notin unread
    /\ left' = Tail(left)
    /\ report' = IF Len(left) = 1 THEN "made" ELSE report
    /\ UNCHANGED <<aborted, limit, unread, at_fault>>

Next ==
    \/ Step("quick") \/ Skip
    \/ Cardinality(at_fault) < MaxFaults /\ \E cost \in {"slow", "broken"} : Step(cost)

Spec == Init /\ [][Next]_vars

-----------------------------------------------------------------------------
\* Three reads leave the aborted transaction to the next one: the first read of the watch
\* list, and the live catalogue under the coverage of the chain, fail with them.
Blamed(F) ==
    F \cup {n \in {"cached"} : "trading" \in F}
      \cup {n \in {"live"} : F \cap {"optionable", "chain_day"} # {}}

\* "One failed check must not sink the report": a report says of every check what it would
\* have said without the faults, unless a read of that very check was at fault.  Neither an
\* aborted transaction nor a time limit lent by another check reaches any further.
FaultsStayApart ==
    report = "made" => \A bad \in BOOLEAN : \A i \in 1..8 : \A c \in DOMAIN Says({}, bad)[i] :
        \/ Says(unread, bad)[i][c] = Says({}, bad)[i][c]
        \/ \E b \in BOOLEAN : Says(Blamed(at_fault), b)[i][c] # Says({}, b)[i][c]
=============================================================================
