----------------------------- MODULE BarsCatchUp -----------------------------
(***************************************************************************)
(* How the bars that are bought name by name come to be whole: the hourly  *)
(* bars of a stock of the research universe (minute-bars), and the daily   *)
(* bars of an option contract that may be pinned (option-bars).  Each      *)
(* night the slot fires, or is missed; its jobs run later, in any order,   *)
(* and may fail for good.                                                  *)
(***************************************************************************)
EXTENDS Integers, FiniteSets

CONSTANTS
    Sessions,       \* the trading days
    Horizon,        \* bound: the last day
    Back,           \* hourly_backfill_days, pinned_history_days
    Catalogue,      \* the contracts of one underlying: [expiry, strike]
    Contract,       \* the one whose bars are kept here
    Spots,          \* its closes: a strike, or 0 without a close of its own
    Proxy,          \* the close lent by spot_proxy_for, 0 without one
    Expiries,       \* expiries
    Side,           \* strikes_each_side
    MinDays,        \* min_days
    ShallowDte,     \* shallow_dte
    MaxWaiting      \* bound: jobs that wait

VARIABLES
    series,     \* "hours" of a stock or "bars" of a contract
    day,        \* a trading day
    role,       \* the name's place: RolesOf(series)
    watched,    \* whether it was ever on the watch list
    spot,       \* the underlying's close
    fired,      \* whether tonight's fire has been
    ok,         \* it has, and none of its jobs failed
    held,       \* days with bars
    asked       \* the jobs that wait: <<from, to>>

vars == <<series, day, role, watched, spot, fired, ok, held, asked>>

\* On the watch list (or a benchmark), or in the research universe only; a pin ends with
\* pin_until.
RolesOf(s) == IF s = "hours" THEN {"listed", "research", "out"} ELSE {"pinned", "free"}

Within(from, to) == {d \in Sessions : from <= d /\ d <= to}
Newest(S) == CHOOSE d \in S : \A e \in S : e <= d

TypeOK ==
    /\ series \in {"hours", "bars"} /\ day \in Sessions
    /\ role \in RolesOf(series) /\ watched \in BOOLEAN /\ spot \in Spots
    /\ fired \in BOOLEAN /\ ok \in BOOLEAN
    /\ held \subseteq Sessions /\ asked \subseteq ((0 - Back)..Horizon) \X Sessions

Init ==
    /\ series \in {"hours", "bars"} /\ role \in RolesOf(series) /\ watched = (role = "listed")
    /\ spot \in (IF series = "bars" THEN Spots ELSE {0}) /\ day \in Sessions /\ \A d \in Sessions : day <= d
    /\ fired = FALSE /\ ok = FALSE /\ held = {} /\ asked = {}

-----------------------------------------------------------------------------
(* load_option_tickers_near_spot, for one underlying and one right.        *)
Floor(days) == IF days = 0 THEN day - 1 ELSE day + days
Listed == {k.expiry : k \in {c \in Catalogue : c.expiry >= day}}
ExpiryRank(e) == Cardinality({f \in Listed : f <= e})

Close == IF spot = 0 THEN Proxy ELSE spot
Away(k) == IF k.strike < Close THEN Close - k.strike ELSE k.strike - Close
StrikeRank(k) ==
    Cardinality({l \in Catalogue : /\ l.expiry = k.expiry
                                   /\ \/ Away(l) < Away(k)
                                      \/ Away(l) = Away(k) /\ l.strike <= k.strike})

\* The join with nth leaves out an underlying with fewer expiries than asked for.
NearSpot ==
    {k \in Catalogue :
        /\ Close # 0 /\ k.expiry \in Listed /\ StrikeRank(k) <= 2 * Side + 1
        /\ \E nth \in Listed :
              /\ ExpiryRank(nth) = Expiries
              /\ \/ ExpiryRank(k.expiry) <= Expiries
                 \/ k.expiry <= Floor(MinDays) /\ nth <= Floor(ShallowDte)}

-----------------------------------------------------------------------------
Tonight == <<day, day>>

\* Mutant of LatestDay: the newest bar's date is read in UTC, where an evening bar is
\* tomorrow's.
LatestInUtc(S) == Newest(S) + 1

\* latest_hourly_bar_days: New York dates.
LatestDay(S) == Newest(S)

\* minute-bars: a watched name gets the day alone; the others what follows their newest
\* bar, or the whole window when the lookup fails or finds none.
HourlyAsks(read) ==
    LET since  == day - Back
        recent == {d \in held : d >= since /\ read}
        start  == IF recent = {} THEN since
                  ELSE IF LatestDay(recent) + 1 > since THEN LatestDay(recent) + 1 ELSE since
    IN  CASE role = "listed"   -> {Tonight}
          [] role = "research" -> {<<s, day>> : s \in {start} \cap (0 - Back)..day}
          [] OTHER             -> {}

\* Mutant of HistoryAsks: a contract that has bars of its own is not asked about again.
HistoryOnce(read) == {<<day - Back, day>> : d \in {e \in {day} : read /\ held = {}}}

\* option-bars: the history of the pinned contracts, whose window moves on every night.
HistoryAsks(read) == {<<day - Back, day>> : d \in {e \in {day} : read}}
BarAsks(read) ==
    LET pinned == read /\ role = "pinned"
    IN  HistoryAsks(pinned) \cup {a \in {Tonight} : pinned \/ Contract \in NearSpot}

\* The slot's jobs, one of each payload.
Fire(read) ==
    /\ ~fired /\ Cardinality(asked) < MaxWaiting
    /\ fired' = TRUE /\ ok' = (read \/ series = "hours")
    /\ asked' = asked \cup (IF series = "hours" THEN HourlyAsks(read) ELSE BarAsks(read))
    /\ UNCHANGED <<series, day, role, watched, spot, held>>

\* handle_stock_minute, handle_option_daily: what the vendor has of the window, in one
\* upsert.
Fetch(a) ==
    /\ a \in asked
    /\ asked' = asked \ {a} /\ held' = held \cup Within(a[1], a[2])
    /\ UNCHANGED <<series, day, role, watched, spot, fired, ok>>

\* A job out of attempts stays failed.
Fail(a) ==
    /\ a \in asked
    /\ asked' = asked \ {a} /\ ok' = (ok /\ a[2] # day)
    /\ UNCHANGED <<series, day, role, watched, spot, fired, held>>

\* The next session: the watch list, the universe, the pins and the close may be others.
NextDay ==
    /\ \E d \in Sessions : d > day /\ (\A e \in Sessions : e > day => d <= e) /\ day' = d
    /\ role' \in RolesOf(series) /\ watched' = (watched \/ role' = "listed")
    /\ spot' \in (IF series = "bars" THEN Spots ELSE {spot})
    /\ fired' = FALSE /\ ok' = FALSE
    /\ UNCHANGED <<series, held, asked>>

Next ==
    \/ \E read \in BOOLEAN : Fire(read)
    \/ NextDay
    \/ \E a \in asked : Fetch(a) \/ Fail(a)

Spec == Init /\ [][Next]_vars

-----------------------------------------------------------------------------
Reach == Within(day - Back, day)

\* "A missed night is picked up by the next": the hours of a name that was never watched
\* have no hole behind their newest bar, whatever was missed, failed or came late; and once
\* a fire's jobs are done they reach over the window.
HoursWhole ==
    (series = "hours" /\ ~watched) =>
        /\ \A d \in Reach : (\E e \in held : e > d) => d \in held
        /\ (ok /\ asked = {} /\ role = "research") => Reach \subseteq held

\* Once a fire's jobs are done a pinned contract has no gap where it left the money.
PinnedWhole ==
    (series = "bars" /\ ok /\ asked = {} /\ role = "pinned") => Reach \subseteq held

\* And the contract at the money of a front expiry has its bar, of an underlying with
\* expiries enough.
AtTheMoney ==
    /\ Close # 0 /\ Contract.expiry \in Listed /\ ExpiryRank(Contract.expiry) <= Expiries
    /\ \A k \in Catalogue : k.expiry = Contract.expiry => Away(Contract) <= Away(k)
    /\ Cardinality(Listed) >= Expiries
MoneyWhole ==
    (series = "bars" /\ ok /\ asked = {} /\ AtTheMoney /\ StrikeRank(Contract) = 1) => day \in held

CaughtUp == HoursWhole /\ PinnedWhole /\ MoneyWhole
=============================================================================
