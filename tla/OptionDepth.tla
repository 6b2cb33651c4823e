----------------------------- MODULE OptionDepth -----------------------------
(***************************************************************************)
(* The depth of option_daily: the weekly option-depth slot looks for what  *)
(* is missing, plans it one expiry month at a time, and each plan queues   *)
(* one option_daily job per contract.                                      *)
(*                                                                         *)
(* Months are counted back from this one: 0 is the month of today.  A      *)
(* contract that expires in month e is priced in the months e..e+Ahead.    *)
(***************************************************************************)
EXTENDS Integers, FiniteSets, Sequences

CONSTANTS
    Names,
    Need,           \* [Names -> months of depth of its tier]
    Catalogue,      \* [months of the deepest tier -> its expired contracts, as the vendor lists them]
    Window,         \* the oldest month whose contracts the vendor still prices
    Ahead,          \* dte, in months
    Grace,          \* grace_days, in months
    Retry,          \* OPTION_PLAN_RETRY_DAYS, in runs of the slot
    MaxFails        \* bound: reads, plans and jobs that fail

Months  == DOMAIN Catalogue
Contracts == UNION {{Catalogue[m][i] : i \in DOMAIN Catalogue[m]} : m \in Months}

VARIABLES
    recent,     \* [Names -> the oldest month that the nightly chain has filled]
    held,       \* [Names -> contracts whose bars were fetched]
    note,       \* [Names -> [Months -> age of its option_plan void, or NoNote]]
    plans,      \* option_backfill_plan jobs that wait, <<name, month>>
    fetches,    \* option_daily jobs that wait, <<name, contract>>
    fails

vars == <<recent, held, note, plans, fetches, fails>>

Plans   == Names \X Months
Fetches == Names \X Contracts
NoNote  == Retry + 2        \* ages past Retry are all alike: Retry + 1

-----------------------------------------------------------------------------
Expiry(c) == CHOOSE m \in Months : \E i \in DOMAIN Catalogue[m] : Catalogue[m][i] = c
Life(c)   == (Expiry(c)..(Expiry(c) + Ahead)) \cap Months

\* Months in which a name holds a bar, and the month of its oldest bar.
Barred(n) == 0..recent[n] \cup UNION {Life(c) : c \in held[n]}
Oldest(n) == CHOOSE m \in Barred(n) : \A k \in Barred(n) : k <= m

\* load_empty_option_months: the months of the depth that have ended, without a bar.
Empty(n) == {m \in 1..(Need[n] - 1) : m \notin Barred(n)}

\* Names whose oldest bar is short of the depth, and the expiry months that reach before it.
Short(n) ==
    IF Oldest(n) < Need[n] - Grace
    THEN {b \in 0..(Need[n] - 1) : b + Ahead >= Oldest(n)}
    ELSE {}

\* Whole months without a bar after the oldest one, and the expiry months that feed them.
Gaps(n)  == {m \in Empty(n) : m < Oldest(n)}
\* Mutant of Holes: an empty month is fed by the contracts that expire in it.
OwnMonths(n) == Gaps(n)
Holes(n) == {m - k : m \in Gaps(n), k \in 0..Ahead} \cap Months

Planned(n) == {m \in Months : note[n][m] <= Retry}

-----------------------------------------------------------------------------
Init ==
    /\ recent \in [Names -> 0..1] /\ held \in [Names -> SUBSET Contracts]
    /\ note = [n \in Names |-> [m \in Months |-> NoNote]]
    /\ plans = {} /\ fetches = {} /\ fails = 0

Fails == fails < MaxFails /\ fails' = fails + 1

\* enqueue_slot("option-depth"): force plans whatever is noted; unread: the statement over
\* the empty months timed out, so no hole is planned.  When the oldest bars cannot be read
\* the slot does nothing.
Depth(force, unread) ==
    /\ LET due(n) == (Short(n) \cup (IF unread THEN {} ELSE Holes(n)))
                       \ (IF force THEN {} ELSE Planned(n))
       IN  /\ plans' = plans \cup UNION {{n} \X due(n) : n \in Names}
           /\ note' = [n \in Names |-> [m \in Months |-> IF m \in due(n) THEN 0 ELSE note[n][m]]]
    /\ IF unread THEN Fails ELSE UNCHANGED fails
    /\ UNCHANGED <<recent, held, fetches>>

\* enqueue_slot("option-backfill"): every month of every name, by hand.
Backfill ==
    /\ plans' = plans \cup UNION {{n} \X (0..(Need[n] - 1)) : n \in Names}
    /\ UNCHANGED <<recent, held, note, fetches, fails>>

\* Contracts the planner keeps: not past the vendor's edge.
Kept(m) == IF m > Window THEN <<>> ELSE Catalogue[m]
FirstOf(q, k) == {q[i] : i \in {j \in DOMAIN q : j <= k}}

\* handle_option_backfill_plan
Plan(p) ==
    /\ p \in plans /\ plans' = plans \ {p}
    /\ fetches' = fetches \cup {p[1]} \X FirstOf(Kept(p[2]), Len(Kept(p[2])))
    /\ UNCHANGED <<recent, held, note, fails>>

\* It runs out of attempts: the catalogue was cut short, or one of its chunks could not be
\* inserted, after the first k contracts.
PlanFails(p, k) ==
    /\ p \in plans /\ plans' = plans \ {p} /\ Fails
    /\ fetches' = fetches \cup {p[1]} \X FirstOf(Kept(p[2]), k)
    /\ UNCHANGED <<recent, held, note>>

\* handle_option_daily
Fetch(f) ==
    /\ f \in fetches /\ fetches' = fetches \ {f}
    /\ held' = [held EXCEPT ![f[1]] = @ \cup {f[2]}]
    /\ UNCHANGED <<recent, note, plans, fails>>

FetchFails(f) ==
    /\ f \in fetches /\ fetches' = fetches \ {f} /\ Fails
    /\ UNCHANGED <<recent, held, note, plans>>

WeekPasses ==
    /\ note' = [n \in Names |-> [m \in Months |->
                  IF note[n][m] <= Retry THEN note[n][m] + 1 ELSE note[n][m]]]
    /\ UNCHANGED <<recent, held, plans, fetches, fails>>

-----------------------------------------------------------------------------
Next ==
    \/ \E force, unread \in BOOLEAN : Depth(force, unread)
    \/ Backfill \/ WeekPasses
    \/ \E p \in Plans : Plan(p) \/ \E k \in 0..Cardinality(Contracts) : PlanFails(p, k)
    \/ \E f \in Fetches : Fetch(f) \/ FetchFails(f)

\* The weekly cron fires and its reads succeed, weeks pass, and what is queued is run.
Fairness ==
    /\ WF_vars(Depth(FALSE, FALSE)) /\ WF_vars(WeekPasses)
    /\ \A p \in Plans : WF_vars(Plan(p))
    /\ \A f \in Fetches : WF_vars(Fetch(f))

FairSpec == Init /\ [][Next]_vars /\ Fairness

-----------------------------------------------------------------------------
(***************************************************************************)
(* Properties                                                              *)
(***************************************************************************)
TypeOK ==
    /\ recent \in [Names -> 0..1] /\ held \in [Names -> SUBSET Contracts]
    /\ note \in [Names -> [Months -> 0..NoNote]]
    /\ plans \subseteq Plans /\ fetches \subseteq Fetches /\ fails \in 0..MaxFails

\* The ended months inside a name's depth that contracts the vendor still prices can fill.
Fillable(n) ==
    (1..(Need[n] - 1)) \cap
        UNION {Life(c) : c \in {x \in Contracts : Expiry(x) <= Window /\ Expiry(x) < Need[n]}}

\* A month that has ended, inside a name's depth, and that contracts the vendor still
\* prices can fill, holds a bar in the end: a plan that failed behind its note is made
\* again, an oldest bar at depth hides no month after it, and a bar fetched early by one
\* contract does not hide the months that only others reach.
DepthFills == \A n \in Names : \A m \in Fillable(n) : <>(m \in Barred(n))

=============================================================================
