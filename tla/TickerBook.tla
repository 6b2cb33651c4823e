----------------------------- MODULE TickerBook -----------------------------
(***************************************************************************)
(* raw_market.ticker: which listings it knows, and three jobs that write   *)
(* it.  The reference slot fires every night and enqueues a walk over what *)
(* the vendor lists as active, plus a question about each of a few symbols *)
(* that may be retired; ticker-details asks for the overview of a batch.   *)
(*                                                                         *)
(* updated_at is kept as an order: stamp[s] ranks the rows by it.          *)
(***************************************************************************)
EXTENDS Integers, FiniteSets

CONSTANTS
    Symbols,
    Place,       \* [Symbols -> its place in ORDER BY symbol], from 1
    Optioned,       \* symbols that hold option_daily rows
    Funds,          \* symbols the walk never lists: its ticker_type is CS
    Blank,          \* symbols whose overview has no list_date
    Steady,         \* stocks that trade all along: the vendor's list is never empty
    Silent,         \* roots that are no symbols (SW1): the vendor has nothing under active=false
    BatchSize,      \* batch_size of ticker-details
    PerRun,         \* DELISTED_LOOKUP_PER_RUN
    MaxFails        \* bound: how many jobs fail, or walks are cut short

VARIABLES
    trading,    \* symbols that trade, and which the vendor lists as active
    closing,    \* symbols with a close in the last RETIRED_CLOSE_LOOKBACK_DAYS
    row,        \* [Symbols -> the state of its row]
    stamp,      \* [Symbols -> rank of its updated_at, 0 without a row]
    jobs,       \* jobs that wait, <<mode, symbol>>
    fails       \* how many jobs failed

vars == <<trading, closing, row, stamp, jobs, fails>>

\* active, without and with list_date; inactive, without and with delisted_utc.
Row   == {"none", "listed", "detailed", "inactive", "delisted"}
Walk  == <<"universe", "all">>
Jobs  == {Walk} \cup {"detail", "delisted"} \X Symbols
IsActive(s) == row[s] \in {"listed", "detailed"}

-----------------------------------------------------------------------------
First(S, n, Before(_, _)) == {s \in S : Cardinality({t \in S : Before(t, s)}) < n}
Latest == CHOOSE n \in {stamp[s] : s \in Symbols} : \A s \in Symbols : stamp[s] <= n

\* updated_at = now() on the rows of S, with the ranks kept dense.
Stamped(S) ==
    LET fresh == [s \in Symbols |-> IF s \in S THEN Latest + 1 ELSE stamp[s]]
        Below(t) == {fresh[u] : u \in {v \in Symbols : fresh[v] # 0 /\ fresh[v] <= fresh[t]}}
    IN  [t \in Symbols |-> Cardinality(Below(t))]

\* tickers_needing_detail: without a list_date first, then the stalest, then by name.
NeedingDetail ==
    LET Sooner(s, t) ==
            \/ row[s] = "listed" /\ row[t] = "detailed"
            \/ row[s] = row[t] /\ stamp[s] < stamp[t]
            \/ row[s] = row[t] /\ stamp[s] = stamp[t] /\ Place[s] < Place[t]
    IN  First({s \in Symbols : IsActive(s)}, BatchSize, Sooner)

\* Mutant of DelistedCandidates: a recent close is no obstacle.
CandidatesThatTrade ==
    LET rank(s) == IF row[s] = "none" THEN 0 ELSE 1
        Sooner(s, t) == \/ rank(s) < rank(t)
                        \/ rank(s) = rank(t) /\ Place[s] < Place[t]
        unseen  == {s \in Optioned : row[s] = "none"}
        undated == {s \in Symbols : row[s] = "inactive"}
    IN  First(unseen \cup undated, PerRun, Sooner)

\* load_delisted_lookup_candidates: rows of options without a ticker before inactive
\* rows without a date.  What has closed lately trades, whatever else it is.
DelistedCandidates ==
    LET rank(s) == IF row[s] = "none" THEN 0 ELSE 1
        Sooner(s, t) == \/ rank(s) < rank(t)
                        \/ rank(s) = rank(t) /\ Place[s] < Place[t]
        unseen  == {s \in Optioned : row[s] = "none"}
        undated == {s \in Symbols : row[s] = "inactive"}
    IN  First((unseen \cup undated) \ closing, PerRun, Sooner)

-----------------------------------------------------------------------------
\* Some listings are new to the walk, and some retired before it ever ran.
Init ==
    /\ trading \in {S \in SUBSET (Symbols \ Silent) : Steady \subseteq S} /\ closing = trading
    /\ \E known \in SUBSET (trading \ Funds) :
          /\ row = [s \in Symbols |-> IF s \in known THEN "listed" ELSE "none"]
          /\ stamp = [s \in Symbols |-> IF s \in known THEN 1 ELSE 0]
    /\ jobs = {} /\ fails = 0

\* enqueue_slot("reference")
Reference ==
    /\ jobs' = jobs \cup {Walk} \cup {"delisted"} \X DelistedCandidates
    /\ UNCHANGED <<trading, closing, row, stamp, fails>>

\* enqueue_slot("ticker-details")
Details ==
    /\ jobs' = jobs \cup {"detail"} \X NeedingDetail
    /\ UNCHANGED <<trading, closing, row, stamp, fails>>

Settles(k) == k \in jobs /\ jobs' = jobs \ {k}

\* Only a walk that was not cut short deactivates what it did not list.
Gone(listed, truncated) ==
    IF truncated THEN {} ELSE {s \in Symbols \ Funds : IsActive(s) /\ s \notin listed}

\* mode universe
SyncUniverse(truncated) ==
    /\ Settles(Walk)
    /\ truncated => fails < MaxFails
    /\ fails' = IF truncated THEN fails + 1 ELSE fails
    /\ LET whole  == trading \ Funds
           listed == IF truncated THEN {s \in whole : Place[s] <= 2} ELSE whole
           gone   == Gone(listed, truncated)
       IN  /\ row' = [s \in Symbols |->
                        IF s \in gone THEN "inactive"
                        ELSE IF s \in listed /\ ~IsActive(s) THEN "listed" ELSE row[s]]
           /\ stamp' = Stamped(listed \cup gone)
    /\ UNCHANGED <<trading, closing>>

\* mode detail: the endpoint answers for live listings only, a 404 fails the job.
SyncDetail(s) ==
    /\ Settles(<<"detail", s>>)
    /\ IF s \in trading
       THEN /\ row' = [row EXCEPT ![s] = IF s \in Blank THEN "listed" ELSE "detailed"]
            /\ stamp' = Stamped({s})
       ELSE UNCHANGED <<row, stamp>>
    /\ UNCHANGED <<trading, closing, fails>>

\* Mutant of SyncDelisted: the row is inserted without updated_at.
SyncDelistedUnstamped(s) ==
    /\ Settles(<<"delisted", s>>)
    /\ row' = IF s \in trading \/ s \in Silent THEN row ELSE [row EXCEPT ![s] = "delisted"]
    /\ UNCHANGED <<trading, closing, stamp, fails>>

\* mode delisted: nothing is written when the vendor does not know it as retired.
SyncDelisted(s) ==
    /\ Settles(<<"delisted", s>>)
    /\ IF s \in trading \/ s \in Silent THEN UNCHANGED <<row, stamp>>
       ELSE /\ row' = [row EXCEPT ![s] = "delisted"]
            /\ stamp' = IF stamp[s] = 0 THEN Stamped({s}) ELSE stamp
    /\ UNCHANGED <<trading, closing, fails>>

Fail(k) ==
    /\ Settles(k) /\ fails < MaxFails /\ fails' = fails + 1
    /\ UNCHANGED <<trading, closing, row, stamp>>

\* The market's own steps: a listing retires, and later its last close is old.
Retires(s) ==
    /\ s \in trading \ Steady /\ trading' = trading \ {s}
    /\ UNCHANGED <<closing, row, stamp, jobs, fails>>

ClosesAge(s) ==
    /\ s \in closing \ trading /\ closing' = closing \ {s}
    /\ UNCHANGED <<trading, row, stamp, jobs, fails>>

-----------------------------------------------------------------------------
Next ==
    \/ Reference \/ Details
    \/ \E truncated \in BOOLEAN : SyncUniverse(truncated)
    \/ \E s \in Symbols : SyncDetail(s) \/ SyncDelisted(s)
    \/ \E s \in Symbols : Retires(s) \/ ClosesAge(s)
    \/ \E k \in Jobs : Fail(k)

\* Both crons fire, what is queued is run, a walk is not always cut short, and a close
\* that nobody follows up gets old.
Fairness ==
    /\ WF_vars(Reference) /\ WF_vars(Details) /\ WF_vars(SyncUniverse(FALSE))
    /\ \A s \in Symbols : WF_vars(SyncDetail(s)) /\ WF_vars(SyncDelisted(s)) /\ WF_vars(ClosesAge(s))

FairSpec == Init /\ [][Next]_vars /\ Fairness

-----------------------------------------------------------------------------
(***************************************************************************)
(* Properties                                                              *)
(***************************************************************************)
TypeOK ==
    /\ trading \subseteq Symbols /\ closing \subseteq Symbols
    /\ row \in [Symbols -> Row] /\ stamp \in [Symbols -> 0..Cardinality(Symbols)]
    /\ \A s \in Symbols : row[s] = "none" <=> stamp[s] = 0
    /\ jobs \subseteq Jobs /\ fails \in 0..MaxFails

\* A symbol whose retirement the vendor knows gets its date in the end, however many that
\* trade or that the vendor does not answer for stand before it in the queue: it needs
\* fewer silent ones than a run asks about.
RetiredGetDated ==
    \A s \in Symbols \ Silent :
        <>[](s \notin trading /\ (s \in Optioned \/ row[s] # "none")) => <>(row[s] = "delisted")

\* The comment on tickers_needing_detail: once the backlog is gone the query takes the
\* stalest updated_at, one rotation.  A name that stays listed is asked for again and again.
DetailsComeRound ==
    \A s \in Symbols : <>[](s \in trading /\ IsActive(s)) => []<>(<<"detail", s>> \in jobs)

=============================================================================
