--------------------------- MODULE MCObservation ----------------------------
(* A small instance of the parts that watch the others.                     *)
EXTENDS Observation

\* A table of bars: five sessions, of which the fifth is the last one due, and the day
\* between them on which the market is closed.  Four names are asked for, one of which
\* the vendor does not sell.
OneContract == [window |-> "session", voided |-> {4}, judged |-> TRUE, depth |-> "rolling_days",
                target |-> 4, cadence |-> "session", hours |-> 2]
OneDataset == [d \in Datasets |-> OneContract]
Whole == MarketDays \X {1, 2, 3}

\* For the memory: a whole table, one without a session, one whose last session is short.
Few == {Whole, Whole \ ({4} \X {1, 2, 3}), Whole \ ({5} \X {1, 2})}

\* For the verdicts: sessions that lack, up to three rows that lack, a row on a closed day.
Lacks(n) == {Whole \ X : X \in kSubset(n, Whole)}
Many == {Whole \ (X \X {1, 2, 3}) : X \in SUBSET MarketDays}
          \cup UNION {Lacks(n) : n \in 1..3} \cup {Whole \cup {<<3, 1>>}}

\* Two rows of the catalogue and three of bars, two of which lie in the same place of two
\* partitions; another company once traded under the new symbol.
TwoOfThree == {<<"contract", "live", 0, 0>>, <<"contract", "weekly", 0, 0>>,
               <<"bars", "live", 2, 2>>, <<"bars", "weekly", 2, 1>>, <<"bars", "old", 1, 1>>}
OneDamaged == {<<"bars", "old", 1, 1>>}

\* The walk of the reference table shares its row with the details of single names; the
\* rotation sleeps on closed days; the evening's jobs are made hours after their cron.
Slot(cron, lag, gated, named, dim, grace, limit) ==
    [cron |-> cron, lag |-> lag, gated |-> gated, named |-> named, dim |-> dim,
     grace |-> grace, limit |-> limit]
FourSlots == [reference |-> Slot(5, 0, FALSE, TRUE, "ticker_sync", 0, 12),
              details |-> Slot(0, 0, FALSE, TRUE, "ticker_sync", 0, 0),
              rotate |-> Slot(0, 0, TRUE, TRUE, "financials", 0, 12),
              evening |-> Slot(5, 1, TRUE, FALSE, "option_snapshot", 2, 0)]

\* A working week, of which two days have passed, a weekend, and the days after it.
AroundWeekend == (-2..2) \cup (5..7)

=============================================================================
