------------------------------ MODULE Dividends ------------------------------
(***************************************************************************)
(* The dividends of corporate_action: the corporate slot asks every night  *)
(* for the window around today, corporate-backfill every month for each    *)
(* symbol, and both replace what they cover by what the vendor listed.     *)
(* A worker holds the answer in its hands before it writes, and the two    *)
(* jobs run beside each other.                                             *)
(***************************************************************************)
EXTENDS Integers, FiniteSets

CONSTANTS
    Payouts,        \* [dividends -> symbol]
    Near,           \* dividends whose ex-date is in the nightly window
    Lasting,        \* dividends the vendor lists all along
    MaxFails        \* bound: answers cut short by the page cap, and jobs that fail

Dividend == DOMAIN Payouts
Symbols  == {Payouts[d] : d \in Dividend}
Market   == "market"
Jobs     == Symbols \cup {Market}

VARIABLES
    listed,     \* dividends the vendor lists
    held,       \* dividends on file
    asking,     \* jobs that wait
    answers,    \* answers that workers hold, <<job, dividends, truncated>>
    fails       \* how many were cut or failed

vars == <<listed, held, asking, answers, fails>>

Covered(j) == IF j = Market THEN Near ELSE {d \in Dividend : Payouts[d] = j}

-----------------------------------------------------------------------------
Init ==
    /\ listed \in {L \in SUBSET Dividend : Lasting \subseteq L}
    /\ held = {} /\ asking = {} /\ answers = {} /\ fails = 0

Busy(j) == j \in asking \/ \E a \in answers : a[1] = j

\* enqueue_slot: "corporate" asks for the window, "corporate-backfill" for each symbol.
Corporate ==
    /\ asking' = asking \cup {j \in {Market} : ~Busy(j)}
    /\ UNCHANGED <<listed, held, answers, fails>>

CorporateBackfill ==
    /\ asking' = asking \cup {j \in Symbols : ~Busy(j)}
    /\ UNCHANGED <<listed, held, answers, fails>>

\* client.fetch_dividends, fetch_dividends_market: whole, or the first pages.
Fetch(j, rows, truncated) ==
    /\ j \in asking /\ asking' = asking \ {j}
    /\ IF truncated THEN /\ rows \subseteq Covered(j) \cap listed
                         /\ fails < MaxFails /\ fails' = fails + 1
                    ELSE rows = Covered(j) \cap listed /\ UNCHANGED fails
    /\ answers' = answers \cup {<<j, rows, truncated>>}
    /\ UNCHANGED <<listed, held>>

Ends(a) == a \in answers /\ answers' = answers \ {a}

\* What an answer deletes: nothing unless it is whole and not empty.
Unlisted(a) == IF a[2] = {} \/ a[3] THEN {} ELSE Covered(a[1]) \ a[2]

\* Mutant of Replace: rows are only ever upserted, as for splits.
UpsertAlone(a) ==
    /\ Ends(a)
    /\ held' = held \cup a[2]
    /\ UNCHANGED <<listed, asking, fails>>

\* _replace_dividends: upsert and delete in one transaction.
Replace(a) ==
    /\ Ends(a)
    /\ held' = (held \ Unlisted(a)) \cup a[2]
    /\ UNCHANGED <<listed, asking, fails>>

\* The transaction is rolled back and the job is out of attempts.
Fail(a) ==
    /\ Ends(a) /\ fails < MaxFails /\ fails' = fails + 1
    /\ UNCHANGED <<listed, held, asking>>

\* The vendor's own steps: it lists a dividend, or withdraws or re-dates one.
Lists(d) ==
    /\ d \notin listed /\ listed' = listed \cup {d}
    /\ UNCHANGED <<held, asking, answers, fails>>

Withdraws(d) ==
    /\ d \in listed \ Lasting /\ listed' = listed \ {d}
    /\ UNCHANGED <<held, asking, answers, fails>>

-----------------------------------------------------------------------------
Answers == {<<j, rows, truncated>> : j \in Jobs, rows \in SUBSET Dividend, truncated \in BOOLEAN}

Next ==
    \/ Corporate \/ CorporateBackfill
    \/ \E j \in Jobs, rows \in SUBSET Dividend, truncated \in BOOLEAN : Fetch(j, rows, truncated)
    \/ \E a \in answers : Replace(a) \/ Fail(a)
    \/ \E d \in Dividend : Lists(d) \/ Withdraws(d)

Writes(j) == \E a \in answers : a[1] = j /\ Replace(a)

\* Both crons fire, workers run what waits, and not every answer is cut short.
Fairness ==
    /\ WF_vars(Corporate) /\ WF_vars(CorporateBackfill)
    /\ \A j \in Jobs : /\ WF_vars(\E rows \in SUBSET Dividend : Fetch(j, rows, FALSE))
                       /\ WF_vars(Writes(j))

FairSpec == Init /\ [][Next]_vars /\ Fairness

-----------------------------------------------------------------------------
(***************************************************************************)
(* Properties                                                              *)
(***************************************************************************)
TypeOK ==
    /\ listed \subseteq Dividend /\ held \subseteq Dividend /\ asking \subseteq Jobs
    /\ \A a \in answers : a[1] \in Jobs /\ a[2] \subseteq Covered(a[1]) /\ a[3] \in BOOLEAN
    /\ fails \in 0..MaxFails

\* What the file says settles on what the vendor lists, although a worker may write an
\* answer that is older than what another has written since.  A symbol whose whole
\* history was withdrawn keeps it: an empty answer deletes nothing.
DividendsSettle ==
    \A d \in Dividend :
        /\ <>[](d \in listed) => <>[](d \in held)
        /\ <>[](d \notin listed /\ \E j \in Jobs : d \in Covered(j) /\ Covered(j) \cap Lasting # {})
              => <>[](d \notin held)

=============================================================================
