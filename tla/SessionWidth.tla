---------------------------- MODULE SessionWidth ----------------------------
(***************************************************************************)
(* Sessions that never landed, or landed narrow, and the nightly heal that *)
(* refills them: doctor._continuity_findings over one dataset whose        *)
(* contract can be refilled (contracts.Refill slot or kind, refill_narrow).*)
(*                                                                         *)
(* The trading days are numbered; those up to Lead come before the window  *)
(* and only serve as a baseline, the last one is the session that is being *)
(* written.                                                                *)
(***************************************************************************)
EXTENDS CoverageAxes

CONSTANTS
    LastDay, Lead,
    Full, Low,          \* symbols of a whole and of a narrow session
    Stuck,              \* days for which the vendor has a narrow session and no more
    MaxPrescribed,      \* CONTINUITY_MAX_PRESCRIBED
    MaxFails            \* bound: refills and reads that fail

VARIABLES width,        \* [days -> symbols held], 0 for no rows
          refills,      \* days whose refill is queued
          misses        \* how many reads and refills failed

vars == <<width, refills, misses>>

Calendar == 1..LastDay
Window   == (Lead + 1)..LastDay

-----------------------------------------------------------------------------
\* per_day_breadth: the days that have rows.
Present == {d \in Calendar : width[d] > 0}

\* missing_sessions, inside the observed span.
Absent ==
    LET held == {d \in Window : width[d] > 0}
    IN  IF held = {} THEN {} ELSE {d \in Window : width[d] = 0} \cap (Min(held)..Max(held))

\* Mutant of Recovers: every one of the sessions after it has to be wide.
RecoversThroughout(d) == \A e \in After(Present, d) : 100 * width[d] < 85 * width[e]

\* Something after the day is wider, or nothing is after it.
Recovers(d) ==
    \/ After(Present, d) = {}
    \/ \E e \in After(Present, d) : 100 * width[d] < 85 * width[e]

\* narrow_days, of the sessions in the window that are no longer being written.
Narrow == {d \in (Present \cap Window) \ {LastDay} :
              BelowTrailing(width, Present, d, 85, 100) /\ Recovers(d)}

Oldest(n, S) == {d \in S : Cardinality({e \in S : e < d}) < n}

-----------------------------------------------------------------------------
\* Holes are no longer than the neighbourhood and end before the session of tonight.
Mendable(w) ==
    \A d \in Window \ {LastDay} : w[d] < Full =>
        \E e \in (d + 1)..(d + Neighbourhood) : e < LastDay /\ e \notin Stuck /\ w[e] = Full

Init ==
    /\ width \in {w \in [Calendar -> {0, Low, Full}] :
                    /\ \A d \in 1..Lead : w[d] = Full
                    /\ \A d \in Stuck : w[d] = Low
                    /\ w[Lead + 1] > 0
                    /\ Mendable(w)}
    /\ refills = {} /\ misses = 0

Misses == misses < MaxFails /\ misses' = misses + 1

\* heal: the oldest of what is missing or narrow, as many as the cap allows.  Either read
\* may fail; what could not be read is neither cleared nor prescribed.
Heal(presence, breadth) ==
    /\ \E due \in {IF ~presence THEN {} ELSE IF breadth THEN Absent \cup Narrow ELSE Absent} :
          refills' = refills \cup Oldest(MaxPrescribed, due)
    /\ IF presence /\ breadth THEN UNCHANGED misses ELSE Misses
    /\ UNCHANGED width

\* The slot's or the kind's jobs for that day: upserts of all that the vendor has.
Refill(d) ==
    /\ d \in refills /\ refills' = refills \ {d}
    /\ width' = [width EXCEPT ![d] = IF d \in Stuck THEN Low ELSE Full]
    /\ UNCHANGED misses

RefillFails(d) ==
    /\ d \in refills /\ refills' = refills \ {d}
    /\ Misses
    /\ UNCHANGED width

\* Tonight's batch drains.
Lands == /\ width[LastDay] < Full
         /\ width' = [width EXCEPT ![LastDay] = Full]
         /\ UNCHANGED <<refills, misses>>

Next ==
    \/ \E presence, breadth \in BOOLEAN : Heal(presence, breadth)
    \/ \E d \in Window : Refill(d) \/ RefillFails(d)
    \/ Lands

\* The heal runs every night, and the jobs it queues are run.
Fairness == WF_vars(Heal(TRUE, TRUE)) /\ \A d \in Window : WF_vars(Refill(d))

FairSpec == Init /\ [][Next]_vars /\ Fairness

-----------------------------------------------------------------------------
(***************************************************************************)
(* Properties                                                              *)
(***************************************************************************)
TypeOK ==
    /\ width \in [Calendar -> {0, Low, Full}]
    /\ refills \subseteq Window
    /\ misses \in 0..MaxFails

\* Every hole that ends within the neighbourhood is filled by repeated heals, although the
\* later days of a long one are not seen before the earlier ones are full, and although a
\* day the vendor will not widen is prescribed again every night.
HolesFill == <>[](\A d \in Window \ (Stuck \cup {LastDay}) : width[d] = Full)

=============================================================================
