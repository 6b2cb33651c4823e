------------------------------ MODULE SplitMend ------------------------------
(***************************************************************************)
(* Splits: the vendor lists them, corporate_action holds them, and daily   *)
(* bars fetched before one went ex have to be pulled again.                *)
(*                                                                         *)
(* The splits of a symbol are numbered as they go ex.  A bar is known by   *)
(* its scale: how many of them had gone ex when it was fetched, which is   *)
(* what the vendor's adjusted=true answer was adjusted for.                *)
(***************************************************************************)
EXTENDS Integers, FiniteSets

CONSTANTS
    Symbols, MaxSplits,
    Orphans,        \* symbols with bars that the vendor no longer returns
    Retry,          \* SPLIT_RESTATE_RETRY_DAYS
    MaxFails        \* bound: jobs that fail, notes that are lost

VARIABLES
    feed,       \* [Symbols -> how many of its splits the vendor lists]
    ex,         \* [Symbols -> how many have gone ex]
    known,      \* [Symbols -> how many are in corporate_action]
    scales,     \* [Symbols -> the scales of its bars in stock_daily]
    note,       \* [Symbols -> [splits -> age of the split_restate void, or NoNote]]
    asking,     \* symbols that a splits or splits_market job waits to ask about
    pulls,      \* stock_daily jobs that wait, <<symbol, the split it mends>>
    fails       \* how many failed

vars == <<feed, ex, known, scales, note, asking, pulls, fails>>

Splits == 1..MaxSplits
NoNote == Retry + 2         \* ages past Retry are all alike: Retry + 1
Pulls  == Symbols \X Splits

-----------------------------------------------------------------------------
\* The latest split that is on file and has gone ex.
Due(s) == IF known[s] < ex[s] THEN known[s] ELSE ex[s]

\* load_split_restatements: symbols with bars fetched before that split went ex.
Torn(s) == \E n \in scales[s] : n < Due(s)

\* load_voids_by_prefix: what was queued lately.
Noted(s, k) == note[s][k] <= Retry


Restated == {s \in Symbols : Torn(s) /\ ~Noted(s, Due(s))}

-----------------------------------------------------------------------------
Init ==
    /\ feed = [s \in Symbols |-> 0] /\ ex = feed /\ known = feed
    /\ scales = [s \in Symbols |-> {0}]
    /\ note = [s \in Symbols |-> [k \in Splits |-> NoNote]]
    /\ asking = {} /\ pulls = {} /\ fails = 0

Fails == fails < MaxFails /\ fails' = fails + 1

\* enqueue_slot("corporate"): one insert of every job, then a note for each re-pull, which
\* may get lost.  What is torn is read before the night's splits_market has run.
Corporate(lost) ==
    /\ asking' = Symbols
    /\ pulls' = pulls \cup {<<s, Due(s)>> : s \in Restated}
    /\ note' = [s \in Symbols |-> IF s \in Restated \ lost THEN [note[s] EXCEPT ![Due(s)] = 0]
                                  ELSE note[s]]
    /\ IF lost = {} THEN UNCHANGED fails ELSE Fails
    /\ UNCHANGED <<feed, ex, known, scales>>

\* handle_splits_market, or handle_splits of the monthly corporate-backfill: upserts alone.
LearnSplits(S) ==
    /\ S # {} /\ S \subseteq asking /\ asking' = asking \ S
    /\ known' = [s \in Symbols |-> IF s \in S THEN feed[s] ELSE known[s]]
    /\ UNCHANGED <<feed, ex, scales, note, pulls, fails>>

Takes(p) == p \in pulls /\ pulls' = pulls \ {p}

\* handle_stock_daily over the span of the bars that were torn when it was queued.
Repull(p) ==
    /\ Takes(p)
    /\ LET torn == {n \in scales[p[1]] : n < p[2]}
       IN  scales' = [scales EXCEPT ![p[1]] = (@ \ torn) \cup {ex[p[1]]}
                                                \cup (IF p[1] \in Orphans THEN torn ELSE {})]
    /\ UNCHANGED <<feed, ex, known, note, asking, fails>>

\* The re-pull runs out of attempts.
RepullFails(p) ==
    /\ Takes(p) /\ Fails
    /\ UNCHANGED <<feed, ex, known, scales, note, asking>>

\* The night's bar, at today's scale: handle_stock_daily_grouped.
NewBar(s) ==
    /\ scales' = [scales EXCEPT ![s] = @ \cup {ex[s]}]
    /\ UNCHANGED <<feed, ex, known, note, asking, pulls, fails>>

DayPasses ==
    /\ note' = [s \in Symbols |->
                  [k \in Splits |-> IF note[s][k] <= Retry THEN note[s][k] + 1 ELSE note[s][k]]]
    /\ UNCHANGED <<feed, ex, known, scales, asking, pulls, fails>>

\* The vendor's own steps; a split may be listed before or after it goes ex.
ListsSplit(s) ==
    /\ feed[s] < MaxSplits /\ feed' = [feed EXCEPT ![s] = @ + 1]
    /\ UNCHANGED <<ex, known, scales, note, asking, pulls, fails>>

GoesEx(s) ==
    /\ ex[s] < MaxSplits /\ ex' = [ex EXCEPT ![s] = @ + 1]
    /\ UNCHANGED <<feed, known, scales, note, asking, pulls, fails>>

-----------------------------------------------------------------------------
Next ==
    \/ \E lost \in SUBSET Symbols : Corporate(lost)
    \/ \E S \in SUBSET Symbols : LearnSplits(S)
    \/ \E p \in Pulls : Repull(p) \/ RepullFails(p)
    \/ DayPasses
    \/ \E s \in Symbols : NewBar(s) \/ ListsSplit(s) \/ GoesEx(s)

\* The cron fires, days pass and re-pulls that wait are run.
Fairness ==
    /\ WF_vars(Corporate({})) /\ WF_vars(DayPasses)
    /\ \A p \in Pulls : WF_vars(Repull(p))

FairSpec == Init /\ [][Next]_vars /\ Fairness

-----------------------------------------------------------------------------
(***************************************************************************)
(* Properties                                                              *)
(***************************************************************************)
TypeOK ==
    /\ {feed, ex, known} \subseteq [Symbols -> 0..MaxSplits]
    /\ scales \in [Symbols -> SUBSET (0..MaxSplits)]
    /\ note \in [Symbols -> [Splits -> 0..NoNote]]
    /\ asking \subseteq Symbols /\ pulls \subseteq Pulls /\ fails \in 0..MaxFails


=============================================================================
