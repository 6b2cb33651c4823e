-------------------------- MODULE ContractCatalogue --------------------------
(***************************************************************************)
(* How the catalogue of option contracts is kept fresh: the option-refresh *)
(* slot picks the names, the option_contract handler walks the vendor's    *)
(* listing of each, and what it finds decides who is picked next.          *)
(*                                                                         *)
(* option_contract.updated_at is kept as an order: stamp[s] ranks the      *)
(* underlyings by their newest row, 0 for one without rows.  The "no       *)
(* listed options" note of a name is its age in days.                      *)
(***************************************************************************)
EXTENDS Integers, FiniteSets, Sequences

CONSTANTS
    Rule,           \* research.option_universe, in the order of its query
    Benchmarks,     \* iv_radar_benchmarks
    Stored,         \* what a name's contracts are filed under: itself, or what it was renamed to
    TooLong,        \* names whose listing exceeds the page cap
    Later,          \* names that have no listed options at first, and may get them
    MaxNew, Batch,  \* max_new_per_run, batch_size
    Recheck,        \* NO_LISTED_OPTIONS_RECHECK_DAYS
    Asked,          \* names somebody may ask for through the API, with a payload of its own
    MaxFails        \* bound: how many jobs fail, or lose their note

Universe == {Rule[i] : i \in DOMAIN Rule}
Names    == Universe \cup Benchmarks \cup {Stored[s] : s \in DOMAIN Stored}
Sources  == {"slot", "api"}

ASSUME CatalogueAssumption ==
    /\ \A i, j \in DOMAIN Rule : Rule[i] = Rule[j] => i = j
    /\ Stored \in [Universe \cup Benchmarks -> Names]
    /\ TooLong \cup Later \cup Asked \subseteq Universe \cup Benchmarks
    /\ MaxNew \in Nat /\ Batch \in Nat /\ Recheck \in Nat
    /\ MaxFails \in Nat

VARIABLES
    listed,     \* names the vendor lists options for
    stamp,      \* [Names -> rank of the newest row, 0 for none]
    note,       \* [Names -> age of its void, or NoNote]
    pending,    \* option_contract jobs that wait, <<name, source>>
    walks,      \* walks under way and what the vendor answered, <<name, source, answer>>
    fails       \* how many jobs failed

vars == <<listed, stamp, note, pending, walks, fails>>

Jobs    == (Universe \cup Benchmarks) \X Sources
Answers == {"rows", "empty", "cut"}
NoNote  == Recheck + 2          \* ages past Recheck are all alike: Recheck + 1

-----------------------------------------------------------------------------
Latest == CHOOSE n \in {stamp[s] : s \in Names} : \A s \in Names : stamp[s] <= n

\* UPDATE ... SET updated_at = now(), with the ranks kept dense.
Written(s) ==
    LET fresh == [stamp EXCEPT ![s] = Latest + 1]
        Below(t) == {fresh[u] : u \in {v \in Names : fresh[v] # 0 /\ fresh[v] <= fresh[t]}}
    IN  [t \in Names |-> Cardinality(Below(t))]

Position(s) == CHOOSE i \in DOMAIN Rule : Rule[i] = s
First(S, n, Before(_, _)) ==
    UNION {{s \in T : Cardinality({t \in T : Before(t, s)}) < n} : T \in {S}}

\* enumerated_underlyings: rows on file, or a verdict of any age.
Enumerated == {s \in Names : stamp[s] # 0 \/ note[s] # NoNote}
\* load_voided_symbols
NoOptions == {s \in Names : note[s] <= Recheck}

\* Never enumerated before any timestamp, then the oldest, then by name.
Staler(s, t)  == \/ stamp[s] < stamp[t]
                 \/ stamp[s] = stamp[t] /\ Position(s) < Position(t)
Earlier(s, t) == Position(s) < Position(t)

\* Names nobody has enumerated, up to the cap; none when that cannot be read.
Newcomers(blind) ==
    IF "contracts" \in blind THEN {}
    ELSE First(Universe \ (Enumerated \cup Benchmarks \cup NoOptions), MaxNew, Earlier)

\* Mutant of Candidates: in the order of the universe, whatever was walked last.
CandidatesByName(blind, fresh, offset) ==
    First(Universe \ (Benchmarks \cup fresh \cup NoOptions), Batch, Earlier)

\* The stalest of the others; rotated by the date when that cannot be read.
Candidates(blind, fresh, offset) ==
    LET Turn(s)       == (Position(s) - 1 + Len(Rule) - offset) % Len(Rule)
        Rotated(s, t) == Turn(s) < Turn(t)
        pool          == Universe \ (Benchmarks \cup fresh \cup NoOptions)
    IN  IF "stalest" \in blind THEN First(pool, Batch, Rotated) ELSE First(pool, Batch, Staler)

\* A job that is pending or running makes its INSERT a no-op.
Free(k) == k \notin pending /\ \A w \in walks : <<w[1], w[2]>> # k

-----------------------------------------------------------------------------
Init ==
    /\ listed = (Universe \cup Benchmarks) \ Later
    /\ stamp = [s \in Names |-> 0] /\ note = [s \in Names |-> NoNote]
    /\ pending = {} /\ walks = {} /\ fails = 0

\* enqueue_slot("option-refresh"); blind: the reads that time out, offset: the date's hash.
Refresh(blind, offset) ==
    /\ \E fresh \in {Newcomers(blind)} : \E seats \in {Candidates(blind, fresh, offset)} :
          pending' = pending \cup {k \in (Benchmarks \cup fresh \cup seats) \X {"slot"} : Free(k)}
    /\ UNCHANGED <<listed, stamp, note, walks, fails>>

Ask(s) ==
    /\ Free(<<s, "api">>) /\ pending' = pending \cup {<<s, "api">>}
    /\ UNCHANGED <<listed, stamp, note, walks, fails>>

\* The handler asks the vendor.  What it writes comes later, from the answer it has now.
Begin(k) ==
    /\ k \in pending
    /\ pending' = pending \ {k}
    /\ LET answer == IF k[1] \notin listed THEN "empty"
                     ELSE IF k[1] \in TooLong THEN "cut" ELSE "rows"
       IN  walks' = walks \cup {<<k[1], k[2], answer>>}
    /\ UNCHANGED <<listed, stamp, note, fails>>

Ends(w) == w \in walks /\ walks' = walks \ {w}

\* Contracts and expiries in one transaction, then the verdict in one of its own.
\* reject_truncated_catalogue raises before anything is written.
Finish(w) ==
    /\ Ends(w)
    /\ \/ /\ w[3] = "rows" /\ stamp' = Written(Stored[w[1]])
          /\ note' = [note EXCEPT ![w[1]] = NoNote]
       \/ /\ w[3] = "empty" /\ note' = [note EXCEPT ![w[1]] = 0]
          /\ UNCHANGED stamp
       \/ w[3] = "cut" /\ UNCHANGED <<stamp, note>>
    /\ UNCHANGED <<listed, pending, fails>>

\* The job runs out of attempts, or the note is lost (record_symbol_void swallows errors).
Fail(w) ==
    /\ fails < MaxFails /\ fails' = fails + 1
    /\ Ends(w)
    /\ \/ UNCHANGED stamp
       \/ w[3] = "rows" /\ stamp' = Written(Stored[w[1]])
    /\ UNCHANGED <<listed, note, pending>>

DayPasses ==
    /\ note' = [s \in Names |-> IF note[s] <= Recheck THEN note[s] + 1 ELSE note[s]]
    /\ UNCHANGED <<listed, stamp, pending, walks, fails>>

\* The vendor's own step: options of a name get listed.
GetsListed(s) ==
    /\ s \in Later \ listed /\ listed' = listed \cup {s}
    /\ UNCHANGED <<stamp, note, pending, walks, fails>>

-----------------------------------------------------------------------------
Blinds  == {{}, {"contracts"}, {"stalest"}, {"contracts", "stalest"}}
Offsets == 0..(Len(Rule) - 1)
Walks   == {<<k[1], k[2], a>> : k \in Jobs, a \in Answers}

Next ==
    \/ \E blind \in Blinds : \E offset \in IF "stalest" \in blind THEN Offsets ELSE {0} :
            Refresh(blind, offset)
    \/ \E s \in Asked : Ask(s)
    \/ \E k \in Jobs : Begin(k)
    \/ \E w \in Walks : Finish(w) \/ Fail(w)
    \/ DayPasses
    \/ \E s \in Later : GetsListed(s)

\* The cron fires and its reads succeed, workers claim and finish, days pass.
Fairness ==
    /\ WF_vars(Refresh({}, 0)) /\ WF_vars(DayPasses)
    /\ \A k \in Jobs : WF_vars(Begin(k))
    /\ \A k \in Jobs : WF_vars(\E a \in Answers : Finish(<<k[1], k[2], a>>))

FairSpec == Init /\ [][Next]_vars /\ Fairness

-----------------------------------------------------------------------------
(***************************************************************************)
(* Properties                                                              *)
(***************************************************************************)
TypeOK ==
    /\ listed \subseteq Universe \cup Benchmarks
    /\ stamp \in [Names -> 0..Cardinality(Names)] /\ note \in [Names -> 0..NoNote]
    /\ pending \subseteq Jobs /\ walks \subseteq Walks /\ fails \in 0..MaxFails

\* Every name with listed options that can be walked is walked again and again.  Neither a
\* name that can never be walked, nor one whose rows are filed under its successor, nor a
\* note that a slow walk left after a quicker one had found options, keeps it out: it
\* needs fewer of those than a batch has seats.
CatalogueTurns ==
    \A s \in {t \in Universe \cup Benchmarks : t \notin TooLong /\ Stored[t] = t} :
        [](s \in listed => <>(stamp[s] # 0 /\ stamp[s] = Latest))

=============================================================================
