----------------------------- MODULE Observation -----------------------------
(***************************************************************************)
(* The parts that watch the others and mend what is on file: the           *)
(* background cache of the slow pages, the memory of the coverage matrix,  *)
(* what its verdicts say of a table, the sampler of the queue, the doctor  *)
(* who widens narrow sessions, the reads of his report, the labels of a    *)
(* renamed company, and the evidence of the slots.  A behaviour explores   *)
(* one part and leaves the others where they started.                      *)
(***************************************************************************)
EXTENDS SlowCache, FiniteSetsExt

CONSTANTS
    Datasets, Bought, TablesSeen, TablesJudged, Wanted, MarketDays,           \* CoverageHistory
    LastDue, ThisDay, Computing, HistoryRows,
    Nearby, LeastBefore,                                                      \* CoverageAxes
    CountedJobs, SamplerThreads, SampleEvery, SamplesKept, ClockEnd,          \* QueueHistory
    LastSession, LeadSessions, WholeWidth, NarrowWidth, StuckDays,            \* SessionWidth
    HealedAtOnce, HealFaults,
    FiledRows, DamagedRows, DaysOfAnother, DaysAsOld,                         \* RenamedLabels
    Roster, TicksADay, OpenDates, JobsKept, FirstTick, LastTick, SlotFaults,  \* SlotWatch
    ReadFaults                                                                \* DoctorReads

VARIABLES
    part,
    table, rows, ids, pc, reading, head, said,              \* CoverageHistory
    clock, finished, visible, sample, wake, taken,          \* QueueHistory
    width, refills, misses,                                 \* SessionWidth
    traced, ref, asked, stock, label, writing, step, plan,  \* RenamedLabels
    watched, hour, made, bumped, mishaps, ran, active, got, noted,  \* SlotWatch
    left, aborted, budget, unread, at_fault, report         \* DoctorReads

memoryVars == <<table, rows, ids, pc, reading, head, said>>
queueVars  == <<clock, finished, visible, sample, wake, taken>>
widthVars  == <<width, refills, misses>>
labelVars  == <<traced, ref, asked, stock, label, writing, step, plan>>
slotVars   == <<watched, hour, made, bumped, mishaps, ran, active, got, noted>>
reportVars == <<left, aborted, budget, unread, at_fault, report>>
allVars == <<part, vars, memoryVars, queueVars, widthVars, labelVars, slotVars, reportVars>>

\* The memory is exercised with a few tables, the verdicts with many that nobody changes.
Memory == INSTANCE CoverageHistory WITH
    Contract <- Bought, Estates <- TablesSeen, Scope <- Wanted, Sessions <- MarketDays,
    Session <- LastDue, Today <- ThisDay, Computers <- Computing, MaxRows <- HistoryRows,
    Neighbourhood <- Nearby, MinTrailing <- LeastBefore
Tables == INSTANCE CoverageHistory WITH
    Contract <- Bought, Estates <- TablesJudged, Scope <- Wanted, Sessions <- MarketDays,
    Session <- LastDue, Today <- ThisDay, Computers <- Computing, MaxRows <- HistoryRows,
    Neighbourhood <- Nearby, MinTrailing <- LeastBefore

Queue == INSTANCE QueueHistory WITH
    Jobs <- CountedJobs, Samplers <- SamplerThreads, Every <- SampleEvery, Keep <- SamplesKept,
    Horizon <- ClockEnd

Width == INSTANCE SessionWidth WITH
    LastDay <- LastSession, Lead <- LeadSessions, Full <- WholeWidth, Low <- NarrowWidth,
    Stuck <- StuckDays, MaxPrescribed <- HealedAtOnce, MaxFails <- HealFaults,
    Neighbourhood <- Nearby, MinTrailing <- LeastBefore

Label == INSTANCE RenamedLabels WITH
    Rows <- FiledRows, Damaged <- DamagedRows, EarlierLife <- DaysOfAnother,
    OldDays <- DaysAsOld, job <- writing

Evidence == INSTANCE SlotWatch WITH
    Slots <- Roster, PerDay <- TicksADay, Open <- OpenDates, Keep <- JobsKept,
    Start <- FirstTick, Horizon <- LastTick, MaxFaults <- SlotFaults,
    now <- hour, jobs <- made, fresh <- bumped, faults <- mishaps

Doctor == INSTANCE DoctorReads WITH MaxFaults <- ReadFaults, limit <- budget

Parts == {"cache", "memory", "verdicts", "queue", "width", "labels", "slots", "report"}

-----------------------------------------------------------------------------
(* What the constants must be for the theorems.                             *)

MemoryAssumption == HistoryRows \in Nat /\ IsFiniteSet(Computing)
SamplerAssumption == SampleEvery \in Nat \ {0} /\ SamplesKept \in Nat /\ ClockEnd \in Nat
WidthAssumption == HealFaults \in Nat

\* The backlog the repairs find: roots are labels, the catalogue was not damaged and has no
\* contract of the old root, and whoever traded as "live" before stopped before the handover.
LabelAssumption ==
    /\ \A r \in FiledRows : Label!Root(r) \in Label!Labels
    /\ \A c \in Label!Of("contract") : Label!Root(c) # "old"
    /\ DamagedRows \subseteq Label!Of("bars")
    /\ DaysAsOld \subseteq Int /\ DaysOfAnother \subseteq Int
    /\ \E m \in DaysAsOld : \A d \in DaysAsOld \cup DaysOfAnother : d <= m

\* Before the first tick every slot has fired once, and was over with what it fired.
SlotAssumption ==
    /\ IsFiniteSet(Evidence!Names) /\ TicksADay \in Nat \ {0} /\ SlotFaults \in Nat
    /\ FirstTick \in Nat /\ LastTick \in Nat /\ FirstTick <= LastTick
    /\ \A s \in Evidence!Names :
          /\ Roster[s].lag \in Nat
          /\ \E t \in Evidence!Fires(s, 0, FirstTick) : Evidence!Owed(s, t)
          /\ \A t \in Evidence!Fires(s, 0, FirstTick) :
                Evidence!Owed(s, t) => t + Roster[s].lag <= FirstTick

\* A slot whose jobs bear its name makes them at its cron, others within their grace; the
\* doctor polices named slots, and allows them two days or, if they run on all days, more than
\* one and at most three; and a job of the last fire before the first tick is not trimmed
\* before the slot's next fire.
LastFire(s) == Max({t \in Evidence!Fires(s, 0, FirstTick) : Evidence!Owed(s, t)})
RosterAssumption ==
    /\ "none" \notin Evidence!Names /\ JobsKept \in Nat
    /\ \A s \in Evidence!Names :
          LET r == Roster[s]
          IN  /\ r.cron \in 0..(TicksADay - 1) /\ r.grace \in Nat /\ r.lag <= r.grace
              /\ r.gated \in BOOLEAN /\ r.named \in BOOLEAN
              /\ r.named =>
                    /\ r.grace = 0
                    /\ \E g \in Evidence!Fires(s, LastFire(s) + 1, LastFire(s) + JobsKept - 1) :
                          Evidence!Owed(s, g)
              /\ r.limit \in Nat
              /\ r.limit > 0 =>
                    /\ r.named
                    /\ IF r.gated THEN r.limit = 2 * TicksADay
                                  ELSE r.limit \in (TicksADay + 1)..(3 * TicksADay)

\* Tables are finite and filed under days, and it is known which session was due last; a day
\* is compared with one day at least, and with no more than are looked at.
TableAssumption ==
    /\ IsFiniteSet(Wanted) /\ LastDue \in Nat /\ ThisDay \in Int
    /\ \A t \in TablesJudged : IsFiniteSet(t) /\ \A r \in t : r[1] \in Int
    /\ LeastBefore \in Nat \ {0} /\ Nearby \in Nat /\ LeastBefore <= Nearby

ASSUME ObservationAssumption ==
    /\ MemoryAssumption /\ SamplerAssumption /\ WidthAssumption /\ LabelAssumption
    /\ SlotAssumption /\ RosterAssumption /\ TableAssumption

-----------------------------------------------------------------------------
Frozen ==
    /\ part' = part
    /\ part # "cache"  => UNCHANGED vars
    /\ part # "memory" => UNCHANGED memoryVars
    /\ part # "queue"  => UNCHANGED queueVars
    /\ part # "width"  => UNCHANGED widthVars
    /\ part # "labels" => UNCHANGED labelVars
    /\ part # "slots"  => UNCHANGED slotVars
    /\ part # "report" => UNCHANGED reportVars

\* A part that does not move needs one initial state only.
AllInit ==
    /\ part \in Parts /\ Init /\ Queue!Init
    /\ Width!Init
    /\ part # "width" => \A d \in DOMAIN width \ StuckDays : width[d] = WholeWidth
    /\ Label!Init /\ (part # "labels" => traced)
    /\ Evidence!Init
    /\ part # "slots" => /\ watched = (CHOOSE s \in DOMAIN Roster : TRUE)
                          /\ \A d \in DOMAIN bumped : bumped[d] # Evidence!None
    /\ Doctor!Init /\ (part # "report" => left = Doctor!Script(TRUE, TRUE))
    /\ IF part = "verdicts" THEN Tables!Init ELSE Memory!Init
    /\ part \notin {"memory", "verdicts"} =>
          table = [d \in Datasets |-> CHOOSE t \in TablesSeen : TRUE]

AllNext ==
    \/ part = "cache"  /\ Next /\ Frozen
    \/ part = "memory" /\ Memory!Next /\ Frozen
    \/ part = "queue"  /\ Queue!Next /\ Frozen
    \/ part = "width"  /\ Width!Next /\ Frozen
    \/ part = "labels" /\ Label!Next /\ Frozen
    \/ part = "slots"  /\ Evidence!Next /\ Frozen
    \/ part = "report" /\ Doctor!Next /\ Frozen

\* The fairness of each module, for the part that moves.
AllFair ==
    /\ WF_vars(part = "cache" /\ Tick)
    /\ \A c \in Callers : /\ SF_vars(part = "cache" /\ Look(c))
                          /\ WF_vars(part = "cache" /\ StartRefresh(c))
                          /\ WF_vars(part = "cache" /\ CallerComputes(c))
                          /\ WF_vars(part = "cache" /\ CallerStores(c))
    /\ \A t \in Threads : /\ WF_vars(part = "cache" /\ ThreadStep(t))
                          /\ SF_vars(part = "cache" /\ ThreadComputes(t))
    /\ WF_widthVars(part = "width" /\ Width!Heal(TRUE, TRUE))
    /\ \A d \in Width!Window : WF_widthVars(part = "width" /\ Width!Refill(d))
    /\ WF_labelVars(part = "labels" /\ Label!Write)
    /\ WF_labelVars(part = "labels" /\ Label!Arrives)
    /\ WF_labelVars(part = "labels" /\ Label!Goes)
    /\ SF_labelVars(part = "labels" /\ Label!Restore(Label!Misfiled))
    /\ SF_labelVars(part = "labels" /\ Label!CopyBars)
    /\ SF_labelVars(part = "labels" /\ Label!MoveTable("bars", TRUE, "contract"))
    /\ SF_labelVars(part = "labels" /\ Label!MoveTable("contract", TRUE, "roots"))
    /\ SF_labelVars(part = "labels" /\ \E p \in plan : Label!Rewrite(p, Label!Matching(p)))

AllSpec == AllInit /\ [][AllNext]_allVars /\ AllFair

-----------------------------------------------------------------------------
\* The record, the samples and the sessions hold values of their kind.
TypesOK ==
    /\ IF part = "verdicts" THEN Tables!TypeOK ELSE Memory!TypeOK
    /\ TypeOK /\ Queue!TypeOK /\ Width!TypeOK /\ Label!TypeOK
    /\ Evidence!TypeOK /\ Doctor!TypeOK

\* The record tells what was measured last.
Remembered == part = "memory" => Memory!Remembered

\* Four healthy verdicts mean what a reader takes them to mean.
HealthyIsSolid == part = "verdicts" => Tables!OkIsSolid

\* No finish is counted by two rows of the series.
CountedOnce == Queue!CountedOnce

\* Once the data stops changing, the cache comes to hold its last version, unless a thread
\* could not be started.
CacheEndsFresh == part = "cache" => EventuallyFresh

\* Every narrow or missing session is filled by repeated heals.
HolesFill == part = "width" => Width!HolesFill

\* No row is filed under a company it has nothing to do with.
CompaniesApart == Label!CompaniesApart

\* A company's rows end under one label, and its bars under one symbol.
LabelsSettle == part = "labels" => Label!LabelsSettle

\* A stopped slot is found, and one that works is not blamed.
StoppedIsFound == Evidence!StoppedIsFound

\* A read that fails costs the report no check but its own.
FaultsStayApart == Doctor!FaultsStayApart

=============================================================================
