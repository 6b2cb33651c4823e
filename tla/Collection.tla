----------------------------- MODULE Collection -----------------------------
(***************************************************************************)
(* The parts that keep a session's options: the evening's collection under *)
(* the doctor's eyes, the chain of pages of one snapshot, the plan that    *)
(* fills past months, the slots that buy bars name by name, and the slot   *)
(* that trims what is past its window.  Their tables are apart: a          *)
(* behaviour explores one part and leaves the others where they started.   *)
(***************************************************************************)
EXTENDS SnapshotChain, FiniteSets

CONSTANTS
    ChainNames, NearMoney, MayRetire, EveningFaults,                          \* EodEvening
    DeepNames, DepthOf, OnSale, PriceWindow, DteMonths, GraceMonths,          \* OptionDepth
    PlanRetry, DepthFaults,
    KeptRows, WorkDays, OpenDays, FirstDay, FinalDay, MonthDays,              \* Retention
    IntradayDays, SessionsKept, DaysKept, MonthsBack, MonthsAhead,
    TradingDays, LastTradingDay, BackfillDays, Ladder, OneContract, ClosingPrices, \* BarsCatchUp
    LentClose, FrontExpiries, StrikesAside, NearDays, ShallowDays, MaxWaiting

VARIABLES
    part,
    retired, phase, intraday, eveJob, rows, bars, pull, report, eveFails,     \* EodEvening
    recent, held, note, plans, fetches, fails,                                \* OptionDepth
    mode, owned, today, row, parts, step, keep,                               \* Retention
    series, night, role, watched, spot, fired, ok, have, asked                \* BarsCatchUp

eveVars  == <<retired, phase, intraday, eveJob, rows, bars, pull, report, eveFails>>
monthVars == <<recent, held, note, plans, fetches, fails>>
trimVars == <<mode, owned, today, row, parts, step, keep>>
barVars  == <<series, night, role, watched, spot, fired, ok, have, asked>>
allVars  == <<part, vars, eveVars, monthVars, trimVars, barVars>>

Eve == INSTANCE EodEvening WITH
    Names <- ChainNames, Windowed <- NearMoney, Dead <- MayRetire, MaxFails <- EveningFaults,
    job <- eveJob, fails <- eveFails

Months == INSTANCE OptionDepth WITH
    Names <- DeepNames, Need <- DepthOf, Catalogue <- OnSale, Window <- PriceWindow,
    Ahead <- DteMonths, Grace <- GraceMonths, Retry <- PlanRetry, MaxFails <- DepthFaults

Trim == INSTANCE Retention WITH
    Rows <- KeptRows, Weekdays <- WorkDays, Open <- OpenDays, Start <- FirstDay,
    MaxDay <- FinalDay, MonthLen <- MonthDays, Intraday <- IntradayDays,
    Keep <- SessionsKept, RetentionDays <- DaysKept, Back <- MonthsBack, Ahead <- MonthsAhead

Bars == INSTANCE BarsCatchUp WITH
    Sessions <- TradingDays, Horizon <- LastTradingDay, Back <- BackfillDays,
    Catalogue <- Ladder, Contract <- OneContract, Spots <- ClosingPrices, Proxy <- LentClose,
    Expiries <- FrontExpiries, Side <- StrikesAside, MinDays <- NearDays,
    ShallowDte <- ShallowDays, day <- night, held <- have

Parts == {"evening", "depth", "pages", "trim", "bars"}

-----------------------------------------------------------------------------
(* What the constants must be for the theorems.                             *)

\* Pages are numbers above 0, of which 1 is one; a job asks for one at least and is tried
\* once at least.
VendorAssumption ==
    /\ Pages \subseteq Nat \ {0} /\ 1 \in Pages
    /\ MaxPages \in Nat \ {0} /\ MaxDepth \in Nat /\ MaxAttempts \in Nat \ {0}
    /\ MaxRetries \in Nat /\ MaxRuns \in Nat
    /\ Vendors \subseteq [Pages -> Pages \cup {0}]

EveningAssumption == EveningFaults \in Nat

DepthAssumption ==
    /\ PlanRetry \in Nat /\ DepthFaults \in Nat /\ DteMonths \in Nat
    /\ \A n \in DeepNames : DepthOf[n] \in Nat /\ 0..(DepthOf[n] - 1) \subseteq Months!Months

\* The trading days are numbered up to a last one, and the ladder has finitely many expiries.
BarsAssumption ==
    /\ TradingDays \subseteq Nat /\ BackfillDays \in Nat /\ LastTradingDay \in Nat
    /\ \A d \in TradingDays : d <= LastTradingDay
    /\ 0 \in ClosingPrices
    /\ OneContract \in Ladder /\ IsFiniteSet({k.expiry : k \in Ladder})
    /\ \A k \in Ladder : k.expiry \in Nat
    /\ FrontExpiries \in Nat \ {0} /\ StrikesAside \in Nat

\* No two days in a row after which a third is off; three sessions are kept at least, which
\* have been before the first day, and fewer days of bars than of snapshots.
TrimAssumption ==
    /\ MonthDays \in Nat \ {0} /\ DaysKept \in Nat /\ MonthsBack \in Nat /\ MonthsAhead \in Nat
    /\ FirstDay \in Nat /\ FinalDay \in Nat \ {0} /\ FirstDay <= FinalDay
    /\ WorkDays \in SUBSET Nat /\ IsFiniteSet(WorkDays) /\ OpenDays \subseteq WorkDays
    /\ SessionsKept \in Nat /\ SessionsKept >= 3
    /\ IntradayDays \in Nat /\ IntradayDays < SessionsKept
    /\ \A d \in FirstDay..FinalDay :
          /\ \E e \in WorkDays : d - 2 <= e /\ e <= d
          /\ SessionsKept <= Cardinality({f \in OpenDays : f <= d})
          /\ SessionsKept <= Cardinality({f \in OpenDays : f <= Trim!Latest(WorkDays, d)})

ASSUME CollectionAssumption ==
    /\ VendorAssumption /\ EveningAssumption /\ DepthAssumption /\ BarsAssumption /\ TrimAssumption

-----------------------------------------------------------------------------
Frozen ==
    /\ part' = part
    /\ part # "evening" => UNCHANGED eveVars
    /\ part # "depth"   => UNCHANGED monthVars
    /\ part # "pages"   => UNCHANGED vars
    /\ part # "trim"    => UNCHANGED trimVars
    /\ part # "bars"    => UNCHANGED barVars

\* A part that does not move needs one initial state only.
AllInit ==
    /\ part \in Parts /\ Init /\ Eve!Init /\ Months!Init /\ Trim!Init /\ Bars!Init
    /\ part # "evening" => retired = {}
    /\ part # "depth" => recent = [n \in DeepNames |-> 0] /\ held = [n \in DeepNames |-> {}]
    /\ part # "pages" => next = (CHOOSE v \in Vendors : TRUE) /\ session = "open"
    /\ part # "trim" => mode = "held" /\ owned
    /\ part # "bars" => series = "hours" /\ role = "out"

AllNext ==
    \/ part = "evening" /\ Eve!Next /\ Frozen
    \/ part = "depth"   /\ Months!Next /\ Frozen
    \/ part = "pages"   /\ Next /\ Frozen
    \/ part = "trim"    /\ Trim!Next /\ Frozen
    \/ part = "bars"    /\ Bars!Next /\ Frozen

\* The fairness of each module, for the part that moves.
AllFair ==
    /\ WF_eveVars(part = "evening" /\ Eve!Examine({}))
    /\ WF_eveVars(part = "evening" /\ \E probed \in BOOLEAN : Eve!Heal(probed))
    /\ WF_eveVars(part = "evening" /\ Eve!PullBars("whole"))
    /\ \A n \in ChainNames : /\ WF_eveVars(part = "evening" /\ Eve!Guard(n))
                             /\ WF_eveVars(part = "evening" /\ Eve!Write(n, "whole"))
    /\ WF_monthVars(part = "depth" /\ Months!Depth(FALSE, FALSE))
    /\ WF_monthVars(part = "depth" /\ Months!WeekPasses)
    /\ \A p \in Months!Plans : WF_monthVars(part = "depth" /\ Months!Plan(p))
    /\ \A f \in Months!Fetches : WF_monthVars(part = "depth" /\ Months!Fetch(f))
    /\ \A k \in Payload : WF_vars(part = "pages" /\ Step(k))
    /\ WF_trimVars(part = "trim" /\ Trim!Begin(OpenDays))
    /\ WF_trimVars(part = "trim" /\ (Trim!SnapshotsFail \/ Trim!StepFails))
    /\ SF_trimVars(part = "trim" /\ Trim!PurgeIntraday(Trim!Intradays))
    /\ SF_trimVars(part = "trim" /\ Trim!PurgeRows(Trim!Snapshots))
    /\ SF_trimVars(part = "trim" /\ Trim!Pack(Trim!Intradays \cup Trim!Snapshots))
    /\ SF_trimVars(part = "trim" /\ Trim!PurgeDated(Trim!Dated("daily")))
    /\ SF_trimVars(part = "trim" /\ Trim!PurgeHeap(Trim!Dated("heap")))

AllSpec == AllInit /\ [][AllNext]_allVars /\ AllFair

-----------------------------------------------------------------------------
\* The tables, jobs and reports of the parts hold values of their kind.
TypesOK == TypeOK /\ Eve!TypeOK /\ Months!TypeOK /\ Trim!TypeOK /\ Bars!TypeOK


\* What one fire of a slot leaves behind, another takes up: after the close a fire of the
\* evening slot would enqueue every name that no EOD job stands for, and the bars bought name
\* by name have no hole that a later fire will not ask for.
NothingForgotten == Eve!SlotWouldCover /\ Bars!CaughtUp

\* A report that calls the session's EOD data healthy has seen it whole.
GateIsEarned == Eve!GateIsEarned

\* A month that contracts on sale can fill holds a bar in the end.
MonthsFill == part = "depth" => Months!DepthFills

\* No row leaves before its window is over.
WindowKept == Trim!WindowKept

\* A row past its window leaves in the end.
PastWindowLeaves == part = "trim" => Trim!PastWindowLeaves

=============================================================================
