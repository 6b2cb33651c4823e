------------------------------- MODULE Listing -------------------------------
(***************************************************************************)
(* The parts that keep the lists: the contract catalogue, the ticker book, *)
(* splits and dividends.  Their tables are apart and no handler of one     *)
(* touches those of another, so a behaviour explores one part and leaves   *)
(* the others where they started.                                          *)
(***************************************************************************)
EXTENDS ContractCatalogue

CONSTANTS
    Tickers, RankOf, WithOptions, FundTickers, Undated, AlwaysTrading,        \* TickerBook
    NoAnswer, DetailsBatch, LookupsPerRun, BookFaults,
    SplitSymbols, SplitsListed, NotReturned, PullRetry, MendFaults,           \* SplitMend
    PaidBy, InWindow, AlwaysListed, DividendFaults                            \* Dividends

VARIABLES
    part,
    trading, closing, row, bookStamp, jobs, bookFails,                \* TickerBook
    feed, ex, known, scales, mendNote, mendAsking, pulls, mendFails,  \* SplitMend
    paid, held, asking, answers, dividendFails                        \* Dividends

bookVars == <<trading, closing, row, bookStamp, jobs, bookFails>>
mendVars == <<feed, ex, known, scales, mendNote, mendAsking, pulls, mendFails>>
payVars  == <<paid, held, asking, answers, dividendFails>>
allVars  == <<part, vars, bookVars, mendVars, payVars>>

Book == INSTANCE TickerBook WITH
    Symbols <- Tickers, Place <- RankOf, Optioned <- WithOptions, Funds <- FundTickers,
    Blank <- Undated, Steady <- AlwaysTrading, Silent <- NoAnswer, BatchSize <- DetailsBatch,
    PerRun <- LookupsPerRun, MaxFails <- BookFaults, stamp <- bookStamp, fails <- bookFails

Mend == INSTANCE SplitMend WITH
    Symbols <- SplitSymbols, MaxSplits <- SplitsListed, Orphans <- NotReturned,
    Retry <- PullRetry, MaxFails <- MendFaults,
    note <- mendNote, asking <- mendAsking, fails <- mendFails

Pay == INSTANCE Dividends WITH
    Payouts <- PaidBy, Near <- InWindow, Lasting <- AlwaysListed, MaxFails <- DividendFaults,
    listed <- paid, fails <- dividendFails

Parts == {"catalogue", "book", "splits", "dividends"}

-----------------------------------------------------------------------------
(* What the constants must be for the theorems: the lists the slots query   *)
(* are finite, and the names with options are among the tickers.            *)

CatalogueFinite == IsFiniteSet(Names)
BookAssumption == IsFiniteSet(Tickers) /\ BookFaults \in Nat /\ WithOptions \subseteq Tickers
MendAssumption == MendFaults \in Nat /\ SplitsListed \in Nat /\ PullRetry \in Nat
PayAssumption  == DividendFaults \in Nat /\ InWindow \subseteq Pay!Dividend

ASSUME ListingAssumption ==
    CatalogueFinite /\ BookAssumption /\ MendAssumption /\ PayAssumption

-----------------------------------------------------------------------------
Frozen ==
    /\ part' = part
    /\ part # "catalogue" => UNCHANGED vars
    /\ part # "book"      => UNCHANGED bookVars
    /\ part # "splits"    => UNCHANGED mendVars
    /\ part # "dividends" => UNCHANGED payVars

\* A part that does not move needs one initial state only.
AllInit ==
    /\ part \in Parts /\ Init /\ Book!Init /\ Mend!Init /\ Pay!Init
    /\ part # "book" => trading = AlwaysTrading /\ \A s \in Tickers : row[s] = "none"
    /\ part # "dividends" => paid = AlwaysListed

AllNext ==
    \/ part = "catalogue" /\ Next /\ Frozen
    \/ part = "book"      /\ Book!Next /\ Frozen
    \/ part = "splits"    /\ Mend!Next /\ Frozen
    \/ part = "dividends" /\ Pay!Next /\ Frozen

\* The fairness of each module, for the part that moves.
AllFair ==
    /\ WF_vars(part = "catalogue" /\ Refresh({}, 0))
    /\ WF_vars(part = "catalogue" /\ DayPasses)
    /\ \A k \in Jobs : WF_vars(part = "catalogue" /\ Begin(k))
    /\ \A k \in Jobs : WF_vars(part = "catalogue" /\ \E a \in Answers : Finish(<<k[1], k[2], a>>))
    /\ WF_bookVars(part = "book" /\ Book!Reference)
    /\ WF_bookVars(part = "book" /\ Book!Details)
    /\ WF_bookVars(part = "book" /\ Book!SyncUniverse(FALSE))
    /\ \A s \in Tickers :
          /\ WF_bookVars(part = "book" /\ Book!SyncDetail(s))
          /\ WF_bookVars(part = "book" /\ Book!SyncDelisted(s))
          /\ WF_bookVars(part = "book" /\ Book!ClosesAge(s))
    /\ WF_mendVars(part = "splits" /\ Mend!Corporate({}))
    /\ WF_mendVars(part = "splits" /\ Mend!DayPasses)
    /\ \A p \in Mend!Pulls : WF_mendVars(part = "splits" /\ Mend!Repull(p))
    /\ WF_payVars(part = "dividends" /\ Pay!Corporate)
    /\ WF_payVars(part = "dividends" /\ Pay!CorporateBackfill)
    /\ \A j \in Pay!Jobs :
          /\ WF_payVars(part = "dividends" /\ \E r \in SUBSET Pay!Dividend : Pay!Fetch(j, r, FALSE))
          /\ WF_payVars(part = "dividends" /\ Pay!Writes(j))

AllSpec == AllInit /\ [][AllNext]_allVars /\ AllFair

-----------------------------------------------------------------------------
\* The tables, notes and queues of the parts hold values of their kind.
TypesOK == TypeOK /\ Book!TypeOK /\ Mend!TypeOK /\ Pay!TypeOK

\* Every name whose options the vendor lists is walked again and again.
CatalogueComesRound == part = "catalogue" => CatalogueTurns

\* A symbol whose retirement the vendor knows gets its date in the end.
RetiredGetDated == part = "book" => Book!RetiredGetDated

\* A name that stays listed is asked for again and again.
DetailsComeRound == part = "book" => Book!DetailsComeRound


\* The dividends on file settle on those the vendor lists.
DividendsSettle == part = "dividends" => Pay!DividendsSettle

=============================================================================
