\* Three names, one newcomer and two seats a fire.  a's listing is too long to walk once it
\* has one, and takes a seat each time; b gets listed while it is asked for by hand, too.
\* In the book a is a fund, b one the vendor does not answer for, d trades all along.  Of the
\* dividends a and b are of one symbol, and a stays listed.
CONSTANTS
    Rule <- Ruled
    Benchmarks = {}
    Stored <- FiledUnder
    TooLong = {"a"}
    Later = {"a", "b"}
    MaxNew = 1
    Batch = 2
    Recheck = 1
    Asked = {"b"}
    MaxFails = 1
    Tickers = {"a", "b", "c", "d"}
    RankOf <- Alphabet
    WithOptions = {"a", "b", "c"}
    FundTickers = {"a"}
    Undated = {}
    AlwaysTrading = {"d"}
    NoAnswer = {"b"}
    DetailsBatch = 1
    LookupsPerRun = 2
    BookFaults = 1
    SplitSymbols = {"x"}
    SplitsListed = 2
    NotReturned = {}
    PullRetry = 1
    MendFaults = 1
    PaidBy <- Payers
    InWindow = {"b", "c"}
    AlwaysListed = {"a"}
    DividendFaults = 1
SPECIFICATION AllSpec
INVARIANTS TypesOK
PROPERTIES CatalogueComesRound RetiredGetDated  DividendsSettle
