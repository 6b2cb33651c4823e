\* The instance of MCListing.cfg, asked whether the details of a listed name come round.
CONSTANTS
    Rule <- Ruled
    Benchmarks = {}
    Stored <- FiledUnder
    TooLong = {"a"}
    Later = {"a", "b"}
    MaxNew = 1
    Batch = 2
    Recheck = 1
    Asked = {"b"}
    MaxFails = 1
    Tickers = {"a", "b", "c", "d"}
    RankOf <- Alphabet
    WithOptions = {"a", "b", "c"}
    FundTickers = {"a"}
    Undated = {}
    AlwaysTrading = {"d"}
    NoAnswer = {"b"}
    DetailsBatch = 1
    LookupsPerRun = 2
    BookFaults = 1
    SplitSymbols = {"x"}
    SplitsListed = 2
    NotReturned = {}
    PullRetry = 1
    MendFaults = 1
    PaidBy <- Payers
    InWindow = {"b", "c"}
    AlwaysListed = {"a"}
    DividendFaults = 1
SPECIFICATION AllSpec
PROPERTIES DetailsComeRound
