\* The instance of MCSessions.cfg, asked whether a healthy report was earned.
CONSTANTS
    Pages = {1, 2, 3, 4}
    Vendors <- Chains
    Intraday = FALSE
    MaxPages = 2
    MaxRetries = 2
    MaxDepth = 1
    MaxAttempts = 2
    MaxRuns = 2
    ChainNames = {"r", "c"}
    NearMoney = {"c"}
    MayRetire = {"r"}
    EveningFaults = 1
    DeepNames = {"x"}
    DepthOf <- ThreeMonths
    OnSale <- ThreeShelves
    PriceWindow = 2
    DteMonths = 1
    GraceMonths = 1
    PlanRetry = 1
    DepthFaults = 1
    KeptRows = {"r"}
    WorkDays <- ShortWeeks
    OpenDays <- NoHoliday
    FirstDay = 5
    FinalDay = 9
    MonthDays = 3
    IntradayDays = 2
    SessionsKept = 3
    DaysKept = 4
    MonthsBack = 1
    MonthsAhead = 1
    TradingDays = {1, 2, 5, 6, 7}
    LastTradingDay = 7
    BackfillDays = 3
    Ladder <- ThreeExpiries
    OneContract <- InTheMiddle
    ClosingPrices = {0, 1, 2}
    LentClose = 3
    FrontExpiries = 2
    StrikesAside = 0
    NearDays = 6
    ShallowDays = 3
    MaxWaiting = 2
SPECIFICATION AllSpec
PROPERTIES GateIsEarned
CHECK_DEADLOCK FALSE
