\* A month-floored cutoff, ranges of up to two days, a row that leaves early and one that
\* does not, each written twice.  The days end.
CONSTANTS
    a = a
    b = b
    Items = {a, b}
    DayOf <- Days
    Passes = {"intraday", "all"}
    Eligible <- TwoPasses
    Keep <- TwoKeeps
    MonthFloor = TRUE
    MonthLen = 2
    Span = 2
    LastDay = 6
    MaxVer = 2
    MaxFiles = 3
    RaiseOutcomes = {FALSE}
SPECIFICATION FairSpec
INVARIANTS NewestCopyIsLast LedgerVouches FileInOneMonth
PROPERTIES ExpiredLeaves
CHECK_DEADLOCK FALSE
