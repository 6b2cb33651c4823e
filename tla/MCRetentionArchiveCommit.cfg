\* The same table when a commit that raised may have been applied by the server.
CONSTANTS
    a = a
    b = b
    Items = {a, b}
    DayOf <- Days
    Passes = {"intraday", "all"}
    Eligible <- TwoPasses
    Keep <- TwoKeeps
    MonthFloor = FALSE
    MonthLen = 2
    Span = 1
    LastDay = 6
    MaxVer = 1
    MaxFiles = 2
    RaiseOutcomes = {FALSE, TRUE}
SPECIFICATION Spec
INVARIANTS NeverMissOne
CHECK_DEADLOCK FALSE
