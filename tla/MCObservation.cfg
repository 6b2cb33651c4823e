\* Cache: two requests, two threads that the flag has to keep apart, two changes of the data.
\* Memory: one dataset, one thread that computes, three rows of history.  Queue: the clock
\* stops once a sample has been taken, kept and trimmed.  Width: a window of seven sessions
\* after a lead of two, one of which the vendor will not widen.  Report: two reads may be slow
\* or fail.  A table that is only judged does not move.
CONSTANTS
    Callers = {c1, c2}
    Threads = {t1, t2}
    Ttl = 1
    MaxSource = 2
    SpawnMayFail = TRUE
    Datasets = {"bars"}
    Bought <- OneDataset
    TablesSeen <- Few
    TablesJudged <- Many
    Wanted = {1, 2, 3, 4}
    MarketDays = {1, 2, 4, 5, 6}
    LastDue = 5
    ThisDay = 6
    Computing = {"b"}
    HistoryRows = 3
    Nearby = 3
    LeastBefore = 2
    CountedJobs = {"j", "k"}
    SamplerThreads = {"p"}
    SampleEvery = 3
    SamplesKept = 6
    ClockEnd = 9
    LastSession = 9
    LeadSessions = 2
    WholeWidth = 20
    NarrowWidth = 13
    StuckDays = {5}
    HealedAtOnce = 2
    HealFaults = 1
    FiledRows <- TwoOfThree
    DamagedRows <- OneDamaged
    DaysOfAnother = {1}
    DaysAsOld = {1, 2, 3}
    Roster <- FourSlots
    TicksADay = 6
    OpenDates <- AroundWeekend
    JobsKept = 12
    FirstTick = 12
    LastTick = 42
    SlotFaults = 1
    ReadFaults = 2
SPECIFICATION AllSpec
INVARIANTS TypesOK OneRefresh Remembered HealthyIsSolid CountedOnce StoppedIsFound FaultsStayApart
PROPERTIES CacheEndsFresh HolesFill CompaniesApart LabelsSettle
CHECK_DEADLOCK FALSE
