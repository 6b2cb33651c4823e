\* Two slots of one pool, three rows: the first attempt budget can be spent by two
\* claims, a retried row has one attempt.  A handler may hold its claim for exactly
\* as long as the reclaim waits, the largest bound the properties allow.  Slots may crash
\* at every point, for ever.  Liveness: no symmetry.
CONSTANTS
    w1 = w1
    w2 = w2
    Workers = {w1, w2}
    Kinds = {"options"}
    Hashes = {"h1", "h2"}
    PoolKinds <- OnePool
    Priorities = {0}
    Budgets = {2}
    RetryBudget = 1
    MaxJobs = 3
    Fan = 2
    StaleAfter = 1
    KeepAfter = 1
    KeepMax = 0
    HandlerBound = 1
    AgeCap = 2
SPECIFICATION FairSpec
INVARIANTS TypeOK UniqueActive ClaimIsCurrent OneHolder
PROPERTIES EveryJobSettles ImplementsLifecycle
CHECK_DEADLOCK FALSE
