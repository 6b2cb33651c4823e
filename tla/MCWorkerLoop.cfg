\* Concurrency two, two tasks, and every connection the pool should open.  Liveness:
\* no symmetry.
CONSTANTS
    Tasks = {t1, t2}
    Main = Main
    Conns = {c1, c2, c3, c4}
    NoConn = NoConn
    Max = 2
SPECIFICATION FairSpec
INVARIANTS PermitsKept OwnedByOne
PROPERTIES ReclaimKeepsCadence Stops
CHECK_DEADLOCK FALSE
