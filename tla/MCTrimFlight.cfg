\* Three concurrent requests, two payloads, three rows: a dead holder, its successor,
\* and a retry.  MaxRows stops the system.  Liveness: no symmetry.
CONSTANTS
    c1 = c1
    c2 = c2
    c3 = c3
    Callers = {c1, c2, c3}
    Payloads = {"plain", "forced"}
    MaxRows = 3
    NoOne = NoOne
SPECIFICATION FairSpec
INVARIANTS SingleFlight
PROPERTIES FinishedIsFinal LockIsReleased
CHECK_DEADLOCK FALSE
