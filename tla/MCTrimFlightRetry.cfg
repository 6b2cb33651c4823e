\* The doctor retries a failed trim.
CONSTANTS
    c1 = c1
    c2 = c2
    c3 = c3
    Callers = {c1}
    Payloads = {"plain"}
    MaxRows = 3
    NoOne = NoOne
SPECIFICATION FairSpec
PROPERTIES RetryIsHandled
CHECK_DEADLOCK FALSE
