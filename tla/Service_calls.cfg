SPECIFICATION LiveSpec
CONSTANTS
    p1 = p1
    p2 = p2
    r1 = r1
    r2 = r2
    Procs = {p1, p2}
    Services <- BothServe
    Standing <- OnlyLog
    Requests = {r1, r2}
    Callers <- MCCallers
    Want <- MCWant
    Nested = {r2}
    MaxFaults = 1
INVARIANTS TypeOK NoMissedResponder RequestConserved NestedTimesOut
PROPERTIES ImplementsRemoteCall SentIsAnswered
CHECK_DEADLOCK FALSE
