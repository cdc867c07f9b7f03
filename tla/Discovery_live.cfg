SPECIFICATION LiveSpec
CONSTANTS
    p1 = p1
    p2 = p2
    Procs = {p1, p2}
    Running = {p1}
    HostOf <- OneHost
    Nodes = {"alice"}
    Topics = {"chat"}
    Advertising <- Only1
    Subscribing <- Only2
    Offered = {"HOST"}
    MaxOps = 2
    MaxFaults = 1
    MaxSilence = 1
    MaxTrouble = 1
    MaxExits = 1
INVARIANTS TypeOK KnownHasLease
PROPERTIES OfferedBecomesKnown GoneIsForgotten
CHECK_DEADLOCK FALSE
