SPECIFICATION LiveSpec
CONSTANTS
    p1 = p1
    p2 = p2
    Procs = {p1, p2}
    Running = {p1}
    HostOf <- OneHost
    Nodes = {"alice"}
    Topics = {"chat"}
    Advertising <- Only1
    Subscribing <- Everyone
    Offered = {"HOST"}
    MaxOps = 2
    MaxFaults = 0
    MaxSilence = 0
    MaxTrouble = 0
    MaxExits = 0
PROPERTIES WithdrawnIsForgotten
CHECK_DEADLOCK FALSE
