SPECIFICATION LiveRuntime
CONSTANTS
    p1 = p1
    p2 = p2
    Procs = {p1, p2}
    Running = {p1, p2}
    HostOf <- OneHost
    Nodes = {"alice", "bob"}
    Topics = {"chat"}
    Advertising <- Publishing
    Subscribing <- Listening
    Offered = {"ALL"}
    MaxOps = 2
    MaxFaults = 0
    MaxSilence = 1
    MaxTrouble = 1
    MaxExits = 0
PROPERTIES Reconnects
CHECK_DEADLOCK FALSE
