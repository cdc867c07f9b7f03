SPECIFICATION LiveRuntime
CONSTANTS
    p1 = p1
    p2 = p2
    Procs = {p1, p2}
    Running = {p1, p2}
    HostOf <- OneHost
    Nodes = {"alice", "bob"}
    Topics = {"chat"}
    Advertising <- Publishing
    Subscribing <- Listening
    Offered = {"ALL"}
    MaxOps = 3
    MaxFaults = 0
    MaxSilence = 0
    MaxTrouble = 0
    MaxExits = 0
PROPERTIES UnsubscribedIsUnlisted
CHECK_DEADLOCK FALSE
