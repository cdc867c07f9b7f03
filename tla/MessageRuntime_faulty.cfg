SPECIFICATION RuntimeSpec
CONSTANTS
    p1 = p1
    p2 = p2
    Procs = {p1, p2}
    Running = {p1}
    HostOf <- TwoHosts
    Nodes = {"alice", "bob"}
    Topics = {"chat"}
    Advertising <- Publishing
    Subscribing <- BothListen
    Offered = {"PROCESS", "HOST", "ALL"}
    MaxOps = 2
    MaxFaults = 1
    MaxSilence = 1
    MaxTrouble = 1
    MaxExits = 1
INVARIANTS RuntimeTypeOK NoMissedPublisher SubscribersHaveLease ReliableInv NeverSeesItself ScopeRespected
PROPERTIES OwnOnlyByApi
CHECK_DEADLOCK FALSE
