SPECIFICATION StorageSpec
CONSTANTS
    p1 = p1
    p2 = p2
    h1 = h1
    h2 = h2
    Procs <- TwoProcs
    AddrOf <- Endpoints
    Ids <- TwoHandlers
    TypeOf <- Kinds
    Topics = {"chat", "news"}
    Nodes = {"alice", "bob"}
    Types = {"Text", "any"}
    Generic = "any"
INVARIANTS WellFormed QueriesAgree HandlersWellFormed HandlerQueriesAgree
PROPERTIES ImplementsTopicTable ImplementsHandlerTable HollowOnlyBySingleRemoval
