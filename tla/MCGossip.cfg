SPECIFICATION Spec
CONSTANTS
    Node = {"x", "y"}
    Peers <- MCPair
    Block = {"g", "b1", "c1"}
    Txn = {}
    Prev <- MCPrev
    NoBlock = "none"
    Idx <- MCIdx
    Rank <- MCRank
    Async = {"y"}
    Poller = {"x"}
    Syncer = {"x"}
    Retries = 2
    Depth = 2
    Batch = 2
    MaxFaults = 1
INVARIANTS
    AncestorsStored
    VisitedHaveIt
    OnlyForksDiverge
PROPERTIES
    TrafficEnds
    PollersAgree
CHECK_DEADLOCK FALSE
