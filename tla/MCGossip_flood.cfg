SPECIFICATION Spec
CONSTANTS
    Node = {"x", "y", "z"}
    Peers <- MCLine
    Block = {"g", "b1", "c1"}
    Txn = {"t"}
    Prev <- MCPrev
    NoBlock = "none"
    Idx <- MCIdx
    Rank <- MCRank
    Async = {}
    Poller = {}
    Syncer = {}
    Retries = 2
    Depth = 1
    Batch = 2
    MaxFaults = 0
PROPERTIES
    ItemsReachAll
CHECK_DEADLOCK FALSE
