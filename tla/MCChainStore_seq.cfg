SPECIFICATION Spec
CONSTANTS
    Block = {"g", "h", "x", "a1", "a2", "b1", "b2", "b3"}
    NoBlock = NoBlock
    Prev <- MCPrev
    Idx <- MCIdx
    Time <- MCTime
    HashRank <- MCHashRank
    Valid = {"g", "h", "x", "a1", "a2", "b1", "b2", "b3"}
    Worker = {w1}
    MaxRow = 5
    PruneDepth = 1
    MaxFillDepth = 2
INVARIANTS
    CanonicalIsLongest
    BestBlockIsCanonical
    SignalledOnce
PROPERTIES
    ForksSurvive
    ImplementsForkChoice
