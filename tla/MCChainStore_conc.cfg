SPECIFICATION Spec
CONSTANTS
    Block = {"g", "x", "a1", "a2", "b1"}
    NoBlock = NoBlock
    Prev <- MCPrev
    Idx <- MCIdx
    Time <- MCTime
    HashRank <- MCHashRank
    Valid = {"g", "x", "a1", "a2", "b1"}
    Worker = {w1, w2}
    MaxRow = 5
    PruneDepth = 1
    MaxFillDepth = 2
INVARIANTS
    AncestryComplete
    MaterializationIsAncestry
    ForkTipsDistinct
    SignalledStored
    NoForkAhead
SYMMETRY Sym
