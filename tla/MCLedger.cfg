SPECIFICATION LedgerSpec
CONSTANTS
    Subject = {s1, s2}
    Reward = 2
    MaxAmount = 3
    MaxFlows = 2
    MaxHeight = 2
INVARIANTS
    Conserved
    SupplyBound
PROPERTIES
    StakeIsLocked
SYMMETRY Sym
CHECK_DEADLOCK FALSE
