SPECIFICATION Spec
CONSTANTS
    Subject = {"s"}
    Key = {"a", "b"}
    Genesis <- MCGenesis
    Asks <- MCAsks
    MaxFlows = 2
    MaxTxns = 3
INVARIANTS
    DiscardedForCause
    OnlyDustIsRefused
    OnePromisePerCoin
    LosesOnlyWhatItAsked
CHECK_DEADLOCK FALSE
