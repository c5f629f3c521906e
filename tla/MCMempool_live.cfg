SPECIFICATION Spec
CONSTANTS
    Txn = {"t1", "t2"}
    Inflows <- MCInflows
    Maker <- MCMaker
    NoTxn = "none"
    Stamp <- MCStamp
    InOrder <- MCInOrder
    Worker = {w1}
    Lister = lister
    Timeout = 1
    MaxPending = 2
    MaxTime = 3
    MaxHeight <- MCMaxHeight
INVARIANTS
    ReservationsLeaveToo
PROPERTIES
    EveryPendingLeaves
