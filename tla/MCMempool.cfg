SPECIFICATION Spec
CONSTANTS
    Txn = {"t1", "t2", "t3"}
    Inflows <- MCInflows
    Maker <- MCMaker
    NoTxn = "none"
    Stamp <- MCStamp
    InOrder <- MCInOrder
    Worker = {w1, w2}
    Lister = lister
    Timeout = 1
    MaxPending = 1
    MaxTime = 1
    MaxHeight <- MCMaxHeight
INVARIANTS
    SoftCap
    TemplateFollows
    ReservationsLeaveToo
SYMMETRY Sym
