SPECIFICATION Spec
CONSTANTS
    Block = {"g", "a1", "b1", "d2", "b2", "m2", "e1", "c1"}
    Anc <- MCAnc
    Rank <- MCRank
    Outflow = {"o", "p", "q"}
    Makes <- MCMakes
    Takes <- MCTakes
    Worker = {w1, w2}
INVARIANTS
    NoDoubleSpend
CHECK_DEADLOCK FALSE
