SPECIFICATION Spec
CONSTRAINT Small
CONSTANTS
    t1 = t1
    t2 = t2
    t3 = t3
    Worker = {w1, w2}
    Txn = {t1, t2, t3}
    At <- AtDef
    Client = {"a", "m"}
    Addresses <- Roles
    Question <- Ask
    NoClient = "none"
    Cap = 1
    MaxHeight <- HeightDef
SYMMETRY Symmetry
INVARIANTS AnswerIsOfAChain CanonicalAnswerHolds QuotaHolds
