------------------------------ MODULE Spending ------------------------------
(***************************************************************************)
(* How a node decides that a block spends nothing twice: for each inflow of  *)
(* the block it looks in the block's ancestry for the outflow, then for       *)
(* another inflow that consumed it (chain.py:368-401, 427-466).  The         *)
(* ancestry is never stored as such.  It is resolved against the             *)
(* materialized canonical chain: the walk back to the first canonical block   *)
(* (BlockDAO._ancestry) gives the divergent blocks and the position of that   *)
(* block, and a query then reads the divergent blocks and whatever is at      *)
(* those positions (models.py:324-352, 421-446, 483-524).                    *)
(*                                                                         *)
(* Each lookup and each query is a statement of its own, which sees what is   *)
(* committed when it runs: another thread or process may store a block or     *)
(* replace the canonical chain between any two.                              *)
(***************************************************************************)
EXTENDS Integers, Sequences, FiniteSets

CONSTANTS
    Block,       \* the blocks the node may be offered
    Anc,         \* the blocks from the genesis to a block, itself included
    Rank,        \* the order of two tips of the same height in the fork choice
    Outflow,     \* outflows, identified by txid and index
    Makes,       \* the outflows of a block's transactions
    Takes,       \* the outflows a block's transactions consume, in order
    Worker       \* threads and processes that share the database

NoBlock == <<>>                       \* the ancestry before a genesis block

Front(s) == SubSeq(s, 1, Len(s) - 1)
Top(s) == s[Len(s)]
Elements(s) == {s[i] : i \in 1 .. Len(s)}
IsPrefix(s, t) == Len(s) <= Len(t) /\ \A i \in 1 .. Len(s) : s[i] = t[i]

ASSUME BlockAssumption ==
    /\ Anc \in [Block -> Seq(Block)]
    /\ Rank \in [Block -> Nat]
    /\ Makes \in [Block -> SUBSET Outflow]
    /\ Takes \in [Block -> Seq(Outflow)]

(* A block's ancestry ends with the block, and each block of it has the        *)
(* ancestry up to itself.                                                     *)
ASSUME AncestryAssumption ==
    \A b \in Block :
        /\ Anc[b] # <<>>
        /\ Top(Anc[b]) = b
        /\ \A i \in 1 .. Len(Anc[b]) : Anc[Anc[b][i]] = SubSeq(Anc[b], 1, i)

VARIABLES
    stored,      \* the block rows
    canon,       \* longest_chain_block, by position
    job,         \* what each worker is validating, see Job
    reorged,     \* history: workers whose job a reorganisation overlapped
    tainted,     \* history: blocks they stored
    refused      \* history: blocks refused by the others

vars == <<stored, canon, job, reorged, tainted, refused>>

(* A worker's validation: flow is the inflow it checks, asks what it looks     *)
(* for, the outflow ("made") or another spend of it ("taken"); at is the       *)
(* ancestry still to walk; divergent the blocks the walk found not canonical;  *)
(* cap the number of canonical blocks it ends on.                             *)
Job ==
    [block : Block, flow : Nat \ {0}, asks : {"made", "taken"},
     step : {"walk", "query", "store"},
     at : Seq(Block), divergent : SUBSET Block, cap : Nat]
NoJob == [step |-> "idle"]

Asking(b, flow, asks) ==
    [block |-> b, flow |-> flow, asks |-> asks,
     step |-> IF flow > Len(Takes[b]) THEN "store" ELSE "walk",
     at |-> Front(Anc[b]), divergent |-> {}, cap |-> 0]

Preferred(a, b) ==
    \/ Len(Anc[a]) > Len(Anc[b])
    \/ Len(Anc[a]) = Len(Anc[b]) /\ Rank[a] < Rank[b]

TakenIn(b) == Elements(Takes[b])
TimesTaken(b, o) == Cardinality({i \in 1 .. Len(Takes[b]) : Takes[b][i] = o})

-----------------------------------------------------------------------------
Init ==
    /\ stored = {}
    /\ canon = <<>>
    /\ job = [w \in Worker |-> NoJob]
    /\ reorged = {}
    /\ tainted = {}
    /\ refused = {}

(* A worker starts to validate a block whose parent is stored.               *)
Begin(w, b) ==
    /\ job[w] = NoJob
    /\ b \notin stored
    /\ Elements(Front(Anc[b])) \subseteq stored
    /\ job' = [job EXCEPT ![w] = Asking(b, 1, "made")]
    /\ UNCHANGED <<stored, canon, reorged, tainted, refused>>

(* Mutant of Walk: cap is the position of the last canonical block, from 0.    *)
WalkFromZero(w) ==
    LET j == job[w]
    IN  /\ j.step = "walk"
        /\ job' = [job EXCEPT ![w] =
                     IF j.at = NoBlock \/ Top(j.at) \in Elements(canon)
                     THEN [j EXCEPT !.cap = Len(j.at) - 1, !.step = "query"]
                     ELSE [j EXCEPT !.divergent = @ \cup {Top(j.at)}, !.at = Front(@)]]
        /\ UNCHANGED <<stored, canon, reorged, tainted, refused>>

(* One lookup of _ancestry: is this block canonical, and where?               *)
Walk(w) ==
    LET j == job[w]
    IN  /\ j.step = "walk"
        /\ job' = [job EXCEPT ![w] =
                     IF j.at = NoBlock \/ Top(j.at) \in Elements(canon)
                     THEN [j EXCEPT !.cap = Len(j.at), !.step = "query"]
                     ELSE [j EXCEPT !.divergent = @ \cup {Top(j.at)}, !.at = Front(@)]]
        /\ UNCHANGED <<stored, canon, reorged, tainted, refused>>

(* Mutants of View: the fork alone, and the fork with all of the canonical     *)
(* chain.                                                                     *)
ViewOfFork(j) == j.divergent
ViewUncapped(j) == j.divergent \cup Elements(canon)

(* The blocks a query of the worker reads.                                    *)
View(j) == j.divergent \cup {canon[i] : i \in {k \in 1 .. Len(canon) : k <= j.cap}}

(* What the query for the outflow and the query for another spend of it       *)
(* accept.  The block's own transactions count too, from memory.               *)
Made(j, o) ==
    \E b \in View(j) \cup {j.block} : o \in Makes[b]

UntakenExceptHere(j, o) ==
    /\ TimesTaken(j.block, o) = 1
    /\ \A b \in View(j) : o \notin TakenIn(b)

Accepts(j) ==
    LET o == Takes[j.block][j.flow]
    IN  IF j.asks = "made" THEN Made(j, o) ELSE UntakenExceptHere(j, o)

(* A query that accepts leads to the next question, or to the commit.         *)
Pass(w) ==
    LET j == job[w]
    IN  /\ j.step = "query"
        /\ Accepts(j)
        /\ job' = [job EXCEPT ![w] =
                     IF j.asks = "made"
                     THEN Asking(j.block, j.flow, "taken")
                     ELSE Asking(j.block, j.flow + 1, "made")]
        /\ UNCHANGED <<stored, canon, reorged, tainted, refused>>

Refuse(w) ==
    LET j == job[w]
    IN  /\ j.step = "query"
        /\ ~Accepts(j)
        /\ job' = [job EXCEPT ![w] = NoJob]
        /\ refused' = IF w \in reorged THEN refused ELSE refused \cup {j.block}
        /\ reorged' = reorged \ {w}
        /\ UNCHANGED <<stored, canon, tainted>>

(* The row of an inflow needs the row of its outflow, on whatever fork.        *)
HasRows(b) == \A o \in TakenIn(b) : \E s \in stored : o \in Makes[s]

(* The commit of the block row, unless another worker stored it meanwhile.     *)
Store(w) ==
    LET b == job[w].block
    IN  /\ job[w].step = "store"
        /\ b \notin stored
        /\ HasRows(b)
        /\ stored' = stored \cup {b}
        /\ tainted' = IF w \in reorged THEN tainted \cup {b} ELSE tainted
        /\ job' = [job EXCEPT ![w] = NoJob]
        /\ reorged' = reorged \ {w}
        /\ UNCHANGED <<canon, refused>>

(* The commit fails, a row is missing or there already, or the worker dies.    *)
Abandon(w) ==
    /\ job[w] # NoJob
    /\ job' = [job EXCEPT ![w] = NoJob]
    /\ reorged' = reorged \ {w}
    /\ UNCHANGED <<stored, canon, tainted, refused>>

(* Some worker makes the canonical chain that of a better stored tip.          *)
Adopt(b) ==
    /\ b \in stored
    /\ canon # <<>> => Preferred(b, Top(canon))
    /\ canon' = Anc[b]
    /\ reorged' = IF IsPrefix(canon, Anc[b]) THEN reorged
                  ELSE reorged \cup {w \in Worker : job[w] # NoJob}
    /\ UNCHANGED <<stored, job, tainted, refused>>

Next ==
    \/ \E w \in Worker :
          \/ \E b \in Block : Begin(w, b)
          \/ Walk(w) \/ Pass(w) \/ Refuse(w) \/ Store(w) \/ Abandon(w)
    \/ \E b \in Block : Adopt(b)

Spec == Init /\ [][Next]_vars

-----------------------------------------------------------------------------
TypeOK ==
    /\ stored \subseteq Block
    /\ canon \in Seq(Block)
    /\ job \in [Worker -> Job \cup {NoJob}]
    /\ reorged \subseteq Worker
    /\ tainted \subseteq Block
    /\ refused \subseteq Block

(* An outflow exists in the chain of a block, the block included; a spend of    *)
(* it by the block is the only one of that chain.                             *)
MadeOn(b, o) == \E i \in 1 .. Len(Anc[b]) : o \in Makes[Anc[b][i]]
FreshOn(b, o) ==
    /\ TimesTaken(b, o) = 1
    /\ \A i \in 1 .. Len(Anc[b]) - 1 : o \notin TakenIn(Anc[b][i])

InflowsExist(b) == \A o \in TakenIn(b) : MadeOn(b, o)
SpendsFresh(b) == \A o \in TakenIn(b) : FreshOn(b, o)

(* No stored chain spends an outflow twice, on whatever fork.                  *)
NoDoubleSpend == \A b \in stored : SpendsFresh(b)

(* Nor does it but where the validation of the block overlapped a              *)
(* reorganisation; blocks stored meanwhile, and a chain that only grows,       *)
(* do no harm.                                                                *)
NoDoubleSpendUnlessReorged == \A b \in stored \ tainted : SpendsFresh(b)

(* A chain consumes only its own outflows, not those of a sibling fork.        *)
InflowsOnChainUnlessReorged == \A b \in stored \ tainted : InflowsExist(b)

(* Forks do not interfere: a block is refused only for what its own chain      *)
(* lacks or has spent, whatever other forks did with the same outflow.         *)
RefusedForCause == \A b \in refused : ~(InflowsExist(b) /\ SpendsFresh(b))
=============================================================================
