----------------------------- MODULE ChainStore -----------------------------
(***************************************************************************)
(* The persistent chain store of a gumptionchain node and the threads and  *)
(* processes that write it: the `block` rows, the `chain` rows (one per     *)
(* fork tip) and the `longest_chain_block` materialization, as they are     *)
(* changed by Node.process_block, the import and sync commands and          *)
(* Node.fill_chain (node.py, chain.py, models.py).                          *)
(*                                                                         *)
(* A worker is a gunicorn thread, or a CLI process (mill, sync, import) on  *)
(* the same database.  Every commit is one atomic step and every check that *)
(* precedes it is a step of its own, so another worker may run in between.  *)
(* Accepting a block takes TWO commits: the block row (Chain.add_block),    *)
(* then the chain row and the materialization (Chain.to_db).                *)
(*                                                                         *)
(* What a block contains is a function of its hash: its header is given by  *)
(* the constants Prev, Idx and Time, and Valid says whether it passes the   *)
(* checks that look only at the block and its ancestry (proof of work,      *)
(* merkle root, target, transactions, coinbase).                            *)
(***************************************************************************)
EXTENDS Integers, Sequences

CONSTANTS
    Block,         \* the hashes of the blocks the node may ever be offered
    NoBlock,       \* the parent of a genesis block (GENESIS_HASH), no hash
    Prev,          \* prev_hash of a block
    Idx,           \* idx (height) of a block
    Time,          \* timestamp of a block
    HashRank,      \* the order of the block hashes as strings
    Valid,         \* the blocks that pass the context-free checks
    Worker,        \* threads and processes that share the database
    MaxRow,        \* bound: the largest chain-row id
    PruneDepth,    \* FORK_PRUNE_DEPTH
    MaxFillDepth   \* MAX_CHAIN_FILL_DEPTH

ASSUME HeaderAssumption ==
    /\ NoBlock \notin Block
    /\ Prev \in [Block -> Block \cup {NoBlock}]
    /\ Idx \in [Block -> Nat]
    /\ Time \in [Block -> Nat]
    /\ HashRank \in [Block -> Nat]
    /\ Valid \subseteq Block

(* Two blocks have different hashes (block_hash is unique).                   *)
ASSUME HashAssumption == \A a, b \in Block : HashRank[a] = HashRank[b] => a = b

ASSUME BoundAssumption ==
    /\ MaxRow \in Nat
    /\ PruneDepth \in Nat
    /\ MaxFillDepth \in Nat

RowId == 1 .. MaxRow
NoRow == 0                            \* cid is None

VARIABLES
    db,      \* the committed database: [anc, row, mat], see Database
    tx,      \* the uncommitted view of fill_chain's batch; db outside one
    pc,      \* what each worker does next
    task,    \* the block each worker handles, where it came from, its cid
    queue,   \* fill_chain: staged blocks not applied yet, lowest first
    fresh,   \* fill_chain: the blocks this batch newly persisted (`applied`)
    news,    \* how many times new_block was signalled for each block
    lost     \* history: blocks whose second commit never happened

vars == <<db, tx, pc, task, queue, fresh, news, lost>>

(***************************************************************************)
(* A database.  anc[b] is the list of block rows from the genesis to b      *)
(* along prev_id, empty when b has no row; row[r] is the tip of chain row   *)
(* r, NoBlock when there is no such row; mat lists the materialization by   *)
(* position.                                                                *)
(***************************************************************************)
Database == [anc : [Block -> Seq(Block)],
             row : [RowId -> Block \cup {NoBlock}],
             mat : Seq(Block)]

EmptyDatabase == [anc |-> [b \in Block |-> <<>>],
                  row |-> [r \in RowId |-> NoBlock],
                  mat |-> <<>>]

Elements(s) == {s[i] : i \in 1 .. Len(s)}
Top(s) == s[Len(s)]

Stored(d) == {b \in Block : d.anc[b] # <<>>}
IsRow(d, r) == d.row[r] # NoBlock
Tips(d) == {d.row[r] : r \in RowId} \ {NoBlock}

-----------------------------------------------------------------------------
(* Mutant of Better: the newest tip wins a tie.                              *)
BetterNewest(a, b) ==
    \/ Idx[a] > Idx[b]
    \/ Idx[a] = Idx[b] /\ Time[a] > Time[b]
    \/ Idx[a] = Idx[b] /\ Time[a] = Time[b] /\ HashRank[a] < HashRank[b]

(* Fork choice: the most blocks, then the oldest tip, then the least hash.  *)
Better(a, b) ==
    \/ Idx[a] > Idx[b]
    \/ Idx[a] = Idx[b] /\ Time[a] < Time[b]
    \/ Idx[a] = Idx[b] /\ Time[a] = Time[b] /\ HashRank[a] < HashRank[b]

IsLongest(d, r) ==
    /\ IsRow(d, r)
    /\ \A q \in RowId \ {r} : IsRow(d, q) => Better(d.row[r], d.row[q])

(* last_block of Node.longest_chain, NoBlock when there is no chain.        *)
LongestTip(d) ==
    IF \E r \in RowId : IsLongest(d, r)
    THEN d.row[CHOOSE r \in RowId : IsLongest(d, r)]
    ELSE NoBlock

RowWithTip(d, b) ==
    IF b \in Tips(d)
    THEN CHOOSE r \in RowId : d.row[r] = b
    ELSE NoRow

(* The id of a new row: one above the largest in use.                       *)
NextRow(d) ==
    CHOOSE n \in 1 .. MaxRow + 1 :
        /\ \A q \in RowId : IsRow(d, q) => q < n
        /\ n > 1 => IsRow(d, n - 1)

(* The last position of p, walking back from its top, whose block is in m.  *)
CommonAncestor(m, p) ==
    CHOOSE k \in 0 .. Len(p) :
        /\ k > 0 => p[k] \in Elements(m)
        /\ \A j \in k + 1 .. Len(p) : p[j] \notin Elements(m)

(* Mutant of Materialize: the rows above the common ancestor are kept.        *)
MaterializeNoTruncate(m, p) == m \o SubSeq(p, CommonAncestor(m, p) + 1, Len(p))

(* The smart reorg: keep the materialization up to the common ancestor and  *)
(* append the diverging blocks.  A tip found in the materialization stops    *)
(* the walk at once and changes nothing, even above it.                      *)
Materialize(m, p) ==
    LET k == CommonAncestor(m, p)
        position == IF k = 0 THEN 0
                    ELSE CHOOSE i \in 1 .. Len(m) : m[i] = p[k]
    IN  IF k = Len(p) THEN m
        ELSE SubSeq(m, 1, position) \o SubSeq(p, k + 1, Len(p))

(* Mutant of PruneStaleForks: the depth is left out.                          *)
PruneAllForks(d, r) ==
    [q \in RowId |->
        IF q # r /\ IsRow(d, q) /\ Idx[d.row[q]] < Idx[d.row[r]]
        THEN NoBlock ELSE d.row[q]]

PruneStaleForks(d, r) ==
    [q \in RowId |->
        IF q # r /\ IsRow(d, q) /\ Idx[d.row[q]] < Idx[d.row[r]] - PruneDepth
        THEN NoBlock ELSE d.row[q]]

SyncLongest(d, r) ==
    IF IsLongest(d, r)
    THEN [d EXCEPT !.mat = Materialize(d.mat, d.anc[d.row[r]]),
                   !.row = PruneStaleForks(d, r)]
    ELSE d

(* Block.to_db: no change when the row exists; prev_id is looked up.        *)
StoreBlock(d, b) ==
    IF b \in Stored(d) THEN d
    ELSE [d EXCEPT !.anc[b] = IF Prev[b] \in Stored(d)
                              THEN Append(d.anc[Prev[b]], b)
                              ELSE <<b>>]

(* Mutant of ChainRow: no lookup by tip.                                      *)
ChainRowById(d, b, c) == IF c \in RowId /\ IsRow(d, c) THEN c ELSE NextRow(d)

(* The row Chain.to_dao saves: the one that has this tip, else the row of    *)
(* the chain that was extended (by its id, whatever its tip is by now),      *)
(* else a new one.                                                           *)
ChainRow(d, b, c) ==
    IF b \in Tips(d) THEN RowWithTip(d, b)
    ELSE IF c \in RowId /\ IsRow(d, c) THEN c
    ELSE NextRow(d)

(* Mutant of SaveChain: the materialization is not synced.                    *)
SaveChainOnly(d, b, c) == [d EXCEPT !.row[ChainRow(d, b, c)] = b]

(* Mutant of SaveChain: only the row that to_dao has just made is synced.      *)
SaveChainNew(d, b, c) ==
    LET r == ChainRow(d, b, c)
        e == [d EXCEPT !.row[r] = b]
    IN  IF IsRow(d, r) THEN e ELSE SyncLongest(e, r)

SaveChain(d, b, c) ==
    LET r == ChainRow(d, b, c)
    IN  SyncLongest([d EXCEPT !.row[r] = b], r)

(* Chain.validate_block: the only genesis, linked to a stored parent, not    *)
(* older than it, one higher, and valid in itself.                           *)
IsGenesis(b) == Prev[b] = NoBlock

(* Mutant of Validates: a missing parent passes.                              *)
ValidatesOrphan(d, b) ==
    /\ b \in Valid
    /\ IsGenesis(b) => /\ Idx[b] = 0
                       /\ \A g \in Stored(d) : Idx[g] = 0 => g = b
    /\ ~IsGenesis(b) => Idx[b] = Idx[Prev[b]] + 1

Validates(d, b) ==
    /\ b \in Valid
    /\ IsGenesis(b) => /\ Idx[b] = 0
                       /\ \A g \in Stored(d) : Idx[g] = 0 => g = b
    /\ ~IsGenesis(b) => /\ Prev[b] \in Stored(d)
                        /\ Time[b] >= Time[Prev[b]]
                        /\ Idx[b] = Idx[Prev[b]] + 1

-----------------------------------------------------------------------------
Idle == [mode |-> "none", blk |-> NoBlock, cid |-> NoRow]

Init ==
    /\ db = EmptyDatabase
    /\ tx = EmptyDatabase
    /\ pc = [w \in Worker |-> "idle"]
    /\ task = [w \in Worker |-> Idle]
    /\ queue = [w \in Worker |-> <<>>]
    /\ fresh = [w \in Worker |-> <<>>]
    /\ news = [b \in Block |-> 0]
    /\ lost = {}

(* SQLite has one writer: a batch keeps the write lock until it ends.        *)
Unlocked == \A w \in Worker : pc[w] # "applying"

Goto(w, label) == pc' = [pc EXCEPT ![w] = label]
Finish(w) == Goto(w, "idle") /\ task' = [task EXCEPT ![w] = Idle]

(* Mutant of LiveReady: a known block is not recognised.                      *)
LiveReadyAgain(b) == IsGenesis(b) \/ Prev[b] \in Stored(db)

(* Mutant of Begin: the longest chain is extended instead of the parent's.    *)
BeginOnLongest(w, b, mode) ==
    /\ pc[w] = "idle"
    /\ b \notin Stored(db)
    /\ task' = [task EXCEPT ![w] =
                  [mode |-> mode, blk |-> b,
                   cid |-> RowWithTip(db, LongestTip(db))]]
    /\ Goto(w, "loaded")
    /\ UNCHANGED <<db, tx, queue, fresh, news, lost>>

(* receive_block and process_block: a new block whose parent is known.        *)
LiveReady(b) == b \notin Stored(db) /\ (IsGenesis(b) \/ Prev[b] \in Stored(db))

(* The import command: a new block, whatever its parent.                      *)
ImportReady(b) == b \notin Stored(db)

(* sync_forward: a block that extends the longest chain, even a stored one.   *)
SyncReady(b) == Prev[b] = LongestTip(db)

(* A single-block job begins: add_block reads the chain row of the parent and *)
(* keeps its id.                                                              *)
Begin(w, b, mode) ==
    /\ pc[w] = "idle"
    /\ \/ mode = "live" /\ LiveReady(b)
       \/ mode = "import" /\ ImportReady(b)
       \/ mode = "sync" /\ SyncReady(b)
    /\ task' = [task EXCEPT ![w] =
                  [mode |-> mode, blk |-> b, cid |-> RowWithTip(db, Prev[b])]]
    /\ Goto(w, "loaded")
    /\ UNCHANGED <<db, tx, queue, fresh, news, lost>>

Validate(w) ==
    /\ pc[w] = "loaded"
    /\ Validates(db, task[w].blk)
    /\ Goto(w, "validated")
    /\ UNCHANGED <<db, tx, task, queue, fresh, news, lost>>

Reject(w) ==
    /\ pc[w] = "loaded"
    /\ ~Validates(db, task[w].blk)
    /\ Finish(w)
    /\ UNCHANGED <<db, tx, queue, fresh, news, lost>>

(* First commit.                                                             *)
CommitBlock(w) ==
    /\ pc[w] = "validated"
    /\ Unlocked
    /\ db' = StoreBlock(db, task[w].blk)
    /\ tx' = db'
    /\ Goto(w, "stored")
    /\ UNCHANGED <<task, queue, fresh, news, lost>>

(* Second commit.                                                            *)
CommitChain(w) ==
    /\ pc[w] = "stored"
    /\ Unlocked
    /\ ChainRow(db, task[w].blk, task[w].cid) \in RowId
    /\ db' = SaveChain(db, task[w].blk, task[w].cid)
    /\ tx' = db'
    /\ IF task[w].mode = "live" THEN Goto(w, "accepted") /\ UNCHANGED task
                                ELSE Finish(w)
    /\ UNCHANGED <<queue, fresh, news, lost>>

(* process_block signals (and gossips) the block it has accepted.            *)
Announce(w) ==
    /\ pc[w] = "accepted"
    /\ news' = [news EXCEPT ![task[w].blk] = @ + 1]
    /\ Finish(w)
    /\ UNCHANGED <<db, tx, queue, fresh, lost>>

-----------------------------------------------------------------------------
(* fill_chain: walk back from a block whose ancestry is unknown, staging      *)
(* what peers return, then apply the whole list in one transaction.           *)
FillStart(w, b) ==
    /\ pc[w] = "idle"
    /\ b \notin Stored(db)
    /\ queue' = [queue EXCEPT ![w] = <<b>>]
    /\ Goto(w, "walking")
    /\ UNCHANGED <<db, tx, task, fresh, news, lost>>

FillWalk(w) ==
    LET h == queue[w][1]
    IN  /\ pc[w] = "walking"
        /\ Prev[h] \in Block \ Stored(db)
        /\ Len(queue[w]) <= MaxFillDepth
        /\ queue' = [queue EXCEPT ![w] = <<Prev[h]>> \o @]
        /\ UNCHANGED <<db, tx, pc, task, fresh, news, lost>>

FillTooDeep(w) ==
    LET h == queue[w][1]
    IN  /\ pc[w] = "walking"
        /\ Prev[h] \in Block \ Stored(db)
        /\ Len(queue[w]) > MaxFillDepth
        /\ queue' = [queue EXCEPT ![w] = <<>>]
        /\ Goto(w, "idle")
        /\ UNCHANGED <<db, tx, task, fresh, news, lost>>

FillBegin(w) ==
    LET h == queue[w][1]
    IN  /\ pc[w] = "walking"
        /\ IsGenesis(h) \/ Prev[h] \in Stored(db)
        /\ Unlocked
        /\ Goto(w, "applying")
        /\ UNCHANGED <<db, tx, task, queue, fresh, news, lost>>

(* Mutant of FillApply: new_block is signalled before the batch commits.       *)
FillApplySignals(w) ==
    /\ pc[w] = "applying"
    /\ queue[w] # <<>>
    /\ LET b == Head(queue[w])
       IN  /\ Validates(tx, b)
           /\ tx' = SaveChain(StoreBlock(tx, b), b, RowWithTip(tx, Prev[b]))
           /\ news' = [news EXCEPT ![b] = @ + 1]
    /\ queue' = [queue EXCEPT ![w] = Tail(@)]
    /\ UNCHANGED <<db, pc, task, fresh, lost>>

(* add_block(commit=False) for the lowest staged block, inside the batch.    *)
FillApply(w) ==
    /\ pc[w] = "applying"
    /\ queue[w] # <<>>
    /\ LET b == Head(queue[w])
           c == RowWithTip(tx, Prev[b])
           d == StoreBlock(tx, b)
       IN  /\ Validates(tx, b)
           /\ ChainRow(d, b, c) \in RowId
           /\ tx' = SaveChain(d, b, c)
           /\ fresh' = [fresh EXCEPT ![w] =
                          IF b \in Stored(tx) THEN @ ELSE Append(@, b)]
    /\ queue' = [queue EXCEPT ![w] = Tail(@)]
    /\ UNCHANGED <<db, pc, task, news, lost>>

(* A block of the batch is invalid: everything flushed is rolled back.       *)
FillReject(w) ==
    /\ pc[w] = "applying"
    /\ queue[w] # <<>>
    /\ ~Validates(tx, Head(queue[w]))
    /\ tx' = db
    /\ queue' = [queue EXCEPT ![w] = <<>>]
    /\ fresh' = [fresh EXCEPT ![w] = <<>>]
    /\ Goto(w, "idle")
    /\ UNCHANGED <<db, task, news, lost>>

FillCommit(w) ==
    /\ pc[w] = "applying"
    /\ queue[w] = <<>>
    /\ db' = tx
    /\ Goto(w, IF fresh[w] = <<>> THEN "idle" ELSE "signalling")
    /\ UNCHANGED <<tx, task, queue, fresh, news, lost>>

FillSignal(w) ==
    /\ pc[w] = "signalling"
    /\ news' = [news EXCEPT ![Head(fresh[w])] = @ + 1]
    /\ fresh' = [fresh EXCEPT ![w] = Tail(@)]
    /\ Goto(w, IF Len(fresh[w]) = 1 THEN "idle" ELSE "signalling")
    /\ UNCHANGED <<db, tx, task, queue, lost>>

(* The process dies, a peer does not answer, or the database refuses the     *)
(* next write: the session is rolled back and the job is over.  Between the  *)
(* two commits this leaves a stored block that no chain row leads to.        *)
Fail(w) ==
    /\ pc[w] # "idle"
    /\ tx' = IF pc[w] = "applying" THEN db ELSE tx
    /\ queue' = [queue EXCEPT ![w] = <<>>]
    /\ fresh' = [fresh EXCEPT ![w] = <<>>]
    /\ Finish(w)
    /\ lost' = IF pc[w] = "stored" THEN lost \cup {task[w].blk} ELSE lost
    /\ UNCHANGED <<db, news>>

-----------------------------------------------------------------------------
AcceptStep(w) ==
    \/ \E b \in Block, mode \in {"live", "import", "sync"} : Begin(w, b, mode)
    \/ Validate(w)
    \/ Reject(w)
    \/ CommitBlock(w)
    \/ CommitChain(w)
    \/ Announce(w)

FillStep(w) ==
    \/ \E b \in Block : FillStart(w, b)
    \/ FillWalk(w)
    \/ FillTooDeep(w)
    \/ FillBegin(w)
    \/ FillApply(w)
    \/ FillReject(w)
    \/ FillCommit(w)
    \/ FillSignal(w)

Next == \E w \in Worker : AcceptStep(w) \/ FillStep(w) \/ Fail(w)

Spec == Init /\ [][Next]_vars

-----------------------------------------------------------------------------
(* Type invariant.                                                           *)
Label == {"idle", "loaded", "validated", "stored", "accepted",
          "walking", "applying", "signalling"}
Task == [mode : {"none", "live", "import", "sync"},
         blk : Block \cup {NoBlock}, cid : RowId \cup {NoRow}]

TypeOK ==
    /\ db \in Database
    /\ tx \in Database
    /\ pc \in [Worker -> Label]
    /\ task \in [Worker -> Task]
    /\ queue \in [Worker -> Seq(Block)]
    /\ fresh \in [Worker -> Seq(Block)]
    /\ news \in [Block -> Nat]
    /\ lost \subseteq Block

(* A stored block has its whole ancestry stored, from a genesis, with        *)
(* consecutive heights and no step back in time: no prefix of a fill is ever *)
(* left behind, and prev_id is never NULL above height 0.                     *)
AncestryOf(d, b) ==
    LET p == d.anc[b]
    IN  /\ Top(p) = b
        /\ IsGenesis(p[1])
        /\ \A i \in 1 .. Len(p) :
              /\ Idx[p[i]] = i - 1
              /\ d.anc[p[i]] = SubSeq(p, 1, i)
        /\ \A i \in 1 .. Len(p) - 1 :
              Prev[p[i + 1]] = p[i] /\ Time[p[i]] <= Time[p[i + 1]]

AncestryComplete == \A b \in Stored(db) : AncestryOf(db, b)

(* A chain row has a stored tip that no other row has (block_hash is unique). *)
RowsOf(d) ==
    /\ Tips(d) \subseteq Stored(d)
    /\ \A q, r \in RowId : IsRow(d, r) /\ d.row[q] = d.row[r] => q = r

(* The materialization is exactly the ancestry of one stored block: whatever  *)
(* reorgs, races and crashes happen, the rows at positions 0, 1, ... are      *)
(* linked and nothing of a displaced branch remains.  Every read of the       *)
(* canonical chain, and BlockDAO._ancestry of a fork, relies on it.           *)
MatOf(d) == d.mat # <<>> => Top(d.mat) \in Stored(d) /\ d.mat = d.anc[Top(d.mat)]

MaterializationIsAncestry == MatOf(db)
ForkTipsDistinct == RowsOf(db)

(* No fork is ahead of the materialization, however many write: a worker that    *)
(* saves its chain in a row that others have moved, shortened or pruned meanwhile, *)
(* or in the middle of a fill, leaves the canonical chain at least as long as      *)
(* every chain row (chain.py:825-828, models.py:1108-1118).                       *)
AllBehind(d) == \A r \in RowId : IsRow(d, r) => Idx[d.row[r]] < Len(d.mat)
NoForkAhead == AllBehind(db)

(* The materialization shows the longest chain (models.py:685).               *)
CanonicalIsLongest ==
    Tips(db) # {} => db.mat # <<>> /\ Top(db.mat) = LongestTip(db)

(* new_block fires once for a newly persisted block (signals.py:6).           *)
SignalledOnce == \A b \in Block : news[b] <= 1

(* new_block is never signalled for a block that is not committed.            *)
SignalledStored == \A b \in Block : news[b] > 0 => b \in Stored(db)

(* The canonical tip is the best block the node has, those aside whose second *)
(* commit failed: no accepted block is lost to fork choice, pruning, the order *)
(* of a fill, or an earlier crash below it.                                    *)
Quiet == \A w \in Worker : pc[w] # "stored"
BestBlockIsCanonical ==
    Quiet => \A b \in Stored(db) \ lost :
                b = LongestTip(db) \/ Better(LongestTip(db), b)

(* The materialization implements the abstract canonical chain.              *)
Abstract == INSTANCE ForkChoice WITH canon <- db.mat
ImplementsForkChoice == Abstract!Spec

(* A fork tip goes away only when its chain grew or it was too far behind.     *)
ForksSurvive ==
    [][\A t \in Tips(db) \ Tips(db)' :
          \/ \E c \in Tips(db)' : t \in Elements(db.anc'[c])
          \/ Idx[t] < Idx[LongestTip(db)'] - PruneDepth]_vars
=============================================================================
