# A TLA+ model of a gumptionchain node

gumptionchain is a proof-of-work ledger: transactions move *grains* between addresses and stake them for or
against *subjects*; millers bundle transactions into blocks; nodes gossip blocks and transactions over HTTP, keep
every fork in a SQL database, and expose the longest chain. This directory specifies the node
(`src/gumptionchain/*.py`), checks small instances with TLC and proves the properties that matter most, for
every instance, with TLAPS.

    tlasany ChainStore.tla
    tlc -config MCChainStore_seq.cfg MCChainStore
    tlapm ChainStoreProofs.tla

`tlc -workers 2` is enough for every run; the longest takes two to three minutes.

`PROJECT.json` lists the components, the runs, a mutant for every checked property, the source lines every
definition translates, the hazards, and the theorems.

## 1. Inventory

| component | state | operations | hard because |
|---|---|---|---|
| **Chain store** (`models.py` BlockDAO, ChainDAO, LongestChainBlockDAO; `chain.py` Chain.to_dao/to_db; `block.py` to_db) | `block` rows with `prev_id`; one `chain` row per fork tip; `longest_chain_block(position, block)` | store a block, move or create a chain row, sync the materialization (smart reorg), prune stale forks | reorgs, two commits per block, row ids kept across commits and reused |
| **Block acceptance** (`node.py` receive_block, process_block, add_block; `command.py` import; sync_forward) | none of its own; ids and rows read before a commit | duplicate check, validate, commit, commit, signal, gossip | gunicorn threads and CLI processes share one database; crashes |
| **Backward fill** (`node.py` fill_chain) | staged blocks (`chain_fill*`), one open transaction | walk back over peers, apply all, commit, signal | rollback of a batch, concurrent acceptance of a staged block, depth cap |
| **Block and ledger rules** (`chain.py` validate_block, validate_block_txn, validate_txn_inflow, validate_block_coinbase; `block.py` validate) | the ancestry of a block | link, target, balance by kind and subject, spent check along the ancestry, coinbase | double spends across forks, conservation with halving, order of outflows |
| **Target** (`chain.py` block_target, get_block_by_reverse_index) | timestamps and targets of the last 24 blocks | retarget every 24 blocks | clamps, floor, first interval; looked up through the materialization |
| **Transaction pool** (`transaction.py` PendingTxnSet; `models.py` PendingTxnDAO, PendingIOflowDAO) | pending rows and the spends they reserve | receive, add, discard on confirmation, expire | one commit per row, removals that read before they delete, caps checked before the insert, reorgs |
| **Miller** (`miller.py`, `milling.py`, `command.py` mill) | a template block, the pool | build a template, seal, mill rounds, poll peers, submit | a template that grows stale or can never validate |
| **Archive** (`command.py` export, validate, import) | a file of blocks, one per line | append the canonical chain, resume from the last line | killed in the middle of a line, reorgs between exports and within their lookups |
| **Wallet** (`chain.py` create_*, their endpoints, commands and relay) | none of its own; the pool's reservations | build an unsigned transaction, sign, post | builds on one instant of chain and pool, validated much later |
| **Gossip** (`node.py` send_block, fill_peer, send_transaction; `api_client.py`; `tasks.py`) | peers, `visited_hosts` | forward, answer a 404 by pushing ancestors | lost requests, no retransmission, asynchronous acceptance |
| **HTTP API** (`api.py`; `models.py` SubmissionDAO, provenance, balances) | submissions by transactor, an answer cache | post block/transaction, caps, roles, read views | check-then-act caps, first-submitter race, reads of several statements, caches |
| **Signing, roles** (`signing.py`, `signing_key.py`, `attestation.py`) | none (keys, a freshness window) | sign, verify | clock windows; cryptography itself is out of scope |
| **Command line** (`command.py`), **browser** (`browser.py`), **proxy** (`node_proxy.py`) | none of their own | wrappers and views | - |
| **Keys and encodings** (`bech32`, `bip39`, `ed25519`, `derive`, `units`) | none | pure functions | out of scope |

How they interact: an HTTP request, a gossiped message, a miller's solved block or a CLI command calls `Node`,
which checks a block or transaction against the database and commits it; `new_block` is a synchronous
in-process signal raised after acceptance; gossip is a chain of HTTP posts made in the thread that accepted the
block. The only shared state between threads and processes is the database (SQLite, one writer at a time;
`Dockerfile` runs one gunicorn worker with 8 threads, and `mill`, `sync` and `import` are processes of their own).

What makes each part correct: every stored block has its whole ancestry; the canonical view is one chain, the best
one; a fork is forgotten only when it cannot come back; no listener hears of a block that is rolled back; no
chain spends an outflow twice or creates grains beyond the rewards; a pending transaction reserves its
spends, is eventually confirmed or dropped, and is never confirmed twice; what a wallet
builds is valid while its coins are there, and an address loses what it asked to pay and no more; a target is the
same from whatever chain it is computed; a miller does not mill for ever on an overtaken block; blocks and
transactions reach every connected peer, and the traffic they cause ends; an answer of the API is true of one chain.

## 2. Modules

| module | what it is |
|---|---|
| `ForkChoice` | abstract specification of the canonical chain: one linked chain, replaced only by a strictly better one |
| `ChainStore` | the chain store and everything that writes it: live acceptance, import, forward sync, backward fill, crashes |
| `Rules` | operators: the routing, settlement and mints of one transaction |
| `Ledger` | the value rules over a chain: transactions, metrics, coinbase |
| `Spending` | how a block's inflows are looked up in its ancestry, through a materialization that changes meanwhile |
| `Mempool` | the pending transactions: arrival, confirmation, expiry, the miller's template |
| `Gossip` | several nodes: the flood of blocks and transactions, fill_peer, Celery tasks, polls, the sync command |
| `Wallet` | what clients are given to sign, and what becomes of it in the pool and on the chain |
| `Api` | posts under a quota and reads with their cache, statement by statement |
| `Target` | the tree of blocks with times and targets, `block_target` and the lookups it is made of |
| `Milling` | millers and the archive over `Target` |
| `Lemmas` | facts the proofs share: loops as recursive functions, finite sets and their images, the greatest number of a bounded set, sums over finite sets |
| `ValueProofs` | what the rules add up to; inductive invariants and theorems of `Ledger` and `Wallet` |
| `ChainStoreProofs`, `SpendingProofs`, `MempoolProofs`, `GossipProofs`, `ApiProofs`, `MillingProofs` | inductive invariants and theorems of the module each is named after |
| `MC*` | the instances TLC checks (with `*.cfg`) |

The state modules are layers, not copies of each other. `ChainStore` takes "this block is valid after its parent" as a
constant (`Valid`); `Spending`, `Ledger` and `Target` are what that constant stands for: *where* an inflow is looked
up, *how much* its grains may become, and which target the block must meet. `Mempool` takes acceptance as one step and
keeps what the pool and the miller do around it; `Gossip` takes it as one step and keeps what nodes say to each other;
`Wallet` composes `Rules` with a pool and a chain reduced to one step each; `Milling` extends `Target`. `Api` keeps
the statements of one request and reduces the chain to the growth of two branches. Splitting them there is sound as
far as each one keeps the interleavings that matter to its own properties. The places where a layer leaks into
another, a reorganisation *during* a validation, a read or an export, are what `Spending`, `Api` and the archive of
`Milling` are about.

Isolation. All modules let a worker see the newest commit with every statement: SQLite with the default driver runs a
SELECT outside a transaction, and PostgreSQL's default is READ COMMITTED. Writes of one worker become visible at its
commit.

### ChainStore

State: `db` is the committed database: `db.anc[b]` is the list of block rows reached from `b` by `prev_id` (empty: no
row), `db.row[r]` the tip of chain row `r`, `db.mat` the rows of `longest_chain_block` by position. `tx` is what
fill_chain's open transaction sees, equal to `db` otherwise. Each worker (thread or process) has a program counter
`pc`, the block it handles with the chain-row id it read (`task`), the staged blocks (`queue`) and the blocks to
signal (`fresh`). `news` counts `new_block` signals and `lost` remembers, for the properties only, the blocks whose
second commit never happened.

| code | actions |
|---|---|
| `Node.add_block` up to `Chain.from_db(prev_hash)`, after the entry checks of receive_block/process_block, import or sync_forward | `Begin` (mode live, import, sync) |
| `Chain.validate_block` | `Validate`, `Reject` |
| first commit: `Block.to_db` | `CommitBlock` |
| second commit: `Chain.to_db` -> `to_dao`, `sync_longest_chain_blocks`, `_prune_stale_forks` | `CommitChain` |
| `new_block_signal.send` in process_block | `Announce` |
| `Node.fill_chain` | `FillStart`, `FillWalk`, `FillTooDeep`, `FillBegin`, `FillApply`, `FillReject`, `FillCommit`, `FillSignal` |
| process death, peer failure, `SQLAlchemyError` | `Fail` |

What is abstracted. A block is its hash; its header is a function of it (`Prev`, `Idx`, `Time`, `HashRank`), and
`Valid` stands for the checks that depend on the block and its ancestry alone (proof of work, merkle root, target,
transactions, coinbase), which `Spending`, `Ledger` and `Target` detail. A commit is atomic and SQLite has one writer:
`Unlocked` keeps others from committing while a batch is open. The duplicate check and the read of the parent's chain
row are one step (`Begin`): nothing between them is used later. The clock is left out: a block from the future is only
offered again later. The staging rows of fill_chain are `queue`: no code reads them after a crash. A new chain row
takes the id above the largest in use (`NextRow`), which is what SQLite does without AUTOINCREMENT, so that an id held
by a worker can come to name another fork.

Three smaller simplifications. A `ChainDAO` caches the answer of `_is_longest` until the process commits
(models.py:1060-1081), and a fill commits once for its batch; but each block of a batch looks its row up again, in a
session that holds rows weakly, and no code keeps a `ChainDAO` from one block to the next, so the model asks anew
(were one kept, a cached 'no' could skip a sync; `Api` has the cache, since its reads live long enough for it).
`validate_block` may, through `block_target` and `to_dao` (chain.py:137, 819-828), set the row whose id the worker
holds back to the worker's parent block; the first commit then writes that, and the second moves the same row to the
child. The model moves it once, in `CommitChain`, and leaves out the state in between. And the batch of a fill takes
the lock when it begins, a little before its first write.

Properties of `ChainStore`:

- `AncestryComplete`: stored blocks have their whole ancestry stored, linked, with consecutive heights.
- `MaterializationIsAncestry`: `longest_chain_block` is exactly the ancestry of one stored block.
- `ForkTipsDistinct`: chain rows have different, stored tips.
- `NoForkAhead`: no chain row is ahead of the materialization, also with workers that hold stale row ids.
- `SignalledStored`, `SignalledOnce`: a listener hears only of committed blocks, once each.
- `CanonicalIsLongest`, `BestBlockIsCanonical`: the materialization ends in the longest chain's tip, and that tip is
  the best block stored (those aside whose second commit failed).
- `ForksSurvive`: a fork's row goes away only because the chain grew or it is further behind than the pruning depth.
- `ImplementsForkChoice`: under the mapping `canon <- db.mat` every step is a step of `ForkChoice` or a stutter.

### Rules and Ledger

`Rules` has what one transaction may do with what it consumes. The flows of a transaction are a function from
positions, or from coins, to records; what goes to a destination, what is kept and what is rescinded are sets of
positions, and an amount is a sum over such a set (`Total`). `Balance` is the loop over the outflows, as a recursive
function of the number already settled: the order matters, since one running balance serves them all. `Ledger`'s
specification is `LedgerSpec`, over the variables `ledger`, so that a module can extend both it and `Wallet`. Its
state: `coins` counts the unspent outflows of each destination and amount (of the chain and of its open block),
`metrics` is the `CoinbaseMetrics` of the open block, `height` the number of blocks; `minted` and `rescinded` are
histories for the properties.

| code | definitions |
|---|---|
| `validate_block_txn`: routing of inflows, settlement of outflows in order, zero balances | `Rules`: `Given`, `Settle`, `Balance`, `Nothing` |
| `_net_stake_mint`, the rescind mints, `CoinbaseMetrics` | `Rules`: `NetStakeMint`, `RescindMint`, `CoinbaseMetrics` |
| a transaction of the open block | `AddTxn` |
| `validate_block_coinbase` and `CoinbaseTransactionModel` | `CloseBlock` |

A subject is a model value. In `Ledger` an address is left out (payments are one destination): who owns an outflow,
and the ban on consuming a rescind, are in `Wallet` (`ValidOn`). The destinations of a coinbase are free, as in the
code, a rescind included. Properties: `Conserved` (every grain is accounted for by a coinbase or a rescind),
`SupplyBound` (counting a staked grain half, the chain never holds more than its rewards, whatever is staked, restaked
and rescinded), `StakeIsLocked` (a stake leaves its subject and side only by a rescind).

### Spending

State: `stored` are the block rows, `canon` is `longest_chain_block`, `job[w]` the validation worker `w` is in: the
block, the inflow, which of the two questions (is the outflow in the ancestry, has something there consumed it), and
within it the progress of `BlockDAO._ancestry`. `reorged`, `tainted` and `refused` are histories.

| code | actions |
|---|---|
| `Chain.validate_block`, then `validate_txn_inflow` per inflow | `Begin` |
| one lookup of `BlockDAO._ancestry` | `Walk` |
| `get_transaction_in_chain`, `inflows_in_chain_count` and what the caller makes of the answer | `Pass`, `Refuse` |
| the commit of the block row, for which each inflow needs a row of its outflow | `Store` |
| an error, a duplicate, the death of the process | `Abandon` |
| `sync_longest_chain_blocks` by any worker | `Adopt` |

Properties: `NoDoubleSpendUnlessReorged`, `InflowsOnChainUnlessReorged` and `RefusedForCause` say that a validation no
reorganisation overlapped answers exactly what the block's own ancestry says, whatever else was stored, extended or
spent on other forks meanwhile. `NoDoubleSpend`, the claim without that condition, is violated (below).

### Mempool

State: `pending` and `reserved` are the `pending_txn` and `pending_ioflow` rows, `rows` the transactions any stored
block contains, `branch` and `best` a chain and its rival, `now` the clock, `job[p]` what a process is doing: a
worker, or `Lister`, which does nothing but list the pool. A transaction lists the outflows it consumes in order;
nothing in the code keeps one from being listed twice, so a reservation is a transaction and a position.

| code | actions |
|---|---|
| `Node.receive_transaction` | `Submit`, `Admit` |
| `PendingTxnSet.add`: the row, then per inflow a lookup and a commit | `Add`, `Find`, `Reserve` |
| acceptance of a block of a peer, live or by fill_chain | `ReceiveBlock` |
| `_discard_confirmed_pending` | `Prune` |
| `discard_expired` by the pool listing or the miller | `Expire`, `Refresh` |
| `Miller.create_block` | `Refresh`, `Build`, `DiscardFailed`, `Seal` |
| the flush of any removal: the rows whose reservations were read | `Delete` |
| `Miller.mill_block` with a solved block | `Solve` |
| an error, the end of the rounds, the death of the process | `Drop` |

A removal has two steps, since `session.delete` first reads the reservations of the rows (`Load`, a part of `Prune`,
`Expire`, `Refresh` and `DiscardFailed`) and then deletes what it read (`Delete`). The check of a template (`Fits`) is
that of `validate_block_txn` with `txn_in_block=False`, the check of a block (`ValidBlock`) counts every inflow of the
block too. A template takes from the pool in one step (`Build`), of the chain it was linked to before it removed the
expired (`Refresh`); the code queries once per inflow. The branches are two, and the second displaces the first only
when it is longer. `MAX_TRANSACTIONS` and the amounts are left out. The size limit, the timeout and the clock are
constants. `raced` remembers the transactions whose removal had read the reservations while a worker was about to
commit one, in whichever order the two began.

- `SoftCap`: the pool exceeds its limit by less than the number of workers.
- `TemplateFollows`: the transactions of a template follow the chain it was built on and each other: whatever one
  consumes is made before it, and nothing else consumes it. It does not say that the sealed block is valid (see 5).
- `ReservationsLeaveToo`: a reservation belongs to a pending transaction, except where that race left it behind.
- `EveryPendingLeaves`: liveness; also what was confirmed by a fill, or added again behind its own block, or can be in
  no block, leaves.

### Gossip

State: `stored` are the blocks and transactions of each node; `threads` are the handlers, tasks and milling loops that
forward an item (peers still to try, visited hosts, the peer being filled, the call waited for, the answer owed);
`requests` and `answers` are on their way; `jobs` are queued Celery tasks; `poll` and `sync` the progress of a
miller's poll and of a sync command. `vain` (a tip announced by a node that failed to fetch it), `falseFork` and
`faults` are histories.

| code | actions |
|---|---|
| `Node.send_block`, `send_transaction`: the loop over the peers | `SendNext`, `Finish`, `Return` |
| `Node.fill_peer` | `Walk`, `Push`, `AfterAnswer` |
| the endpoints and `receive_block`, `receive_transaction` | `ReceiveKnown`, `ReceiveMissing`, `Receive`, `ReceiveLater` |
| `tasks.post_process` | `RunJob`, `LoseJob` |
| a solved block, a client's transaction | `Mine`, `Submit` |
| `poll_latest_blocks` with `fill_chain` | `PollRead`, `PollFill` |
| `sync_forward` | `SyncStart`, `SyncFetch`, `SyncBlock` |
| a lost request, a client timeout, the death of a node | `Lose`, `TimeOut`, `Crash` |

Posts are synchronous and nested: a handler answers only when its own forwarding is done, so a thread can wait for a
thread that waits for it in turn. A transaction has no parent and is never refused here (`Mempool` has the refusals).

- `ItemsReachAll`: liveness; without faults every block and transaction some node has reaches every node.
- `VisitedHaveIt`: whoever a request names as visited has the item, but for the announcer of a tip it failed to fetch:
  skipping visited hosts loses nothing.
- `AncestorsStored`: no way into a node stores a block without its ancestors.
- `TrafficEnds`, `PollersAgree`: liveness with faults; the traffic of an item ends, and a node that polls ends with
  the tips of its peers stored.
- `OnlyForksDiverge`: a sync that nobody disturbs never reports its own progress as a fork.

### Wallet

State: `made` are the transactions built, `held` what each client has not posted yet, `posted` and `pending` the pool,
`chain` the transactions of the canonical chain, `rows` those of any stored block; the rest is history.

| code | definitions and actions |
|---|---|
| `unspent_outflows`, `unrescinded_address_outflows`, `filter_pending` | `Coins`, `Available`, `Before` (the order of the list), `Taken` |
| the query models of the endpoints, the proxy's relay | `Admissible` and its parts, `Relayed` |
| `create_transfer`, `create_split`, `create_opposition`, `create_support`, `create_rescind` | `Wanted`, `Change`, `Build` |
| sign and post; the checks of form | `Post`, `Abort`, `WellFormed` |
| acceptance, discarding, expiry, a reorganisation, a peer's pool | `Confirm`, `Discard`, `Expire`, `Reorg`, `Return` |

A transaction with too many flows may be refused by the client already, which parses it before it posts it; for the
properties it is the same whether the client or the node refuses. A peer gives each transaction back once. Coinbases
are left out: the genesis has coins of every address. Properties: `DiscardedForCause` (a miller discards what a
builder made only when a coin is gone), `OnlyDustIsRefused` (a node refuses it only because of too many coins),
`OnePromisePerCoin` (no two pending transactions consume a coin, unless one came back from a peer),
`LosesOnlyWhatItAsked` (over any chain, an address owns what it had, less what it asked to pay or rescind, plus what
others asked to pay it).

### Api

State: `height` and `best` are two branches and the canonical one, `pending` the pool, `submission` who was first
recorded for a transaction, `cache` the answers, `job[w]` the request and the statement worker `w` is at. A read also
carries the tips that were canonical while it was served (`seen`) and whether a reorganisation overlapped it.

| code | actions |
|---|---|
| posting a transaction: quota, checks, addition, `SubmissionDAO.record` | `PostTxn`, `CheckQuota`, `CheckTxn`, `AddTxn`, `Record`, `Die` |
| the tip and the cache | `Read`, `Lookup`, `Key` |
| balance, search and leaderboards: outflows and inflows, each by `_is_longest` or `_ancestry` | `RouteOutflows`, `RouteInflows`, `Execute`, `Longest` |
| provenance of a transaction | `FindAncestry`, `Scan`, `Locate`, `Orphan`, `Pool` |
| blocks and expiry meanwhile | `AddBlock`, `Expire` |

`Longest` is the per-object cache of `_is_longest` (models.py:1073): the answer of now, or, if this process did not
bump its counter, the one of before. A balance is the set of blocks its sums range over. A block drops the cached
answers that nobody is reading, one of the other branch too: the code would keep those of an unchanged tip a little
longer. Properties: `AnswerIsOfAChain`, `CanonicalAnswerHolds`, `QuotaHolds`; the first two speak of reads no
reorganisation overlapped (see 5).

### Target and Milling

`Target` has the stored blocks with their times and targets and the canonical tip; `GetBlock` and `ByReverseIndex` are
the lookups through the materialization or along the chain, `BlockTarget` and `Retarget` the target, `Valid` what
validation asks of a header. The code scales by a float, which rounds to 53 bits of a 256-bit target, on every node
alike; here the factor is exact. A lookup of the target is one step, and one canonical tip serves both lookups of
`block_target` (chain.py:158, 164): that a reorganisation splits one, as in `spending_reorg_race`, is left out there.
`Link` changes nothing but the miller, although the lookup of the target may set the chain row back to the tip that
was read (chain.py:137, 819-828) if it moved meanwhile.

| code | actions of `Milling` |
|---|---|
| `Chain.link_block`, `seal_block` | `Link`, `Seal` |
| `milling_generator`: a round; `mill_block`: the check for a longer chain; submission | `Round`, `Check`, `Submit` |
| a block of a peer, made on any canonical tip of its own | `PeerBlock` |
| `export`: the longest chain and the last line of the file | `StartExport` |
| `get_block`, by hash or index: `_ancestry`, then the query | `Walk`, then one of the next two or `WriteNext` |
| the last line in the chain; the first block to write | `CheckLastLine`, `WriteFirst` |
| `next_block`: the children of the block just written, one lookup each | `ReadChildren`, `WriteNext` |
| death of an export, with part of what it wrote on disk | `KillExport` |

The file is the list of its blocks; `bare` has the positions of the blocks without a newline after them, `torn` says
that it ends in the middle of a block. A cut in the middle of a block makes `Block.from_json` fail in every later
export, and so does a last line of two blocks; a last line that only lacks its newline is read as a block, and the
next one is written on the same line. `_ancestry` is one step, though it reads block by block: when the
materialization changes under it, it ends lower and keeps more of the chain's own blocks. `split` remembers that a
reorganisation between a walk and its query cut off part of what the walk had found canonical.

- `TargetsAgree`: the target of a stored block comes out the same from every chain above it, with or without a row,
  whichever tip is canonical; this is what `validate`, `import` and other nodes compute.
- `RetargetFollowsTime`: fast intervals never get easier, slow ones never harder below the maximum, by a factor of 4
  at most.
- `SealedStaysValid`: the header that a miller is searching a proof for would be accepted, however the tree has
  changed. The transactions are `Mempool`'s, and there a block can be sealed that its own node refuses.
- `ArchiveIsAChain`: unless a lookup was split, the file is one linked chain from the genesis, whatever was killed,
  resumed and reorganised, and a finished export ends with its tip. Split or not, no line holds three blocks.
- `OvertakenGivesUp`: liveness; an overtaken miller stops.

## 3. Runs

| run | instance | result |
|---|---|---|
| `store_one_writer` | 1 worker, 8 blocks: two genesis blocks, a branch of 2 and one of 3 with a tie decided by time at height 1 and by hash at height 2, a block with a wrong height; 5 rows; pruning depth 1; fill depth 2 | passes, about 94,000 states |
| `store_two_writers` | 2 interchangeable workers, 5 blocks | passes, about 1.6 million states |
| `ledger_value` | 2 interchangeable subjects, reward 2, amounts up to 3, transactions of up to 2 inflows and 2 outflows, 2 closed blocks and an open one | passes, about 8,000 states |
| `spending_two_workers` | 2 interchangeable workers, 8 blocks: two forks that share a transaction, a double spend, a spend of the other fork's outflow, a block that spends what it makes, a sibling that wins the tie | passes, about 1.5 million states |
| `spending_reorg_race` | the same | violated (see 5) |
| `mempool_pool` | 2 interchangeable workers and the listing process; two transactions that conflict, one of which lists the outflow twice, and one that depends on the first; a branch of 1 block and a rival of 2; limit 1, timeout 1, clock 0..1 | passes, about 1.9 million states |
| `mempool_expiry` | 1 worker and the listing process; the two that conflict; limit 2; timeout 1, clock 0..3, so that every transaction expires | passes, about 206,000 states, safety and liveness |
| `gossip_flood` | 3 synchronous nodes on a line; a genesis with two competing children and a transaction, mined and submitted anywhere; no faults | passes, about 300,000 states, liveness |
| `gossip_catchup` | a synchronous node that polls and syncs, an asynchronous peer; a genesis and two competing blocks; one fault | passes, about 200,000 states, safety and liveness |
| `wallet` | 2 addresses, 1 subject, up to 3 transactions of every kind, 2 inflows and outflows each | passes, about 760,000 states |
| `api` | 2 interchangeable workers; 3 transactions, one of which both branches (of 3 and 2 blocks) confirm, at different heights; a transactor with quota 1 and a miller, who has none; balance, search and provenance | passes, about 4.2 million states |
| `milling` | 1 miller, then 3 exports; every tree of up to 5 blocks; interval 2 of 1 second, so that two retargets happen; maximal target 7; clock 0, 1 or 6 | passes, about 104,000 states, safety and liveness |

Bounds. `MaxRow` = 5 exceeds the number of tips the trees can have, so `ChainRow(...) \in RowId` never stops an
action. Pruning depth 1 and fill depth 2 are small so that pruning, and the depth cap, happen within a tree of height
3. A worker handles any block any number of times, in any mode, and may fail at each step. With two workers the tree
has one fork; a deeper one adds no new kind of step: a stale row id, a reused one and a lost second commit all occur.

The ledger's bounds let each kind of transaction occur: partial rescinds with change, restakes, mixed stakes, all four
mints, odd amounts (the floor), and a stake made by one block, moved by the next and rescinded in the third.
`Conserved` and `SupplyBound` are sums, so a fault in one transaction shows within that one block. `Spending` needs
forks of two blocks, so that the cap of a walk can mean a position in another chain, and two workers because each is a
validation the other's blocks may disturb; `Adopt` is a step of anybody. In `Mempool` the limit is 1, so that two
workers overshoot it at once; three blocks suffice for a reorganisation that orphans a confirmed transaction. Nothing
expires in `mempool_pool`, whose clock is there for stamps that are ahead of it: its removals are confirmations and
discards. In `mempool_expiry` the clock passes the cutoff of every transaction, the transaction that no block can hold
among them, with a removal by the worker and one by the lister at once.

In `gossip_flood` the line has a middle node, through which floods from both ends cross, and the two children of the
genesis overtake it: a 404 and a fill happen without a fault. The second instance has the faults: one is enough for
each kind of loss, and what two would add is a second loss of the same kind. `MaxTxns` = 3 in `wallet` is one
transaction to make change, one that consumes it and one that competes; two inflows are few enough that scattered
coins exceed them. In `api` a read takes up to six statements and branches of 3 and 2 blocks allow two extensions, or
an overtaking, between any two of them. The constraint `Small` explores posts and reads one after the other: the posts
of all three transactions on a chain of at most one block, and the reads once one transaction has been posted. A read
changes nothing a post looks at, and all a read sees of the posts is whether its transaction is pending. In `milling`,
interval 2 puts the boundary blocks, both clamps (an interval of no time, and one of 6 seconds instead of 1 on a
target of 1), the floor and the cap within five blocks. Exports start when the millers are idle and the clock stands
at 0, and no miller starts afterwards: they share nothing but the tree, in which times do not matter to an export. Two
exports give a lost newline and the block written behind it, the third meets the line of two. A split lookup that ends
an export early occurs within five blocks; one that writes a block of another branch needs six, and occurs there
(checked once, with a clock that stands still and no miller), so the condition is not idle.

Deadlock is checked in `ChainStore`, `Mempool` and `Api`, where there is always a step to take. It is not where the
system, or its bounded instance, really stops: `Ledger` at `MaxHeight`, `Spending` once every offered block is stored,
`Gossip` when the traffic is over, `Wallet` and `Milling` at their bounds.

Fairness. `Mempool`: time passes, and the expiry pass runs again and again, its removals not always failing before
they are committed (strong fairness of `Delete(Lister)`). The second is what a running node does: `mill` builds a
template in an endless loop (command.py:640), each of which discards the expired (miller.py:66), and every listing of
the pool does too (api.py:758). No worker is assumed to make progress: the pool empties although workers may die at
any step. `Gossip`: handlers, tasks and threads that wait for nothing go on (`Forward`), a miller polls before every
round (`Polling`), and a sync command that was started goes on (`Syncing`); nobody has to mine, to submit or to start
a sync, and a fault is never forced. `Milling`: a miller's rounds end, each is followed by the check for a longer
chain (miller.py:123-138). That rounds end is the setting of the command: with `--rounds 0` only a proof ends one.

## 4. Proofs

Every theorem is about `Spec` (of `Ledger`: `LedgerSpec`) and holds for every value of the constants that the named
assumptions allow; TLC evaluates those assumptions on every instance. Each component has one inductive invariant,
proved in three steps: it holds initially, every step keeps it (one lemma per action or group of actions), and it
implies the property. TLC checked the invariant on an instance before it was proved.

### ChainStore

From `HeaderAssumption`, `BoundAssumption` (the types of the constants) and `HashAssumption` (different blocks have
different hashes). For any number of workers:

| theorem | states |
|---|---|
| `StoreIsInductive` | `[]IInv` |
| `TypeCorrect` | `[]TypeOK` |
| `AncestryIsComplete` | `[]AncestryComplete` |
| `CanonicalChainIsOneAncestry` | `[]MaterializationIsAncestry` |
| `ForkRowsAreDistinct` | `[]ForkTipsDistinct` |
| `NoRowIsAhead` | `[]NoForkAhead` |
| `SignalsFollowCommits` | `[]SignalledStored` |

`IInv` says more than the properties: the uncommitted database is as sound as the committed one, contains it, and
equals it unless one worker, the only one, is inside a batch; a worker past validation still has its parent stored
(`LinkOK`); a worker past its first commit has its block stored. These facts survive the steps of the others because
block rows are never removed (`OthersKeep`). The two lemmas about data are `StoreBlockOK` (a block whose parent is
stored keeps every ancestry complete) and `MaterializeOK` (truncating at the common ancestor and appending the rest
turns one ancestry into another), which needs that the walk back finds a *last* block in the materialization.

For one worker, that is under the hypothesis `Worker = {w}`:

| theorem | states |
|---|---|
| `SoloIsInductive` | `[](IInv /\ SoloOK(w))` |
| `CanonicalShowsLongest` | `[]CanonicalIsLongest` |
| `BestBlockWins` | `[]BestBlockIsCanonical` |
| `NewsOnce` | `[]SignalledOnce` |
| `NoForkIsLost` | `ForksSurvive` |
| `StoreImplementsForkChoice` | `ImplementsForkChoice` |

The hypothesis is not a convenience: with two workers each of the five fails (see 5: a stale chain row, a double
signal). What it adds is `SoloOK`: the materialization ends in the longest chain's tip and every stored block is at
most as good, those aside whose second commit failed or is still to come (`SoloStores`, of both databases, together
with what an open batch has improved so far); the chain-row id a worker read is still that of its parent (`SoloTask`);
and what is to be signalled was not stored before (`SoloNews`). A step that moves a row or opens one changes the set
of tips by one, and the new longest tip is the old one or the moved one (fork choice is a total order because hashes
differ); a row is pruned only when it is further behind than the depth. The refinement follows step by step: a commit
maps to `ForkChoice`'s replacement when the best block changed, every other step to a stutter.

### Spending

From `BlockAssumption` and `AncestryAssumption` (an ancestry ends with its block, and contains the ancestries of its
blocks), for any block tree, transactions and workers:

| theorem | states |
|---|---|
| `SpendingIsInductive` | `[]IInv` |
| `SpendingTypeCorrect` | `[]TypeOK` |
| `SpentOnceUnlessReorged` | `[]NoDoubleSpendUnlessReorged` |
| `InflowsAreOnChainUnlessReorged` | `[]InflowsOnChainUnlessReorged` |
| `RefusalsHaveCause` | `[]RefusedForCause` |

The argument: while no reorganisation overlaps a job, the divergent blocks and the rest of the walk make up the
ancestry (`Resolved`), and the canonical chain agrees with the ancestry up to the cap (`Capped`), since a chain that
is only extended keeps its positions. So a query reads the ancestry, no less and no more (`ViewIsAncestry`), and its
answer is right (`AcceptsRightly`); what has been answered so far is right (`Settled`) and does not change, because an
ancestry is a constant. `JobOK` collects these; it is needed because the three properties speak only of finished jobs.

### Mempool

From `TxnAssumption` (the types, and that `InOrder` lists the transactions by time stamp) and `PoolAssumption`
(finitely many workers, at least one):

| theorem | states |
|---|---|
| `MempoolIsInductive` | `[]IInv` |
| `MempoolTypeCorrect` | `[]TypeOK` |
| `PoolStaysBounded` | `[]SoftCap` |
| `ReservationsNeverDangle` | `[]ReservationsLeaveToo` |
| `TemplatesFollowChain` | `[]TemplateFollows` |

`SoftCap` is not inductive: the strengthening bounds the pool *together with* what the workers that passed the check
are about to add (`PoolBound`), so that an insertion changes nothing and only the check can raise it. A reservation
about to be committed is for a transaction that is pending or raced, and a removal under way holds every reservation
of its rows, but for the raced ones (`JobOK`); only a step that marks the race can break either. A template fits the
first `height` blocks of the branch it was built on, which never change. The miller's selection is a loop, here a
recursive function: one round keeps what it has taken following the chain and itself (`TakeFacts`), and so do all of
them (`SelectFacts`), by induction over the rounds (`InductionUpTo`), which is within reach because what a round keeps
can be stated as a set of accumulators.

### Gossip

From `GossipAssumption` and `TreeAssumption` (a finite tree of blocks, siblings ranked), for any graph of peers, any
nodes, synchronous or not, and any number of faults:

| theorem | states |
|---|---|
| `GossipIsInductive` | `[]IInv` |
| `AncestorsAreStored` | `[]AncestorsStored` |
| `VisitedHostsHaveIt` | `[]VisitedHaveIt` |
| `SyncSeesNoFalseFork` | `[]OnlyForksDiverge` |

`VisitedHaveIt` speaks of requests on their way; the strengthening carries the promise (the host has the item, or
announced it in vain) through everything a request is made of and becomes: threads, with what they feed a peer
(`ThreadInv`), queued jobs (`JobInv`) and requests (`RequestInv`); it lasts because no node forgets. A walk back has
the parent it waits to push (`ThreadOK`). For the sync, what is left of a batch links block by block and, while the
peer is ahead, goes on from the tip the sync has reached (`SyncOK`); a block is above the tip it follows since the
lineage of a block is unique (`LineageFacts`, an induction over heights).

### Ledger

From `RulesAssumption` (finitely many subjects, at least two flows per transaction) and `LedgerAssumption` (the types
of the bounds), for any subjects, reward, amounts, number of flows and length of the chain:

| theorem | states |
|---|---|
| `LedgerIsInductive` | `[]LedgerInv` (the types, `Conserved` and `SupplyBound`) |
| `GrainsAreConserved` | `[]Conserved` |
| `SupplyIsBounded` | `[]SupplyBound` |
| `StakesStayLocked` | `StakeIsLocked` |

These are facts about sums. `Lemmas` proves what it needs of them from the definition of the fold: a sum over a finite
set exists and does not depend on the order of its terms (`SumsExist`, `AnyOrder`), so it grows term by term
(`SumStep`), adds over disjoint parts (`SumOfParts`), and can be grouped by a key, counted by value, or taken over
other names of its terms (`SumByKey`, `SumByCount`, `SumRenamed`). They are inductions over *sets*, written out for
the set of subsets that have the property (`FiniteInduction`), so that no theorem with an operator as a parameter is
needed.

The centre is the loop over the outflows. `SettleTakes` says what one round does: an outflow takes exactly its amount
from the balance as a whole, and a stake is drawn on by outflows of that stake alone. A history of the loop
(`IsHistory`) that starts from what was consumed and ends at `Nothing` has therefore taken all of it
(`SettledInFull`): what is kept and rescinded in all is what was consumed, and on each stake at least what was
consumed of it (`TxnIsEven`). The mints are halves of differences of these sums, stake by stake, and are at most half
of what is newly bound or ended (`CoveredSums`, `MetricsPay`). Last, the sums over flows become sums over bags of
coins (`ValueOfCount`), of which `Conserved` and `SupplyBound` speak, and the coinbase's list of nonzero amounts pays
what was earned (`CoinbasePays`).

### Wallet

From `WalletAssumption` (the genesis pays or stakes natural amounts and rescinds nothing; only a split asks for more
than one outflow; what is asked on a subject is a stake) and `RulesAssumption`, for any addresses, genesis, requests
and orders of events:

| theorem | states |
|---|---|
| `WalletIsInductive` | `[]IInv` |
| `CoinsArePromisedOnce` | `[]OnePromisePerCoin` |
| `RefusalsAreDust` | `[]OnlyDustIsRefused` |
| `DiscardsHaveCause` | `[]DiscardedForCause` |
| `AddressesLoseOnlyWhatTheyAsked` | `[]LosesOnlyWhatItAsked` |

`MadeOK` says what a builder made: it is backed by coins of its own address, of the one kind it draws on, that are
worth at least what was asked, and its outflows are what was asked and the rest (`HasShape`): at most as many as a
transaction may have, so only the coins can be too many. Outflows of that shape draw on one balance until nothing is
left (`OutsDrain`, `DrainedIsNothing`), so by the rules of validation, which know nothing of the builders, such a
transaction is valid as long as its coins are unspent (`BuiltComesOutEven`, `UnspentIsValid`): nothing is discarded
without a cause.

A transaction that a client holds, still to be posted, shares no coin with a pending one, but for those that a peer
gave back (`HeldOK`): the builder takes coins nobody has reserved, and nobody else builds with the coins of that
address meanwhile.

For what an address owns, the invariant has the books of a set of transactions (`Books`): they consume what they or
the genesis made, and what each address owns comes out of what was paid and asked. One more transaction whose coins
are unspent keeps the books (`BooksGrow`): the address that asked loses the coins consumed and gets the rest back, and
what was asked arrives where it should (`GivesIs`). A reorganisation takes transactions off the end of the chain, so
the invariant is about *every first part* of the chain (`ChainOK`); the property, about the whole chain alone, is not
inductive.

### Api

From `ApiAssumption` (the types of the constants, a positive quota, finitely many workers), for any clients, questions
and workers:

| theorem | states |
|---|---|
| `ApiIsInductive` | `[]IInv` |
| `AnswersAreOfAChain` | `[]AnswerIsOfAChain` |
| `CanonicalAnswersHold` | `[]CanonicalAnswerHolds` |
| `QuotaIsKept` | `[]QuotaHolds` |

A read no reorganisation has met is on the canonical branch, has seen every tip since its own (`Current`), and a
cached answer is either right for its tip or kept under a tip nobody can ask for again (`Left`): the height of the
best chain never falls, so a tip that was left is never read anew. For the quota, what counts is what a client is
charged for plus its requests that have passed the check (`Load`), which is at most the quota and one less than the
workers.

### Milling

From `TargetAssumption` (a positive interval) and `MillingAssumption` (the times and the bounds are numbers), for any
interval, largest target, millers and any tree of blocks:

| theorem | states |
|---|---|
| `MillingIsInductive` | `[]IInv` |
| `TargetsAreAgreed` | `[]TargetsAgree` |
| `TargetsFollowTime` | `[]RetargetFollowsTime` |
| `SealedBlocksStayValid` | `[]SealedStaysValid` |
| `ArchivesAreChains` | `[]ArchiveIsAChain` |

The centre is `GetBlockIs`: looking a block of a chain up through the materialization of *any* canonical tip finds the
block of that chain and no other, because two chains that share a block are the same below it (`ChainsPart`), so what
they share is a first part of each (`CommonPart`), and the cap is its length. Hence the target depends on the chain
alone (`BlockTargetIs`: it is `PathTarget`), and not on what is stored later (`PathTargetSame`); `TreeOK` says that
every stored block has the target of its chain, and `MillerOK` that every template has that of its own.
`RetargetBounds` is the arithmetic of the clamps and the division, for every target and time span.  For the archive,
`ArchiveAt` says that no two newlines in a row are missing (`LinesAt`) and, unless a lookup was split, that the file
is one chain whose last block is of the chain being exported while an export writes, and that the child of that block
in this chain is among those still to try (`OneChain`). A lookup that was not split finds the blocks of the chain and
no others (`VisibleIs`, from the same facts as `GetBlockIs`), so one child is found, unless the block is the tip
(`EndsThere`). A kill leaves a prefix, which is a chain again.

### What stays with TLC

- Liveness under fairness, and `ENABLED`, which the prover does not do: `EveryPendingLeaves`, `ItemsReachAll`,
  `TrafficEnds`, `PollersAgree`, `OvertakenGivesUp`.
- `ChainStore`'s `CanonicalIsLongest`, `BestBlockIsCanonical`, `SignalledOnce`, `ForksSurvive` and the refinement are
  proved, and checked, for one worker only: they are false of two.

Every other property of a passing run is a theorem. The types of `ChainStore` and `Mempool` (`TypeOK`) are proved and
not checked apart. No module uses a RECURSIVE operator.

## 5. Known divergences

Where the code does not do what its comments or documents say. The first is a run; the others are why a property above
is stated with a condition, or for one writer. Each was met as a trace of these modules, or while reading the lines
they are translated from.

Chain and blocks:

- `spending_reorg_race`: the position `_ancestry` found (models.py:344) is used by a later statement. If another
  worker replaces the canonical chain in between, the positions below it belong to another fork, a spend is
  overlooked, and a block that spends an outflow twice is stored. `NoDoubleSpendUnlessReorged` is what remains.
- Two genesis blocks: the check for another genesis (chain.py:220), which block.py:435 relies on, precedes the commit
  (chain.py:201, models.py:317-322); two workers can both pass it, and the lookup of the block with index 0 then finds
  two rows.
- A stale chain row: `Chain.to_dao` falls back on the chain-row id read before the first commit (chain.py:825-828). If
  a fill has extended that row meanwhile, the row moves back to the worker's older tip, and the materialization keeps
  a block above the longest chain until the next block arrives. Hence `CanonicalIsLongest`, `BestBlockIsCanonical` and
  `ImplementsForkChoice` are claims about one writer, and the theorems claim for any number of writers only what holds
  there.
- A double signal: two threads given the same new block both signal it (node.py:180-185, against signals.py:6);
  fill_chain guards against exactly this (node.py:433-447), process_block does not. `SignalledOnce` is for one writer.
- `sync_forward` reports 'diverged' of a chain that extends the node's own when gossip delivers a block of the batch
  meanwhile (node.py:538, against the docstring above it); `OnlyForksDiverge` leaves these aside.
- 24 blocks have 23 gaps (chain.py:163-165): at a steady rate the target settles where a block takes 7200/23, about
  313, seconds, not the five minutes the comments name.

Transactions and pool:

- An orphaned transaction: node.py:200-203 and tests/test_mempool_prune.py:81-82 say that it comes back when it is
  sent again; it is refused as already mined (node.py:95-96), because a row of it stays.
- A dangling reservation: one that is committed after its transaction was removed, or between the statement that reads
  the reservations of a row to be removed and the one that deletes them, stays for ever where SQLite does not enforce
  the foreign key (transaction.py:427-447, models.py:1396-1398, 1542-1544, against models.py:1525-1529); on PostgreSQL
  the commit, or the removal, fails. The outflow it names is then never offered by the builders again.
- A transaction that lists an outflow twice: nothing refuses it on arrival. `create_block` counts the outflow's
  inflows before the transaction is in the block (miller.py:90: none), the block's validation afterwards
  (chain.py:396-400, 445-466: two), so each template takes it and each solved block is refused, until it expires.
  Likewise a template with a transaction that spends an outflow of another in it: the block of such a pair cannot be
  stored before a row of the maker is.
- A block sealed with a transaction stamped ahead of the miller's clock is refused by the miller's own node.
- On an asynchronous node, the task finds the transaction already pending and forwards it to nobody (api.py:455-461,
  docs/configuration.md:42): `gossip_flood`, which has a transaction, is of synchronous nodes.
- The builders gather coins without bound (chain.py:480-487): an address whose grains are scattered over more than
  `MAX_FLOWS` coins is given transactions every node refuses. `OnlyDustIsRefused` says that nothing else is.
- `_funds_error` (chain.py:536-547) promises that a block will free the change; the pending transaction may have none.
- The commands compute grains as `int(100 * float(grit))` (command.py:57-58): 0.29 GRIT is 28 grains (0.57, 0.58 and
  1.13 fall short too), though units.py:3-9 calls itself the one place of conversion.

Archive:

- A lost newline: the newline of a block is a write of its own (command.py:509-510). If a kill loses only that,
  `read_last_line` (command.py:146-154) takes the last line for a block and the next export writes on the same line,
  which import cannot read; as long as that is the last line, every export fails.
- A split lookup: `next_block` (models.py:1241-1245) looks the child up by `_ancestry` and a later query
  (models.py:324-352, 455-485). If a reorganisation comes in between, it finds nothing and the export ends early
  without an error, or it finds a child of another branch and the file is no chain from there. `ArchiveIsAChain`
  leaves these aside.

Answers:

- `as_of_block` may label a newer tip's value: the answer is computed after the tip was read
  (docs/api-reference.md:112-118). `AnswerIsOfAChain` asks only for one chain that was canonical while the request was
  served.
- A reorganisation during a read can mix two chains, or answer 'orphaned' for a transaction confirmed between two
  statements (docs/api-reference.md:82-85), or 'not found' for one that was just confirmed.
- The quota comment (api.py:440-443) speaks of "overshooting by one". A transaction that expired and is posted again
  by somebody else stays charged to the first, and a crash between the addition and its record leaves a pending
  transaction nobody is charged with. `QuotaHolds` leaves out the former; the latter is no one's.
- The node proxy reports an orphaned transaction as pending, and reads two balances at possibly two tips.

## 6. Not modelled

Cryptography (signatures, addresses, the merkle tree, hashes) is assumed to do what it says, and with it request
signing and its clock window; what a verified address may do is in `Api`. The proof-of-work search is a random event.
The browser pages, the schemas, the encodings (bech32, bip39, units, key files) and the printed parts of the command
line keep no state; `init` and key commands write files once. Pagination and the layout of answers are left out.

## 7. What is left

1. A composition of `Spending` and `Ledger`: that the coins a block may consume by the lookups in its ancestry are
   those of the chain it extends, so that the balances of `Ledger` hold of every stored branch.
2. Larger instances: a ring of three gossiping nodes with an asynchronous one, two millers beside each other.
3. A composition of `Mempool` and `Gossip`: what a pool that is full, or that refuses, does to the flood of a
   transaction.
