------------------------------ MODULE Mempool ------------------------------
(***************************************************************************)
(* The pool of pending transactions of a node and everything that changes    *)
(* it: Node.receive_transaction (node.py:81-109), PendingTxnSet.add, one     *)
(* commit for the transaction and one for each outflow it reserves           *)
(* (transaction.py:403-447), the prune of a live accepted block             *)
(* (node.py:188-212), expiry (models.py:1521-1548), and the miller's          *)
(* template, which discards what it cannot use (miller.py:80-104).           *)
(*                                                                         *)
(* The chain is a list of sets of transactions.  It has one rival: a second   *)
(* branch from the genesis that displaces it when it gets longer.  How blocks *)
(* are stored, and validated, is in ChainStore and Spending; here a block     *)
(* is accepted in one step.                                                  *)
(***************************************************************************)
EXTENDS Integers, Sequences, SequencesExt, FiniteSets

CONSTANTS
    Txn,           \* transactions, by txid
    Inflows,       \* the outflows a transaction consumes, in order
    Maker,         \* the transaction that makes an outflow, or NoTxn
    NoTxn,         \* makes the outflows the genesis block already has
    Stamp,         \* the timestamp of a transaction
    InOrder,       \* the transactions by timestamp, then txid
    Worker,        \* threads and processes that share the database
    Lister,        \* one more, which does nothing but list the pool
    Timeout,       \* TXN_TIMEOUT
    MaxPending,    \* MAX_PENDING_TXNS
    MaxTime,       \* bound: the last instant
    MaxHeight      \* bound: blocks of each branch

Process == Worker \cup {Lister}

Spent(t) == Range(Inflows[t])

ASSUME TxnAssumption ==
    /\ NoTxn \notin Txn
    /\ Inflows \in [Txn -> Seq(DOMAIN Maker) \ {<<>>}]
    /\ Stamp \in [Txn -> Nat]
    /\ InOrder \in Seq(Txn) /\ Range(InOrder) = Txn
    /\ \A i, j \in 1 .. Len(InOrder) :
          i < j => InOrder[i] # InOrder[j] /\ Stamp[InOrder[i]] <= Stamp[InOrder[j]]

ASSUME PoolAssumption ==
    /\ IsFiniteSet(Worker) /\ Worker # {} /\ Lister \notin Worker
    /\ MaxPending \in Nat

VARIABLES
    pending,      \* pending_txn rows
    reserved,     \* pending_ioflow rows, <<transaction, position of the inflow>>
    rows,         \* transaction rows: what any stored block contains
    branch,       \* two branches of blocks, each a set of transactions
    best,         \* the canonical one
    now,          \* the clock
    job,          \* what each worker is doing
    raced         \* history: removed while an outflow was being reserved for them

vars == <<pending, reserved, rows, branch, best, now, job, raced>>

NoJob == [op |-> "idle"]

Txns(blocks) == UNION Range(blocks)
Confirmed == Txns(branch[best])
Ordered(S) ==
    LET upTo[i \in 0 .. Len(InOrder)] ==
            IF i = 0 THEN <<>>
            ELSE IF InOrder[i] \in S THEN Append(upTo[i - 1], InOrder[i]) ELSE upTo[i - 1]
    IN  upTo[Len(InOrder)]

(* A transaction is expired when it is older than the cutoff at an instant.   *)
Expired(t, at) == Stamp[t] < at - Timeout

(* The transactions that a worker has read again and is about to reserve for.     *)
Underway == {job[p].txn : p \in {q \in Process : job[q].op = "insert"}}

(* The transactions of which a process has read the row and the reservations, and  *)
(* which it is about to delete.                                               *)
Doomed == UNION {job[p].rows : p \in {q \in Process : job[q].op = "delete"}}

Become(p, j) == job' = [job EXCEPT ![p] = j]

(* Mutant of Load: the reservations are not loaded with the row.                 *)
LoadRows(p, S, next) ==
    /\ Become(p, IF S = {} THEN next
                 ELSE [op |-> "delete", rows |-> S, flows |-> {}, next |-> next])
    /\ raced' = raced \cup (S \cap Underway)

(* A removal starts: the rows of these transactions are read, and their            *)
(* reservations, which session.delete loads to delete them too; then the process   *)
(* goes on with its next job.                                                 *)
Load(p, S, next) ==
    /\ Become(p, IF S = {} THEN next
                 ELSE [op |-> "delete", rows |-> S,
                       flows |-> {r \in reserved : r[1] \in S}, next |-> next])
    /\ raced' = raced \cup (S \cap Underway)

-----------------------------------------------------------------------------
Init ==
    /\ pending = {}
    /\ reserved = {}
    /\ rows = {}
    /\ branch = <<<<>>, <<>>>>
    /\ best = 1
    /\ now = 0
    /\ job = [p \in Process |-> NoJob]
    /\ raced = {}

Tick ==
    /\ now < MaxTime
    /\ now' = now + 1
    /\ UNCHANGED <<pending, reserved, rows, branch, best, job, raced>>

(* A transaction arrives from a client, a peer or the miller's poll; one that  *)
(* any stored block contains is refused.                                      *)
Submit(w, t) ==
    /\ job[w] = NoJob
    /\ t \notin rows
    /\ Become(w, [op |-> "admit", txn |-> t])
    /\ UNCHANGED <<pending, reserved, rows, branch, best, now, raced>>

(* Mutant of Admit: the pool may always take one more.                        *)
AdmitOver(w) ==
    LET t == job[w].txn
    IN  /\ job[w].op = "admit"
        /\ Become(w, IF t \in pending \/ Cardinality(pending) > MaxPending
                     THEN NoJob
                     ELSE [op |-> "add", txn |-> t])
        /\ UNCHANGED <<pending, reserved, rows, branch, best, now, raced>>

(* It is new to the pool, and the pool is not full.                           *)
Admit(w) ==
    LET t == job[w].txn
    IN  /\ job[w].op = "admit"
        /\ Become(w, IF t \in pending \/ Cardinality(pending) >= MaxPending
                     THEN NoJob
                     ELSE [op |-> "add", txn |-> t])
        /\ UNCHANGED <<pending, reserved, rows, branch, best, now, raced>>

(* The row is committed; if another worker did so first, nothing is left to do. *)
Add(w) ==
    LET t == job[w].txn
    IN  /\ job[w].op = "add"
        /\ pending' = pending \cup {t}
        /\ Become(w, IF t \in pending
                     THEN NoJob
                     ELSE [op |-> "reserve", txn |-> t, flow |-> 1])
        /\ UNCHANGED <<reserved, rows, branch, best, now, raced>>

(* Mutant of Find: the pending row is not read again.                           *)
FindUnread(w) ==
    LET j == job[w]
        known == Maker[Inflows[j.txn][j.flow]] \in rows \cup {NoTxn}
    IN  /\ j.op = "reserve"
        /\ Become(w, IF known THEN [j EXCEPT !.op = "insert"]
                     ELSE IF j.flow = Len(Inflows[j.txn]) THEN NoJob
                     ELSE [j EXCEPT !.flow = @ + 1])
        /\ raced' = IF known THEN raced \cup ({j.txn} \cap Doomed) ELSE raced
        /\ UNCHANGED <<pending, reserved, rows, branch, best, now>>

(* For each inflow whose outflow has a row, the pending row is read again: it may  *)
(* be gone, and then the addition ends there.                                  *)
Find(w) ==
    LET j == job[w]
        known == Maker[Inflows[j.txn][j.flow]] \in rows \cup {NoTxn}
        found == known /\ j.txn \in pending
    IN  /\ j.op = "reserve"
        /\ Become(w, IF found THEN [j EXCEPT !.op = "insert"]
                     ELSE IF known \/ j.flow = Len(Inflows[j.txn]) THEN NoJob
                     ELSE [j EXCEPT !.flow = @ + 1])
        /\ raced' = IF found THEN raced \cup ({j.txn} \cap Doomed) ELSE raced
        /\ UNCHANGED <<pending, reserved, rows, branch, best, now>>

(* The reservation is committed.  SQLite does not enforce the foreign key, so   *)
(* nothing asks whether the pending row is still there.                       *)
Reserve(w) ==
    LET j == job[w]
    IN  /\ j.op = "insert"
        /\ reserved' = reserved \cup {<<j.txn, j.flow>>}
        /\ Become(w, IF j.flow = Len(Inflows[j.txn]) THEN NoJob
                     ELSE [j EXCEPT !.op = "reserve", !.flow = @ + 1])
        /\ UNCHANGED <<pending, rows, branch, best, now, raced>>

(* The removal is committed: the rows and reservations that were loaded.         *)
Delete(p) ==
    /\ job[p].op = "delete"
    /\ pending' = pending \ job[p].rows
    /\ reserved' = reserved \ job[p].flows
    /\ Become(p, job[p].next)
    /\ UNCHANGED <<rows, branch, best, now, raced>>

-----------------------------------------------------------------------------
(* A transaction can follow these on a chain: what it consumes is there and     *)
(* nothing there consumed it.  The check of a template asks no more             *)
(* (txn_in_block=False): a transaction that lists an outflow twice passes it.   *)
Fits(t, before) ==
    /\ \A o \in Spent(t) : Maker[o] \in before \cup {NoTxn}
    /\ \A u \in before : Spent(u) \cap Spent(t) = {}

(* These transactions can be the next block after these: each follows the chain   *)
(* and the others.                                                            *)
Follow(S, blocks) == \A t \in S : Fits(t, Txns(blocks) \cup (S \ {t}))

(* A block with these transactions, sealed at an instant, is valid and can be   *)
(* stored on a branch.  Of an outflow it counts every inflow, its own included  *)
(* (txn_in_block=True); and what it spends has a row already.                 *)
ValidBlock(blocks, S, at) ==
    /\ Follow(S, blocks)
    /\ \A t \in S :
          /\ IsInjective(Inflows[t])
          /\ Stamp[t] <= at
          /\ ~Expired(t, at)
          /\ \A o \in Spent(t) : Maker[o] \in rows \cup {NoTxn}

Accept(w, b, S, at, live) ==
    /\ Len(branch[b]) < MaxHeight[b]
    /\ ValidBlock(branch[b], S, at)
    /\ branch' = [branch EXCEPT ![b] = Append(@, S)]
    /\ best' = IF Len(branch[b]) = Len(branch[best]) THEN b ELSE best
    /\ rows' = rows \cup S
    /\ Become(w, IF live /\ S # {} THEN [op |-> "prune", left |-> Ordered(S)] ELSE NoJob)
    /\ UNCHANGED <<pending, reserved, now, raced>>

(* A block of a peer arrives, live or through fill_chain, which prunes nothing. *)
ReceiveBlock(w, b, S, live) ==
    /\ job[w] = NoJob
    /\ \E at \in 0 .. now : Accept(w, b, S, at, live)

(* Confirmed transactions leave the pool, one commit each.                    *)
Prune(w) ==
    LET left == job[w].left
    IN  /\ job[w].op = "prune"
        /\ Load(w, {Head(left)} \cap pending,
                IF Len(left) = 1 THEN NoJob ELSE [job[w] EXCEPT !.left = Tail(@)])
        /\ UNCHANGED <<pending, reserved, rows, branch, best, now>>

(* Mutant of ExpiredPending: the query that hides confirmed transactions.     *)
Elapsed == {t \in pending : t \notin Confirmed /\ Expired(t, now)}

(* What the next listing of the pool, or the next template, removes.           *)
ExpiredPending == {t \in pending : Expired(t, now)}

Expire(p) ==
    /\ job[p] = NoJob
    /\ ExpiredPending # {}
    /\ Load(p, ExpiredPending, NoJob)
    /\ UNCHANGED <<pending, reserved, rows, branch, best, now>>

(* Mutant of Select: the chain alone decides, not the template so far.        *)
SelectAgainstChain(candidates, confirmed) ==
    LET fits(t) == Fits(t, confirmed)
    IN  [txns |-> SelectSeq(candidates, fits),
         left |-> SelectSeq(candidates, LAMBDA t : ~fits(t))]

(* The template takes a transaction that fits after the chain and what it has   *)
(* so far; another is to be discarded.                                        *)
Take(acc, t, confirmed) ==
    IF Fits(t, confirmed \cup Range(acc.txns))
    THEN [acc EXCEPT !.txns = Append(@, t)]
    ELSE [acc EXCEPT !.left = Append(@, t)]

(* The candidates are tried oldest first.                                      *)
Select(candidates, confirmed) ==
    LET upTo[i \in 0 .. Len(candidates)] ==
            IF i = 0 THEN [txns |-> <<>>, left |-> <<>>]
            ELSE Take(upTo[i - 1], candidates[i], confirmed)
    IN  upTo[Len(candidates)]

(* A miller links a block to the longest chain and removes what has expired.      *)
Refresh(w) ==
    /\ job[w] = NoJob
    /\ Load(w, ExpiredPending,
            [op |-> "build", base |-> best, height |-> Len(branch[best])])
    /\ UNCHANGED <<pending, reserved, rows, branch, best, now>>

(* It fills the block from what is pending and not on that chain.              *)
Build(w) ==
    LET j == job[w]
        confirmed == Txns(SubSeq(branch[j.base], 1, j.height))
        chosen == Select(Ordered((pending \ ExpiredPending) \ confirmed), confirmed)
    IN  /\ j.op = "build"
        /\ Become(w, [op |-> "template", base |-> j.base, height |-> j.height,
                      txns |-> chosen.txns, left |-> chosen.left])
        /\ UNCHANGED <<pending, reserved, rows, branch, best, now, raced>>

DiscardFailed(w) ==
    LET j == job[w]
    IN  /\ j.op = "template"
        /\ j.left # <<>>
        /\ Load(w, {Head(j.left)} \cap pending, [j EXCEPT !.left = Tail(@)])
        /\ UNCHANGED <<pending, reserved, rows, branch, best, now>>

(* The template is ordered and stamped; nothing checks its transactions again.  *)
Seal(w) ==
    LET j == job[w]
    IN  /\ j.op = "template"
        /\ j.left = <<>>
        /\ Become(w, [op |-> "sealed", base |-> j.base, height |-> j.height,
                      txns |-> j.txns, at |-> now])
        /\ UNCHANGED <<pending, reserved, rows, branch, best, now, raced>>

(* The proof of work is found and the chain has not grown meanwhile.           *)
Solve(w) ==
    LET j == job[w]
    IN  /\ j.op = "sealed"
        /\ Len(branch[best]) = j.height
        /\ Accept(w, j.base, Range(j.txns), j.at, TRUE)

(* The process is done, fails, or dies.                                       *)
Drop(p) ==
    /\ job[p] # NoJob
    /\ Become(p, NoJob)
    /\ UNCHANGED <<pending, reserved, rows, branch, best, now, raced>>

Next ==
    \/ Tick
    \/ Expire(Lister)
    \/ \E w \in Worker :
          \/ \E t \in Txn : Submit(w, t)
          \/ Admit(w) \/ Add(w) \/ Find(w) \/ Reserve(w)
          \/ \E b \in 1 .. 2, S \in SUBSET Txn, live \in BOOLEAN : ReceiveBlock(w, b, S, live)
          \/ Prune(w) \/ Refresh(w) \/ Build(w) \/ DiscardFailed(w) \/ Seal(w) \/ Solve(w)
    \/ \E p \in Process : Delete(p) \/ Drop(p)

(* The clock runs, and a process lists the pool for ever, its removals not always  *)
(* failing: the mill command loops, peers poll the pool (command.py:640,        *)
(* api.py:758).                                                               *)
Spec ==
    /\ Init /\ [][Next]_vars
    /\ WF_vars(Tick) /\ WF_vars(Expire(Lister)) /\ SF_vars(Delete(Lister))

-----------------------------------------------------------------------------
Resume ==
    {NoJob}
    \cup [op : {"prune"}, left : Seq(Txn)]
    \cup [op : {"build"}, base : 1 .. 2, height : Nat]
    \cup [op : {"template"}, base : 1 .. 2, height : Nat, txns : Seq(Txn), left : Seq(Txn)]

Job ==
    Resume
    \cup [op : {"admit", "add"}, txn : Txn]
    \cup [op : {"reserve", "insert"}, txn : Txn, flow : Nat]
    \cup [op : {"delete"}, rows : SUBSET Txn, flows : SUBSET (Txn \X Nat), next : Resume]
    \cup [op : {"sealed"}, base : 1 .. 2, height : Nat, txns : Seq(Txn), at : Nat]

TypeOK ==
    /\ pending \subseteq Txn
    /\ reserved \subseteq Txn \X Nat
    /\ rows \subseteq Txn
    /\ branch \in [1 .. 2 -> Seq(SUBSET Txn)]
    /\ best \in 1 .. 2
    /\ now \in Nat
    /\ job \in [Process -> Job]
    /\ raced \subseteq Txn

(* The count is read before the row is added: the pool overshoots its limit by   *)
(* at most the other workers.                                                 *)
SoftCap == Cardinality(pending) <= MaxPending + Cardinality(Worker) - 1

(* Whoever removes a transaction, by confirming, discarding or expiring it, takes   *)
(* its reservations along (models.py:1525-1529), however many commits its addition  *)
(* took and whoever else removes it.  A reservation stays behind only where the two  *)
(* overlap: one worker has read the row to reserve for it and not committed yet,   *)
(* another has read its reservations to delete them and not committed yet.        *)
ReservationsLeaveToo == \A r \in reserved : r[1] \in pending \cup raced

(* Whatever conflicting or dependent transactions the pool holds, those of a       *)
(* template follow the chain it was built on and each other: whatever one consumes   *)
(* is made before it, and nothing else consumes it.                           *)
TemplateFollows ==
    \A w \in Worker :
        LET j == job[w]
        IN  j.op \in {"template", "sealed"} =>
                Follow(Range(j.txns), SubSeq(branch[j.base], 1, j.height))

(* Every pending transaction leaves the pool, confirmed, discarded or expired.   *)
EveryPendingLeaves == \A t \in Txn : t \in pending ~> t \notin pending
=============================================================================
