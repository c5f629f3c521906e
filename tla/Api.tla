--------------------------------- MODULE Api ---------------------------------
(***************************************************************************)
(* Requests to a node, statement by statement: a client posts a transaction   *)
(* under a quota (api.py:262-304, 426-471, models.py:1575-1623), asks for a     *)
(* balance (api.py:778-795) or for the provenance of a transaction             *)
(* (api.py:488-514), while blocks are accepted and the chain is reorganised.   *)
(*                                                                         *)
(* A read has no snapshot.  It resolves the canonical tip, looks its answer up *)
(* in a cache under that tip, and asks again, for the outflows and for the      *)
(* inflows, whether its chain is still the longest: then it ranges over the    *)
(* materialization, otherwise over the ancestry of the tip it resolved, which   *)
(* is itself expressed by positions of the materialization (models.py:324-384). *)
(*                                                                         *)
(* Two branches grow from the genesis, the second once the first has a block,    *)
(* each with its own chain row; the longer one is canonical.  A balance is      *)
(* abstracted to the blocks its outflows and its inflows are taken from.  A      *)
(* block is accepted in one step (ChainStore), a transaction is admitted in two  *)
(* (Mempool has more).                                                        *)
(***************************************************************************)
EXTENDS Integers, Sequences, SequencesExt

CONSTANTS
    Worker,        \* threads and processes that serve requests
    Txn,           \* transactions
    At,            \* where each branch has a transaction, 0 where it has not
    Client,        \* addresses
    Addresses,     \* READER_, TRANSACTOR_, MILLER_ and ADMIN_ADDRESSES
    Question,      \* what is asked: "balance", "search", and transactions
    NoClient,      \* submitted by nobody
    Cap,           \* MAX_PENDING_PER_TRANSACTOR
    MaxHeight      \* bound: blocks of each branch

Reader == 1
Transactor == 2
MillerRole == 3
Admin == 4

(* Anyone may read or post, if the lists say so; nobody is a miller by default.    *)
ValidConfig ==
    /\ Addresses \in [Reader .. Admin -> SUBSET (Client \cup {"*"})]
    /\ \A r \in {MillerRole, Admin} : "*" \notin Addresses[r]

(* The highest role an address has, 0 when it has none.                        *)
RoleOf(c) == Max({0} \cup {r \in Reader .. Admin :
                              {c, "*"} \cap Addresses[r] # {}})

ASSUME ApiAssumption ==
    /\ ValidConfig
    /\ At \in [Txn -> [1 .. 2 -> Nat]]
    /\ NoClient \notin Client
    /\ Question \subseteq Txn \cup {"balance", "search"}
    /\ Cap \in Nat \ {0} /\ MaxHeight \in [1 .. 2 -> Nat]
    /\ IsFiniteSet(Worker)

VARIABLES
    height,      \* blocks of each branch
    best,        \* the canonical branch
    pending,     \* the pool
    submission,  \* who submitted a transaction, as first recorded
    cache,       \* answers by tip and question
    job,         \* the request each worker serves
    again        \* history: transactions that entered the pool twice

vars == <<height, best, pending, submission, cache, job, again>>

NoJob == [op |-> "idle"]
Posting == {"count", "check", "add", "record"}
Reading == {"lookup", "outflows", "inflows", "execute", "find", "scan", "block", "orphan", "pool"}
Become(w, j) == job' = [job EXCEPT ![w] = j]

(* The blocks of a branch up to a height, the genesis left out.               *)
Blocks(b, n) == {b} \X (1 .. n)
Tip == [branch |-> best, height |-> height[best]]
ChainOf(tip) == Blocks(tip.branch, tip.height)
Canonical == ChainOf(Tip)

Has(b, n, t) == At[t][b] \in 1 .. n
Stored(t) == \E b \in 1 .. 2 : Has(b, height[b], t)

-----------------------------------------------------------------------------
Init ==
    /\ height = [b \in 1 .. 2 |-> 0]
    /\ best = 1
    /\ pending = {}
    /\ submission = [t \in Txn |-> NoClient]
    /\ cache = {}
    /\ job = [w \in Worker |-> NoJob]
    /\ again = {}

(* History: the tips a read in progress has seen, until the chain is reorganised.  *)
Witness(tip, reorg) ==
    job' = [w \in Worker |->
        IF job[w].op \notin Reading THEN job[w]
        ELSE [job[w] EXCEPT !.reorged = @ \/ reorg,
                            !.seen = IF job[w].reorged \/ reorg THEN {} ELSE @ \cup {tip}]]

(* Mutant of Key: an answer is cached for the chain row, whatever its tip.         *)
KeyOfRow(j) == <<j.tip.branch, j.ask>>

(* An answer is cached under the tip and the question,                         *)
Key(j) == <<j.tip, j.ask>>
Hits(j) == {c \in cache : c.key = Key(j)}

(* and lives on only while a request can ask for it: a tip that was left never       *)
(* comes back.                                                                *)
Reachable == {c \in cache : \E w \in Worker : job[w].op \in Reading /\ c \in Hits(job[w])}

(* A block is accepted on a branch, and its transactions leave the pool if it    *)
(* arrived live.                                                              *)
AddBlock(b, live) ==
    /\ height[b] < MaxHeight[b] /\ height[1] >= b - 1
    /\ height' = [height EXCEPT ![b] = @ + 1]
    /\ best' = IF height[b] = height[best] THEN b ELSE best
    /\ pending' = IF live THEN {t \in pending : At[t][b] # height[b] + 1} ELSE pending
    /\ Witness([branch |-> best', height |-> height'[best']], best' # best)
    /\ cache' = Reachable
    /\ UNCHANGED <<submission, again>>

(* A transaction expires.                                                     *)
Expire(t) ==
    /\ t \in pending
    /\ pending' = pending \ {t}
    /\ UNCHANGED <<height, best, submission, cache, job, again>>

-----------------------------------------------------------------------------
(* A client posts a transaction; the quota is for those who are transactors only.   *)
PostTxn(w, c, t) ==
    /\ job[w] = NoJob /\ RoleOf(c) >= Transactor
    /\ Become(w, [op |-> IF RoleOf(c) = Transactor THEN "count" ELSE "check",
                  client |-> c, txn |-> t])
    /\ UNCHANGED <<height, best, pending, submission, cache, again>>

PendingOf(c) == {t \in pending : submission[t] = c}

(* Mutant of CheckQuota: one too many.                                         *)
CheckQuotaOver(w) ==
    LET j == job[w]
    IN  /\ j.op = "count"
        /\ Become(w, IF Cardinality(PendingOf(j.client)) > Cap
                     THEN NoJob ELSE [j EXCEPT !.op = "check"])
        /\ UNCHANGED <<height, best, pending, submission, cache, again>>

(* 429 at the quota: the pending transactions that are recorded as the client's. *)
CheckQuota(w) ==
    LET j == job[w]
    IN  /\ j.op = "count"
        /\ Become(w, IF Cardinality(PendingOf(j.client)) >= Cap
                     THEN NoJob ELSE [j EXCEPT !.op = "check"])
        /\ UNCHANGED <<height, best, pending, submission, cache, again>>

(* A transaction that a stored block or the pool has is not admitted.          *)
CheckTxn(w) ==
    LET j == job[w]
    IN  /\ j.op = "check"
        /\ Become(w, IF Stored(j.txn) \/ j.txn \in pending
                     THEN NoJob ELSE [j EXCEPT !.op = "add"])
        /\ UNCHANGED <<height, best, pending, submission, cache, again>>

(* The row is committed; a request that loses the race to add it goes on too.   *)
AddTxn(w) ==
    LET j == job[w]
    IN  /\ j.op = "add"
        /\ pending' = pending \cup {j.txn}
        /\ again' = IF j.txn \notin pending /\ submission[j.txn] # NoClient
                    THEN again \cup {j.txn} ELSE again
        /\ Become(w, [j EXCEPT !.op = "record"])
        /\ UNCHANGED <<height, best, submission, cache>>

(* The first to record a transaction is charged with it, for ever.             *)
Record(w) ==
    LET j == job[w]
    IN  /\ j.op = "record"
        /\ submission' = [submission EXCEPT ![j.txn] = IF @ = NoClient THEN j.client ELSE @]
        /\ Become(w, NoJob)
        /\ UNCHANGED <<height, best, pending, cache, again>>

(* The worker dies while it serves a post.                                     *)
Die(w) ==
    /\ job[w].op \in Posting
    /\ Become(w, NoJob)
    /\ UNCHANGED <<height, best, pending, submission, cache, again>>

-----------------------------------------------------------------------------
(* A read resolves the tip; its chain row is the one of the tip's branch, and     *)
(* keeps the tip the session has loaded, whatever the row becomes (chain.py:804). *)
Read(w, question) ==
    /\ job[w] = NoJob
    /\ Become(w, [op |-> "lookup", ask |-> question, tip |-> Tip, got |-> <<>>,
                  seen |-> {Tip}, reorged |-> FALSE])
    /\ UNCHANGED <<height, best, pending, submission, cache, again>>

(* The next statement of a read, with what it has so far.                      *)
Continue(w, op, got) == Become(w, [job[w] EXCEPT !.op = op, !.got = got])
Answer(w, value) == Continue(w, "answered", value)

AnswerAndCache(w, value) ==
    /\ Answer(w, value)
    /\ cache' = cache \cup {[key |-> Key(job[w]), value |-> value]}

(* A search is not cached.                                                    *)
Uncached(question) == question = "search"

(* A search adds up the stakes for a subject and those against it, each from its      *)
(* outflows and inflows; a balance is one such sum.                             *)
Legs(question) == IF question = "search" THEN 2 ELSE 1

(* The answer may be in the cache already.                                     *)
Lookup(w) ==
    LET j == job[w]
    IN  /\ j.op = "lookup"
        /\ IF Hits(j) = {}
           THEN Continue(w, IF j.ask \in Txn THEN "find" ELSE "outflows", <<>>)
           ELSE \E c \in Hits(j) : Answer(w, c.value)
        /\ UNCHANGED <<height, best, pending, submission, cache, again>>

(* The ancestry of a tip: its blocks above the common ancestor with the          *)
(* materialization, and the position of that ancestor.                        *)
Ancestry(tip) ==
    IF tip.branch = best THEN [above |-> {}, cap |-> tip.height]
    ELSE [above |-> ChainOf(tip), cap |-> 0]

(* What a statement made with an ancestry ranges over when it is executed.       *)
Within(ancestry) == ancestry.above \cup {c \in Canonical : c[2] <= ancestry.cap}

(* The materialization, for the tip of the longest chain; its ancestry otherwise. *)
Route(tip, longest) == IF longest THEN {} ELSE {Ancestry(tip)}

(* What a route ranges over when the statement is executed.                     *)
Scope(route) == IF route = {} THEN Canonical ELSE UNION {Within(a) : a \in route}

(* Where the outflows of a leg are taken from, and then its inflows: _is_longest is  *)
(* computed again if this process changed the chain since it was, and may be the one  *)
(* of before otherwise.                                                       *)
Longest(j) ==
    {j.tip.branch = best} \cup (IF j.got = <<>> THEN {} ELSE {Last(j.got).longest})

RouteOutflows(w) ==
    LET j == job[w]
    IN  /\ j.op = "outflows"
        /\ \E longest \in Longest(j) :
              Continue(w, "inflows", Append(j.got, [longest |-> longest, route |-> Route(j.tip, longest)]))
        /\ UNCHANGED <<height, best, pending, submission, cache, again>>

RouteInflows(w) ==
    LET j == job[w]
    IN  /\ j.op = "inflows"
        /\ \E longest \in Longest(j) :
              Continue(w, IF Len(j.got) + 1 = 2 * Legs(j.ask) THEN "execute" ELSE "outflows",
                       Append(j.got, [longest |-> longest, route |-> Route(j.tip, longest)]))
        /\ UNCHANGED <<height, best, pending, submission, cache, again>>

(* The statement is executed, all its parts at once.                           *)
Execute(w) ==
    LET j == job[w]
        value == {Scope(j.got[i].route) : i \in DOMAIN j.got}
    IN  /\ j.op = "execute"
        /\ IF Uncached(j.ask)
           THEN Answer(w, value) /\ UNCHANGED cache
           ELSE AnswerAndCache(w, value)
        /\ UNCHANGED <<height, best, pending, submission, again>>

-----------------------------------------------------------------------------
(* Provenance: the transaction is looked for in the ancestry of the tip,         *)
FindAncestry(w) ==
    LET j == job[w]
    IN  /\ j.op = "find"
        /\ Continue(w, "scan", <<Ancestry(j.tip)>>)
        /\ UNCHANGED <<height, best, pending, submission, cache, again>>

(* which is a second statement,                                               *)
Scan(w) ==
    LET j == job[w]
        found == \E c \in Within(j.got[1]) : At[j.ask][c[1]] = c[2]
    IN  /\ j.op = "scan"
        /\ Continue(w, IF found THEN "block" ELSE "orphan", <<>>)
        /\ UNCHANGED <<height, best, pending, submission, cache, again>>

(* The confirmations of a transaction that the materialization has at a position,  *)
(* 0 when it has not.                                                         *)
Confirmations(tip, at) == IF at = 0 THEN 0 ELSE tip.height - at + 1

(* Mutant of Locate: the confirmations are counted from the tip of the moment.    *)
LocateNow(w) ==
    LET j == job[w]
        at == IF Has(best, height[best], j.ask) THEN At[j.ask][best] ELSE 0
    IN  /\ j.op = "block"
        /\ AnswerAndCache(w, [status |-> "canonical", height |-> at,
                              confirmations |-> Confirmations(Tip, at)])
        /\ UNCHANGED <<height, best, pending, submission, again>>

(* then its block in the materialization: the confirmations are counted from the   *)
(* tip that was resolved.                                                     *)
Locate(w) ==
    LET j == job[w]
        at == IF Has(best, height[best], j.ask) THEN At[j.ask][best] ELSE 0
    IN  /\ j.op = "block"
        /\ AnswerAndCache(w, [status |-> "canonical", height |-> at,
                              confirmations |-> Confirmations(j.tip, at)])
        /\ UNCHANGED <<height, best, pending, submission, again>>

(* A transaction that is not in the ancestry is looked for among all stored ones,  *)
Orphan(w) ==
    LET j == job[w]
    IN  /\ j.op = "orphan"
        /\ IF Stored(j.ask)
           THEN AnswerAndCache(w, [status |-> "orphaned"])
           ELSE /\ Continue(w, "pool", <<>>)
                /\ UNCHANGED cache
        /\ UNCHANGED <<height, best, pending, submission, again>>

(* and then in the pool; what is not there is not found, and not cached.          *)
Pool(w) ==
    LET j == job[w]
    IN  /\ j.op = "pool"
        /\ IF j.ask \in pending
           THEN AnswerAndCache(w, [status |-> "pending"])
           ELSE /\ Answer(w, [status |-> "not found"])
                /\ UNCHANGED cache
        /\ UNCHANGED <<height, best, pending, submission, again>>

(* The answer is sent.                                                        *)
Send(w) ==
    /\ job[w].op = "answered"
    /\ Become(w, NoJob)
    /\ UNCHANGED <<height, best, pending, submission, cache, again>>

Next ==
    \/ \E b \in 1 .. 2, live \in BOOLEAN : AddBlock(b, live)
    \/ \E t \in Txn : Expire(t)
    \/ \E w \in Worker :
          \/ \E c \in Client, t \in Txn : PostTxn(w, c, t)
          \/ CheckQuota(w) \/ CheckTxn(w) \/ AddTxn(w) \/ Record(w) \/ Die(w)
          \/ \E question \in Question : Read(w, question)
          \/ Lookup(w) \/ RouteOutflows(w) \/ RouteInflows(w) \/ Execute(w)
          \/ FindAncestry(w) \/ Scan(w) \/ Locate(w) \/ Orphan(w) \/ Pool(w) \/ Send(w)

Spec == Init /\ [][Next]_vars

-----------------------------------------------------------------------------
(* The reads that are answered, and met no reorganisation on the way.           *)
Undisturbed == {job[w] : w \in {v \in Worker : job[v].op = "answered" /\ ~job[v].reorged}}

(* A balance and a search take all outflows and inflows from one and the same chain, *)
(* one that was canonical while the request was served, also when another request    *)
(* computed it and other blocks were accepted meanwhile (api.py:778-890,           *)
(* models.py:804-854, 914-1058).                                              *)
AnswerIsOfAChain ==
    \A j \in {k \in Undisturbed : k.ask \notin Txn} : \E tip \in j.seen : j.got = {ChainOf(tip)}

(* A transaction answered as canonical is in the chain whose tip the answer names, *)
(* at that height and under that many confirmations, whoever computed it           *)
(* (api.py:488-514, models.py:1254-1290).                                      *)
CanonicalAnswerHolds ==
    \A j \in {k \in Undisturbed : k.ask \in Txn} : j.got.status = "canonical" =>
        /\ Has(j.tip.branch, j.tip.height, j.ask)
        /\ j.got.height = At[j.ask][j.tip.branch]
        /\ j.got.confirmations = Cardinality({n \in 1 .. j.tip.height : n >= j.got.height})

(* The pending transactions charged to an address exceed its quota by less than    *)
(* the number of requests a node serves at a time, leaving out those that entered   *)
(* the pool again after they expired: they stay charged to the first who posted     *)
(* them, whoever posts them next (api.py:437-450, models.py:1593-1623).          *)
QuotaHolds ==
    \A c \in {d \in Client : RoleOf(d) = Transactor} :
        Cardinality(PendingOf(c) \ again) <= Cap + Cardinality(Worker) - 1
=============================================================================
