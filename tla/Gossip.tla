------------------------------- MODULE Gossip -------------------------------
(***************************************************************************)
(* Blocks and transactions between nodes: the flood with visited hosts       *)
(* (Node.send_block, Node.send_transaction and the handlers that receive     *)
(* what they post), the walk that feeds a peer the ancestors it lacks        *)
(* (Node.fill_peer), asynchronous processing through Celery, the miller's     *)
(* poll (poll_latest_blocks with fill_chain) and the forward sync.           *)
(*                                                                         *)
(* A handler or a milling loop that forwards an item is a thread.  Posts are  *)
(* synchronous: a thread waits for the answer, and a handler answers only     *)
(* when its own forwarding is done.  A request may be lost, and a waiting     *)
(* thread may time out while its request is still to be served.  How one node *)
(* stores a block is in ChainStore; here it is one step, and a node's         *)
(* canonical tip is the best block it stores.                                *)
(***************************************************************************)
EXTENDS Integers, Sequences, SequencesExt, FiniteSets

CONSTANTS
    Node,
    Peers,          \* [Node -> Seq(Node)]: PEERS, in order, each with a client
    Block, Txn,     \* what is gossiped
    Prev, NoBlock,  \* the parent of a block; NoBlock above a genesis
    Idx, Rank,      \* height, and the order of tips of one height (fork choice)
    Async,          \* the nodes with API_ASYNC_PROCESSING
    Poller, Syncer, \* the nodes that run a miller with a peer, and `sync`
    Retries,        \* posts of one block by fill_peer before it gives up
    Depth,          \* MAX_CHAIN_FILL_DEPTH
    Batch,          \* SYNC_BATCH_SIZE
    MaxFaults       \* bound: lost requests, timeouts, crashes

Item == Block \cup Txn

ASSUME GossipAssumption ==
    /\ NoBlock \notin Item /\ Block \cap Txn = {}
    /\ Peers \in [Node -> Seq(Node)]
    /\ \A n \in Node : n \notin Range(Peers[n])
    /\ Batch \in Nat \ {0} /\ Retries > 0

ASSUME TreeAssumption ==
    /\ IsFiniteSet(Block)
    /\ Prev \in [Block -> Block \cup {NoBlock}]
    /\ Idx \in [Block -> Nat] /\ Rank \in [Block -> Nat]
    /\ \A b \in Block : IF Prev[b] = NoBlock THEN Idx[b] = 0 ELSE Idx[b] = Idx[Prev[b]] + 1
    /\ \A a, b \in Block : a # b /\ Idx[a] = Idx[b] => Rank[a] # Rank[b]

VARIABLES
    stored,     \* node -> the blocks and transactions in its database
    threads,    \* what is being forwarded: thread id -> its progress
    requests,   \* posts on their way
    answers,    \* answers on their way
    jobs,       \* Celery tasks: posts to a node's own /process
    poll,       \* node -> the tip a miller has read from its peer
    sync,       \* node -> the progress of its forward sync
    vain,       \* history: <<node, block>>, announced by a node that lacks it
    falseFork,  \* history: syncs that reported a fork that was not there
    faults      \* history: how many faults there have been

vars == <<stored, threads, requests, answers, jobs, poll, sync, vain, falseFork, faults>>

None == [op |-> "none"]
Accepted == {200, 201, 202}

(* ChainDAO.longest over what a node stores.                                 *)
Better(a, b) == Idx[a] > Idx[b] \/ (Idx[a] = Idx[b] /\ Rank[a] < Rank[b])
Tip(S) == IF S \cap Block = {} THEN NoBlock
          ELSE CHOOSE b \in S \cap Block : \A c \in S \cap Block : c = b \/ Better(b, c)
Height(S) == IF Tip(S) = NoBlock THEN -1 ELSE Idx[Tip(S)]

Lineage[b \in Block] == IF Prev[b] = NoBlock THEN <<b>> ELSE Append(Lineage[Prev[b]], b)
Branch(b) == IF b = NoBlock THEN <<>> ELSE Lineage[b]

(* Mutant of Lacks: nobody asks whether the parent is there.                     *)
LacksNothing(n, b) == FALSE

Lacks(n, b) == b \in Block /\ Prev[b] # NoBlock /\ Prev[b] \notin stored[n]

-----------------------------------------------------------------------------
(* Threads.  A thread [todo, visited, fill, call, reply] still has peers to    *)
(* try, may be feeding one of them, may wait for one call, and may owe an       *)
(* answer to the request it serves.                                           *)
(* Mutant of Sender: the loop ends at the first visited host.                   *)
SenderBreaks(n, visited, reply) ==
    [todo |-> IF Head(Peers[n]) \in visited THEN <<>> ELSE Peers[n],
     visited |-> visited \cup {n},
     fill |-> None, call |-> None, reply |-> reply]

Sender(n, visited, reply) ==
    [todo |-> Peers[n],
     visited |-> visited \cup {n},
     fill |-> None, call |-> None, reply |-> reply]

(* A thread's id: where it runs, what it forwards, and what started it.        *)
Id(n, x, by) == [at |-> n, item |-> x, by |-> by]

Start(id, th) == threads' = [i \in DOMAIN threads \cup {id} |-> IF i = id THEN th ELSE threads[i]]
Update(id, th) == threads' = [threads EXCEPT ![id] = th]

(* Mutant of Post: the host that is posted to is named as visited.               *)
PostPresumes(id, to, x, visited) ==
    [id |-> id, to |-> to, item |-> x, visited |-> visited \cup {to}]

Post(id, to, x, visited) == [id |-> id, to |-> to, item |-> x, visited |-> visited]
Answer(r, status) == IF r = None THEN {} ELSE {[req |-> r, status |-> status]}

Waiting(id) == threads[id].call # None
Ready(id) == id \in DOMAIN threads /\ ~Waiting(id)

(* The loop over the peers skips the hosts already visited.                     *)
SendNext(id) ==
    LET th == threads[id]
        r(k) == Post(id, th.todo[k], id.item, th.visited)
    IN  /\ Ready(id) /\ th.fill = None
        /\ \E k \in DOMAIN th.todo :
              /\ th.todo[k] \notin th.visited
              /\ \A i \in 1 .. k - 1 : th.todo[i] \in th.visited
              /\ Update(id, [th EXCEPT !.todo = SubSeq(@, k + 1, Len(@)), !.call = r(k)])
              /\ requests' = requests \cup {r(k)}
        /\ UNCHANGED <<stored, answers, jobs, poll, sync, vain, falseFork, faults>>

(* Every peer was tried: the handler answers whoever posted the item.          *)
Finish(id) ==
    /\ Ready(id) /\ threads[id].fill = None
    /\ Range(threads[id].todo) \subseteq threads[id].visited
    /\ threads' = [i \in DOMAIN threads \ {id} |-> threads[i]]
    /\ answers' = answers \cup Answer(threads[id].reply, 201)
    /\ UNCHANGED <<stored, requests, jobs, poll, sync, vain, falseFork, faults>>

(* fill_peer: blocks[0] is the deepest block to push; walk back one parent at   *)
(* a time and post it, until the peer takes one or the genesis is reached.      *)
Walk(id) ==
    LET th == threads[id]
        f == th.fill
        first == Head(f.blocks)
        r == Post(id, f.peer, Prev[first], {id.at})
    IN  /\ Ready(id) /\ f # None /\ f.op = "walk"
        /\ \/ /\ Prev[first] = NoBlock
              /\ Update(id, [th EXCEPT !.fill.op = "push"])
              /\ UNCHANGED requests
           \/ /\ Lacks(id.at, first)            \* the walk hit a missing parent
              /\ Update(id, [th EXCEPT !.fill = None])
              /\ UNCHANGED requests
           \/ /\ Prev[first] \in stored[id.at]
              /\ Update(id, [th EXCEPT !.call = r])
              /\ requests' = requests \cup {r}
        /\ UNCHANGED <<stored, answers, jobs, poll, sync, vain, falseFork, faults>>

(* Then the blocks are posted forward, each again and again until it is taken.  *)
Push(id) ==
    LET th == threads[id]
        f == th.fill
        r == Post(id, f.peer, Head(f.blocks), {id.at})
    IN  /\ Ready(id) /\ f # None /\ f.op = "push"
        /\ IF f.blocks = <<>>
           THEN /\ Update(id, [th EXCEPT !.fill = None])
                /\ UNCHANGED requests
           ELSE /\ Update(id, [th EXCEPT !.call = r])
                /\ requests' = requests \cup {r}
        /\ UNCHANGED <<stored, answers, jobs, poll, sync, vain, falseFork, faults>>

(* Mutants of AfterAnswer: 404 does not start a fill; the posts of a push are not  *)
(* counted.                                                                   *)
AfterAnswerNoFill(id, status) == None

AfterAnswerUncounted(id, status) ==
    LET th == threads[id]
        f == th.fill
    IN  CASE f = None /\ status = 404 ->
               [op |-> "walk", peer |-> th.call.to, blocks |-> <<id.item>>, tries |-> 0]
          [] f # None /\ f.op = "walk" /\ status \in Accepted -> [f EXCEPT !.op = "push"]
          [] f # None /\ f.op = "push" /\ status \in Accepted -> [f EXCEPT !.blocks = Tail(@)]
          [] f # None /\ f.op = "push" /\ status = 404 -> f
          [] OTHER -> None

(* What a thread does with the status of its call.                             *)
AfterAnswer(id, status) ==
    LET th == threads[id]
        f == th.fill
    IN  CASE f = None /\ status = 404 ->
               [op |-> "walk", peer |-> th.call.to, blocks |-> <<id.item>>, tries |-> 0]
          [] f # None /\ f.op = "walk" /\ status = 404 ->
               [f EXCEPT !.blocks = <<Prev[Head(@)]>> \o @]
          [] f # None /\ f.op = "walk" /\ status \in Accepted -> [f EXCEPT !.op = "push"]
          [] f # None /\ f.op = "push" /\ status \in Accepted ->
               [f EXCEPT !.blocks = Tail(@), !.tries = 0]
          [] f # None /\ f.op = "push" /\ status = 404 /\ f.tries + 1 < Retries ->
               [f EXCEPT !.tries = @ + 1]
          [] OTHER -> None

Return(a) ==
    /\ a \in answers
    /\ answers' = answers \ {a}
    /\ LET id == a.req.id
       IN  IF id \in DOMAIN threads /\ threads[id].call = a.req
           THEN Update(id, [threads[id] EXCEPT !.call = None,
                                              !.fill = AfterAnswer(id, a.status)])
           ELSE UNCHANGED threads
    /\ UNCHANGED <<stored, requests, jobs, poll, sync, vain, falseFork, faults>>

-----------------------------------------------------------------------------
(* A node serves a post.  What it has already answers 200; a block without its  *)
(* parent 404.                                                               *)
Serve(r, status) ==
    /\ requests' = requests \ {r}
    /\ answers' = answers \cup Answer(r, status)

ReceiveKnown(r) ==
    /\ r \in requests /\ r.item \in stored[r.to]
    /\ Serve(r, 200)
    /\ UNCHANGED <<stored, threads, jobs, poll, sync, vain, falseFork, faults>>

ReceiveMissing(r) ==
    /\ r \in requests /\ r.item \notin stored[r.to]
    /\ Lacks(r.to, r.item)
    /\ Serve(r, 404)
    /\ UNCHANGED <<stored, threads, jobs, poll, sync, vain, falseFork, faults>>

(* A new item is stored and forwarded before the answer is given.               *)
Receive(r) ==
    /\ r \in requests /\ r.item \notin stored[r.to]
    /\ ~Lacks(r.to, r.item)
    /\ r.to \notin Async
    /\ stored' = [stored EXCEPT ![r.to] = @ \cup {r.item}]
    /\ requests' = requests \ {r}
    /\ Start(Id(r.to, r.item, "post"), Sender(r.to, r.visited, r))
    /\ UNCHANGED <<answers, jobs, poll, sync, vain, falseFork, faults>>

(* An asynchronous node answers 202 at once and leaves the rest to a task: a     *)
(* block is only checked, a transaction is already in the pool.                *)
ReceiveLater(r) ==
    /\ r \in requests /\ r.item \notin stored[r.to]
    /\ ~Lacks(r.to, r.item)
    /\ r.to \in Async
    /\ stored' = [stored EXCEPT ![r.to] = @ \cup ({r.item} \cap Txn)]
    /\ Serve(r, 202)
    /\ jobs' = jobs \cup {[at |-> r.to, item |-> r.item, visited |-> r.visited]}
    /\ UNCHANGED <<threads, poll, sync, vain, falseFork, faults>>

(* post_process posts the item to its own node with process=True; nobody waits   *)
(* for the answer.  An item that is there by then is not forwarded.             *)
RunJob(j) ==
    /\ j \in jobs
    /\ jobs' = jobs \ {j}
    /\ \/ /\ j.item \in stored[j.at]
          /\ UNCHANGED <<stored, threads>>
       \/ /\ j.item \notin stored[j.at] /\ ~Lacks(j.at, j.item)
          /\ stored' = [stored EXCEPT ![j.at] = @ \cup {j.item}]
          /\ Start(Id(j.at, j.item, "job"), Sender(j.at, j.visited, None))
    /\ UNCHANGED <<requests, answers, poll, sync, vain, falseFork, faults>>

(* A milling loop mines on the canonical tip, one block at a time.              *)
Mine(n, b) ==
    /\ b \notin UNION {stored[m] : m \in Node}
    /\ Prev[b] = Tip(stored[n])
    /\ \A id \in DOMAIN threads : ~(id.at = n /\ id.by = "mine")
    /\ stored' = [stored EXCEPT ![n] = @ \cup {b}]
    /\ Start(Id(n, b, "mine"), Sender(n, {}, None))
    /\ UNCHANGED <<requests, answers, jobs, poll, sync, vain, falseFork, faults>>

(* A client of a node submits a transaction: a post without visited hosts.       *)
Submit(n, x) ==
    /\ x \in Txn /\ x \notin UNION {stored[m] : m \in Node}
    /\ stored' = [stored EXCEPT ![n] = @ \cup {x}]
    /\ IF n \in Async
       THEN /\ jobs' = jobs \cup {[at |-> n, item |-> x, visited |-> {}]}
            /\ UNCHANGED threads
       ELSE /\ Start(Id(n, x, "post"), Sender(n, {}, None))
            /\ UNCHANGED jobs
    /\ UNCHANGED <<requests, answers, poll, sync, vain, falseFork, faults>>

-----------------------------------------------------------------------------
(* Mutant of PollRead: a node that is one block behind does not ask.             *)
PollReadBehind(n, p) ==
    /\ n \in Poller /\ poll[n] = None
    /\ Height(stored[p]) > Height(stored[n]) + 1
    /\ poll' = [poll EXCEPT ![n] = [op |-> "tip", peer |-> p, block |-> Tip(stored[p])]]
    /\ UNCHANGED <<stored, threads, requests, answers, jobs, sync, vain, falseFork, faults>>

(* poll_latest_blocks: a tip that is not stored is fetched with its ancestors,   *)
(* from any peer that has them, and sent on whether or not that succeeded.      *)
PollRead(n, p) ==
    /\ n \in Poller /\ poll[n] = None
    /\ Tip(stored[p]) \notin stored[n] \cup {NoBlock}
    /\ poll' = [poll EXCEPT ![n] = [op |-> "tip", peer |-> p, block |-> Tip(stored[p])]]
    /\ UNCHANGED <<stored, threads, requests, answers, jobs, sync, vain, falseFork, faults>>

Unknown(n, b) == SelectSeq(Branch(b), LAMBDA c : c \notin stored[n])

(* The tip itself came with the poll; what is requested is its ancestors.        *)
Filled(n, b) ==
    /\ Len(Unknown(n, b)) - 1 <= Depth
    /\ \A c \in Range(Unknown(n, b)) \ {b} : \E q \in Range(Peers[n]) : c \in stored[q]

PollFill(n) ==
    LET b == poll[n].block
        announce(m) == Start(Id(n, b, "poll"), Sender(n, {poll[n].peer}, None))
    IN  /\ poll[n] # None
        /\ poll' = [poll EXCEPT ![n] = None]
        /\ announce(n)
        /\ \/ /\ Filled(n, b)
              /\ stored' = [stored EXCEPT ![n] = @ \cup Range(Branch(b))]
              /\ UNCHANGED <<vain, faults>>
           \/ /\ ~Filled(n, b) \/ faults < MaxFaults    \* or a request failed
              /\ vain' = IF b \in stored[n] THEN vain ELSE vain \cup {<<n, b>>}
              /\ faults' = IF Filled(n, b) THEN faults + 1 ELSE faults
              /\ UNCHANGED stored
        /\ UNCHANGED <<requests, answers, jobs, sync, falseFork>>

-----------------------------------------------------------------------------
(* The sync command: a peer that is ahead is imported forward, by height.        *)
SyncStart(n, p) ==
    /\ n \in Syncer /\ sync[n] = None
    /\ Height(stored[p]) > Height(stored[n])
    /\ sync' = [sync EXCEPT ![n] = [op |-> "fetch", peer |-> p, last |-> -1, todo |-> <<>>,
                                    onto |-> Tip(stored[n]), ahead |-> FALSE]]
    /\ UNCHANGED <<stored, threads, requests, answers, jobs, poll, vain, falseFork, faults>>

(* History: it is a false fork when, as the batch was fetched, the peer's chain was  *)
(* the node's own and more, and nothing but the sync has moved the tip since.      *)
Diverged(n) ==
    /\ sync' = [sync EXCEPT ![n] = None]
    /\ falseFork' = falseFork \cup
          {m \in {n} : sync[m].ahead /\ sync[m].onto = Tip(stored[m])}

(* The blocks of a chain from a height on, at most a batch of them.              *)
BatchOf(chain, next) == SubSeq(chain, next + 1, Min({next + Batch, Len(chain)}))

FetchFrom(n, next) ==
    LET s == sync[n]
        chain == Branch(Tip(stored[s.peer]))
        blocks == BatchOf(chain, next)
        tip == Tip(stored[n])
    IN  /\ s # None /\ s.todo = <<>>
        /\ \/ /\ next = s.last                      \* the last batch made no progress
              /\ Diverged(n)
           \/ /\ next # s.last
              /\ sync' = [sync EXCEPT ![n] =
                             IF blocks = <<>> THEN None
                             ELSE [s EXCEPT !.last = next, !.todo = blocks, !.onto = tip,
                                            !.ahead = tip \in Range(chain) \cup {NoBlock}]]
              /\ UNCHANGED falseFork
        /\ UNCHANGED <<stored, threads, requests, answers, jobs, poll, vain, faults>>

(* Mutant of SyncFetch: the batch starts at the tip.                            *)
SyncFetchTip(n) == FetchFrom(n, Max({0, Height(stored[n])}))

SyncFetch(n) == FetchFrom(n, Height(stored[n]) + 1)

(* The tip is read again for every block; one that does not link ends the sync   *)
(* as 'diverged'.                                                            *)
Linked(n, b) == Prev[b] = Tip(stored[n])

SyncBlock(n) ==
    LET s == sync[n]
        b == Head(s.todo)
    IN  /\ s # None /\ s.todo # <<>>
        /\ \/ /\ Linked(n, b)
              /\ stored' = [stored EXCEPT ![n] = @ \cup {b}]
              /\ sync' = [sync EXCEPT ![n].todo = Tail(@), ![n].onto = b]
              /\ UNCHANGED falseFork
           \/ /\ ~Linked(n, b)
              /\ Diverged(n)
              /\ UNCHANGED stored
        /\ UNCHANGED <<threads, requests, answers, jobs, poll, vain, faults>>

-----------------------------------------------------------------------------
(* Faults.  A request that never arrives is an error to the thread that posted   *)
(* it; a thread that times out goes on, and its request may still be served.    *)
Error == 0

Lose(r) ==
    /\ r \in requests /\ faults < MaxFaults
    /\ faults' = faults + 1
    /\ Serve(r, Error)
    /\ UNCHANGED <<stored, threads, jobs, poll, sync, vain, falseFork>>

TimeOut(id) ==
    /\ id \in DOMAIN threads /\ Waiting(id) /\ faults < MaxFaults
    /\ faults' = faults + 1
    /\ Update(id, [threads[id] EXCEPT !.call = None, !.fill = None])
    /\ UNCHANGED <<stored, requests, answers, jobs, poll, sync, vain, falseFork>>

(* post_process is not retried: when its post fails, or its worker dies, or no    *)
(* broker or key is configured, the task is gone although 202 was answered.      *)
LoseJob(j) ==
    /\ j \in jobs /\ faults < MaxFaults
    /\ faults' = faults + 1
    /\ jobs' = jobs \ {j}
    /\ UNCHANGED <<stored, threads, requests, answers, poll, sync, vain, falseFork>>

(* A node stops: its threads, its poll and its sync are gone, its database and   *)
(* the broker's queue are not.                                                *)
Crash(n) ==
    LET mine == {id \in DOMAIN threads : id.at = n}
    IN  /\ faults < MaxFaults /\ mine # {}
        /\ faults' = faults + 1
        /\ threads' = [id \in DOMAIN threads \ mine |-> threads[id]]
        /\ answers' = answers \cup UNION {Answer(threads[id].reply, Error) : id \in mine}
        /\ poll' = [poll EXCEPT ![n] = None]
        /\ sync' = [sync EXCEPT ![n] = None]
        /\ UNCHANGED <<stored, requests, jobs, vain, falseFork>>

-----------------------------------------------------------------------------
Init ==
    /\ stored = [n \in Node |-> {}]
    /\ threads = [id \in {} |-> None]
    /\ requests = {} /\ answers = {} /\ jobs = {}
    /\ poll = [n \in Node |-> None]
    /\ sync = [n \in Node |-> None]
    /\ vain = {} /\ falseFork = {} /\ faults = 0

Forward ==
    \/ \E id \in DOMAIN threads : SendNext(id) \/ Finish(id) \/ Walk(id) \/ Push(id)
    \/ \E a \in answers : Return(a)
    \/ \E r \in requests : ReceiveKnown(r) \/ ReceiveMissing(r) \/ Receive(r) \/ ReceiveLater(r)
    \/ \E j \in jobs : RunJob(j)

Polling == \E n \in Node : PollFill(n) \/ \E p \in Range(Peers[n]) : PollRead(n, p)
Syncing == \E n \in Node : SyncFetch(n) \/ SyncBlock(n)

Next ==
    \/ Forward
    \/ Polling
    \/ Syncing
    \/ \E n \in Node, b \in Block : Mine(n, b)
    \/ \E n \in Node, x \in Txn : Submit(n, x)
    \/ \E n \in Node : \E p \in Range(Peers[n]) : SyncStart(n, p)
    \/ \E r \in requests : Lose(r)
    \/ \E id \in DOMAIN threads : TimeOut(id)
    \/ \E j \in jobs : LoseJob(j)
    \/ \E n \in Node : Crash(n)

(* Whatever a node has begun goes on: handlers and workers are not suspended.     *)
(* A miller polls before every round of its search; nobody has to mine, to submit *)
(* or to start a sync.                                                       *)
Spec ==
    /\ Init /\ [][Next]_vars
    /\ WF_vars(Forward) /\ WF_vars(Polling) /\ WF_vars(Syncing)

-----------------------------------------------------------------------------
(* No path into a node's database, by gossip, by a task that runs later, by a     *)
(* miller's poll or by a forward sync, stores a block without its ancestors.     *)
AncestorsStored ==
    \A n \in Node : \A b \in stored[n] \cap Block : Range(Branch(b)) \subseteq stored[n]

(* Skipping a visited host loses nothing: a host that a post names as visited      *)
(* has the item, unless it announced a polled tip that it had failed to fetch.    *)
VisitedHaveIt ==
    \A r \in requests : \A n \in r.visited :
        r.item \in stored[n] \/ <<n, r.item>> \in vain

(* What a node has reaches every node when no request is lost and nobody stops:    *)
(* across crossing floods, skipped hosts and peers that lack the ancestors.       *)
Everywhere(x) == \A n \in Node : x \in stored[n]
Reaches(x) == (\E n \in Node : x \in stored[n]) ~> (Everywhere(x) \/ faults > 0)
ItemsReachAll == \A x \in Item : Reaches(x)

(* However requests are lost, duplicated by fills or served late, the traffic      *)
(* that an item causes ends: no two nodes feed each other forever.               *)
TrafficEnds == <>[](threads = [id \in {} |-> None] /\ requests = {} /\ jobs = {})

(* Whatever was lost, nodes that poll end with the same canonical tip.            *)
PollersAgree ==
    <>[](\A n \in Poller : \A p \in Range(Peers[n]) : Tip(stored[p]) \in stored[n] \cup {NoBlock})

(* sync_forward reports 'diverged' (node.py:494-501) only of a peer on another fork:  *)
(* from batch to batch it never takes its own progress for one.  When gossip moves  *)
(* the tip in the middle of a batch, it does (the history leaves these aside).     *)
OnlyForksDiverge == falseFork = {}
=============================================================================
