------------------------------- MODULE Wallet -------------------------------
(***************************************************************************)
(* How a client spends: it asks a node to build a transaction from the coins  *)
(* of its address (chain.py:468-796), signs it, and posts it (node.py:81-109) *)
(* to the pool, from which it is mined, discarded or expires.                 *)
(*                                                                         *)
(* A builder takes the address's unspent coins, except those that a pending   *)
(* transaction consumes, until they cover the amount, and returns the rest as *)
(* change; a rescind takes the address's own stake and restakes the rest.     *)
(* Nothing of the builder is checked until a miner validates the transaction  *)
(* by the rules of the chain (Rules), and between the two other transactions  *)
(* are mined, blocks are replaced, and a peer may give back a transaction that *)
(* this node has dropped.                                                     *)
(*                                                                         *)
(* Each address has one client, which posts or drops what it was given before *)
(* it asks again.  A build reads the chain and the pool at one instant; Api   *)
(* has the statements of a read.  Coinbases are not here: the genesis has     *)
(* coins of every address.                                                   *)
(***************************************************************************)
EXTENDS Rules, FiniteSets

CONSTANTS
    Key,           \* the addresses
    Genesis,       \* the transaction that makes the first coins
    Asks,          \* what the client of an address may ask for
    MaxTxns        \* bound: transactions that are built

(* The first coins are paid or staked; the client of a subject asks for a stake on  *)
(* it, and only a split has a count.                                           *)
ASSUME WalletAssumption ==
    /\ Genesis.ins = {} /\ DOMAIN Genesis.outs = 1 .. Len(Genesis.outs)
    /\ Len(Genesis.outs) \in Nat
    /\ \A i \in DOMAIN Genesis.outs :
          LET out == Genesis.outs[i]
          IN  out.dest \in Dest /\ out.rescind = FALSE /\ out.amount \in Nat
    /\ \A k \in Key : \A ask \in Asks[k] :
          /\ ask.amount \in Nat /\ ask.count \in Nat
          /\ ask.op # "split" => ask.count = 1
          /\ ask.op \in {"opposition", "support"} => ask.dest \in Stake

VARIABLES
    made,        \* the transactions built so far
    held,        \* what each client was given and has not posted, or 0
    posted,      \* the transactions a pool has admitted
    pending,     \* the transactions in this node's pool
    chain,       \* the transactions of the canonical chain, in order
    rows,        \* the transactions any stored block contains
    returned,    \* history: given back by a peer after they left the pool
    refused,     \* history: refused when they were posted
    wronged      \* history: discarded though all they consume was unspent

vars == <<made, held, posted, pending, chain, rows, returned, refused, wronged>>

Txns == 1 .. Len(made)
TxnAt(n) == IF n = 0 THEN Genesis ELSE made[n]

(* A coin is an outflow of a transaction; what is not paid to an address       *)
(* belongs to the address of the transaction.                                 *)
CoinOf(id) ==
    LET txn == TxnAt(id[1])
        out == txn.outs[id[2]]
    IN  [dest |-> out.dest, amount |-> out.amount, rescind |-> out.rescind,
         owner |-> IF out.dest = Payment THEN out.to ELSE txn.by]

Outputs(S) == UNION {{n} \X DOMAIN TxnAt(n).outs : n \in S}
Inputs(S) == UNION {TxnAt(n).ins : n \in S}
OnChain == {0} \cup Range(chain)
Unspent(S) == Outputs(S) \ Inputs(S)
Worth(ids) == SumFunction([id \in ids |-> CoinOf(id).amount])

(* The coins of an address: unspent_outflows, unrescinded_address_outflows.    *)
Coins(k, dest) ==
    {id \in Unspent(OnChain) :
        LET c == CoinOf(id) IN c.owner = k /\ c.dest = dest /\ ~c.rescind}

(* Mutant of Available: filter_pending is left out.                            *)
AvailableConfirmed(k, dest) == Coins(k, dest)

(* filter_pending: a coin that a pending transaction consumes is not offered.   *)
Available(k, dest) == Coins(k, dest) \ Inputs(pending)

(* The newest transaction's coins come first (the timestamp of a transaction is   *)
(* when it was built).                                                        *)
Before(c, d) == c[1] > d[1] \/ (c[1] = d[1] /\ c[2] < d[2])

(* The coins are taken one by one until they cover the amount.                  *)
Taken(ids, amount) == {d \in ids : Worth({c \in ids : Before(c, d)}) < amount}

-----------------------------------------------------------------------------
Pay(to, amount) == [dest |-> Payment, rescind |-> FALSE, amount |-> amount, to |-> to]
StakeOn(s, amount, rescind) == [dest |-> s, rescind |-> rescind, amount |-> amount, to |-> "none"]

(* What a client may ask for.                                                  *)
Ask(op, dest, amount, count, to) ==
    [op |-> op, dest |-> dest, amount |-> amount, count |-> count, to |-> to]
AskTransfer(amount, to) == Ask("transfer", Payment, amount, 1, to)
AskSplit(denomination, count) == Ask("split", Payment, denomination, count, "none")
AskOpposition(amount, subject) == Ask("opposition", <<"opposition", subject>>, amount, 1, "none")
AskSupport(amount, subject) == Ask("support", <<"support", subject>>, amount, 1, "none")
AskRescind(amount, subject, kind) == Ask("rescind", <<kind, subject>>, amount, 1, "none")

(* What the node proxy relays for a browser.                                   *)
Relayed(ask) == ask.amount > 0 /\ ask.count > 0

(* What the endpoints take.  The count of a split leaves room for its change.   *)
TransferQuery(ask) == ask.op = "transfer" /\ ask.amount >= 1 /\ ask.to \in Key

(* Mutant of SplitQuery: a split may fill all outflows.                        *)
SplitQueryFull(ask) == ask.op = "split" /\ ask.amount >= 1 /\ ask.count \in 1 .. MaxFlows

SplitQuery(ask) == ask.op = "split" /\ ask.amount >= 1 /\ ask.count \in 1 .. MaxFlows - 1
OppositionQuery(ask) == ask.op = "opposition" /\ ask.amount >= 1
SupportQuery(ask) == ask.op = "support" /\ ask.amount >= 1
RescindQuery(ask) == ask.op = "rescind" /\ ask.amount >= 1 /\ ask.dest \in Stake

Admissible(ask) ==
    \/ TransferQuery(ask) \/ SplitQuery(ask)
    \/ OppositionQuery(ask) \/ SupportQuery(ask) \/ RescindQuery(ask)

(* What is asked for in all: a split asks for a number of chips.               *)
Asked(ask) == ask.amount * ask.count

(* What a builder consumes.                                                   *)
Source(ask) == IF ask.op = "rescind" THEN ask.dest ELSE Payment

(* The outflows that were asked for, of each builder.                          *)
TransferOuts(ask) == <<Pay(ask.to, ask.amount)>>
SplitOuts(k, ask) == [i \in 1 .. ask.count |-> Pay(k, ask.amount)]
OppositionOuts(ask) == <<StakeOn(ask.dest, ask.amount, FALSE)>>
SupportOuts(ask) == <<StakeOn(ask.dest, ask.amount, FALSE)>>
RescindOuts(ask) == <<StakeOn(ask.dest, ask.amount, TRUE)>>
Wanted(k, ask) ==
    CASE ask.op = "transfer" -> TransferOuts(ask)
      [] ask.op = "split" -> SplitOuts(k, ask)
      [] ask.op = "opposition" -> OppositionOuts(ask)
      [] ask.op = "support" -> SupportOuts(ask)
      [] ask.op = "rescind" -> RescindOuts(ask)

(* Mutant of Change: the rest of a stake that is rescinded is paid out.        *)
ChangePaid(k, ask, rest) == IF rest = 0 THEN <<>> ELSE <<Pay(k, rest)>>

(* Mutant of Change: the rest goes where the transfer goes.                     *)
ChangeGiven(k, ask, rest) ==
    IF rest = 0 THEN <<>>
    ELSE IF ask.op = "rescind" THEN <<StakeOn(ask.dest, rest, FALSE)>>
    ELSE <<Pay(ask.to, rest)>>

(* The rest comes back to the signer; the rest of a stake stays staked.         *)
Change(k, ask, rest) ==
    IF rest = 0 THEN <<>>
    ELSE IF ask.op = "rescind" THEN <<StakeOn(ask.dest, rest, FALSE)>>
    ELSE <<Pay(k, rest)>>

-----------------------------------------------------------------------------
Init ==
    /\ made = <<>>
    /\ held = [k \in Key |-> 0]
    /\ posted = {}
    /\ pending = {}
    /\ chain = <<>>
    /\ rows = {}
    /\ returned = {}
    /\ refused = {}
    /\ wronged = {}

(* The client asks, itself or through the proxy, and is given an unsigned        *)
(* transaction.  It is told that its funds are pending, or insufficient, when the *)
(* coins do not cover what it asks: that changes nothing.                      *)
Build(k, ask, relayed) ==
    /\ held[k] = 0
    /\ Len(made) < MaxTxns
    /\ relayed => Relayed(ask)
    /\ Admissible(ask)
    /\ LET taken == Taken(Available(k, Source(ask)), Asked(ask))
       IN  /\ Worth(taken) >= Asked(ask)
           /\ made' = Append(made,
                 [by |-> k, ask |-> ask, ins |-> taken,
                  outs |-> Wanted(k, ask) \o Change(k, ask, Worth(taken) - Asked(ask))])
    /\ held' = [held EXCEPT ![k] = Len(made) + 1]
    /\ UNCHANGED <<posted, pending, chain, rows, returned, refused, wronged>>

(* The client does not confirm, or dies.                                       *)
Abort(k) ==
    /\ held[k] # 0
    /\ held' = [held EXCEPT ![k] = 0]
    /\ UNCHANGED <<made, posted, pending, chain, rows, returned, refused, wronged>>

WellFormed(txn) ==
    /\ Cardinality(txn.ins) \in 1 .. MaxFlows
    /\ Len(txn.outs) \in 1 .. MaxFlows

(* The client signs and posts; the node looks at the form of the transaction.   *)
Post(k) ==
    LET t == held[k]
    IN  /\ t # 0
        /\ held' = [held EXCEPT ![k] = 0]
        /\ IF WellFormed(made[t])
           THEN /\ posted' = posted \cup {t}
                /\ pending' = pending \cup {t}
                /\ UNCHANGED refused
           ELSE /\ refused' = refused \cup {t}
                /\ UNCHANGED <<posted, pending>>
        /\ UNCHANGED <<made, chain, rows, returned, wronged>>

(* A peer's pool still has it: the miller polls, or the peer gossips.  Each       *)
(* comes back once (a bound of the model).                                    *)
Return(t) ==
    /\ t \in posted \ (pending \cup rows \cup returned)
    /\ pending' = pending \cup {t}
    /\ returned' = returned \cup {t}
    /\ UNCHANGED <<made, held, posted, chain, rows, refused, wronged>>

(* What a miner, and every node, asks of a transaction that would follow these.  *)
ValidOn(txn, before) ==
    /\ txn.ins \subseteq Unspent(before)
    /\ \A id \in txn.ins : CoinOf(id).owner = txn.by /\ ~CoinOf(id).rescind
    /\ Balance(Given([id \in txn.ins |-> CoinOf(id)]), txn.outs) = Nothing

(* A block with it is accepted, from this node's miller or a peer; a block that   *)
(* fill_chain applies leaves the pool alone.                                  *)
Confirm(t, live) ==
    /\ t \in posted \ OnChain
    /\ ValidOn(made[t], OnChain)
    /\ chain' = Append(chain, t)
    /\ rows' = rows \cup {t}
    /\ pending' = IF live THEN pending \ {t} ELSE pending
    /\ UNCHANGED <<made, held, posted, returned, refused, wronged>>

(* The miller's template cannot use it, and it leaves the pool.                *)
Discard(t) ==
    /\ t \in pending \ OnChain
    /\ ~ValidOn(made[t], OnChain)
    /\ pending' = pending \ {t}
    /\ wronged' = IF made[t].ins \subseteq Unspent(OnChain) THEN wronged \cup {t} ELSE wronged
    /\ UNCHANGED <<made, held, posted, chain, rows, returned, refused>>

Expire(t) ==
    /\ t \in pending
    /\ pending' = pending \ {t}
    /\ UNCHANGED <<made, held, posted, chain, rows, returned, refused, wronged>>

(* A longer branch without the last blocks displaces them; what it has of their   *)
(* transactions is confirmed again.                                           *)
Reorg(n) ==
    /\ chain' = SubSeq(chain, 1, n)
    /\ UNCHANGED <<made, held, posted, pending, rows, returned, refused, wronged>>

Next ==
    \/ \E k \in Key : \/ \E ask \in Asks[k], relayed \in BOOLEAN : Build(k, ask, relayed)
                      \/ Abort(k)
                      \/ Post(k)
    \/ \E t \in Txns : \/ Return(t)
                       \/ \E live \in BOOLEAN : Confirm(t, live)
                       \/ Discard(t)
                       \/ Expire(t)
    \/ \E n \in 0 .. Len(chain) - 1 : Reorg(n)

Spec == Init /\ [][Next]_vars

-----------------------------------------------------------------------------
(* A miller discards a transaction that a builder made only because something it  *)
(* consumes is gone: what the builders make (chain.py:637-796) balances by the   *)
(* rules they are validated with (chain.py:266-366), change and restakes         *)
(* included.                                                                  *)
DiscardedForCause == wronged = {}

(* A node refuses what a builder made only because the amount is scattered over    *)
(* more coins than a transaction may consume (the builders gather without bound,  *)
(* chain.py:480-487); its outflows always fit, change included (chain.py:661-668). *)
OnlyDustIsRefused == \A t \in refused : Cardinality(made[t].ins) > MaxFlows

(* No two pending transactions consume the same coin, whatever was confirmed,      *)
(* replaced or expired meanwhile, unless a peer gave one of them back after this  *)
(* node had offered its coins again (models.py:837-847).                        *)
OnePromisePerCoin ==
    \A t, u \in pending :
        t # u /\ made[t].ins \cap made[u].ins # {} => {t, u} \cap returned # {}

(* What an address owns on the chain: its coins and its stakes.                  *)
Owned(k) == Worth({id \in Unspent(OnChain) : CoinOf(id).owner = k /\ ~CoinOf(id).rescind})
Given0(k) == Worth({id \in Outputs({0}) : CoinOf(id).owner = k})
Moved(S) == SumFunction([t \in S |-> Asked(made[t].ask)])

(* An address owns what it had, less what it asked to pay to others and to rescind,  *)
(* plus what others asked to pay it, summed over the chain of the moment: change   *)
(* never goes astray and nothing is paid twice (chain.py:637-796).              *)
LosesOnlyWhatItAsked ==
    \A k \in Key :
        LET paid == {t \in Range(chain) : made[t].by = k /\ made[t].ask.op \in {"transfer", "rescind"}}
            got == {t \in Range(chain) : made[t].ask.op = "transfer" /\ made[t].ask.to = k}
        IN  Owned(k) = Given0(k) - Moved(paid) + Moved(got)
=============================================================================
