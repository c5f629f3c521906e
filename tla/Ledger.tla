------------------------------- MODULE Ledger -------------------------------
(***************************************************************************)
(* The value rules of one chain: what a regular transaction may do with the *)
(* outflows it consumes, what the coinbase of its block mints in return, and *)
(* what becomes of the grains over a chain of blocks (chain.py:73-86,       *)
(* 266-366, 403-418).                                                       *)
(*                                                                         *)
(* Grains are paid to an address or staked on a subject, for it or against   *)
(* it.  Staked grains can be staked again on the same subject, or rescinded, *)
(* which ends them.  A block's coinbase mints the reward, half of the net    *)
(* new stake and half of what was rescinded.                                *)
(*                                                                         *)
(* Who owns an outflow and which blocks its spends are looked up in are not  *)
(* here: coins holds the outflows of the chain and of its open block that     *)
(* nobody consumed.                                                         *)
(***************************************************************************)
EXTENDS Rules

CONSTANTS
    Reward,        \* REWARD
    MaxAmount,     \* bound: the largest amount of an outflow
    MaxHeight      \* bound: blocks of the chain

ASSUME LedgerAssumption ==
    MaxAmount \in Nat /\ Reward \in 1 .. MaxAmount /\ MaxHeight \in Nat

(* An outflow that can be consumed, and one a transaction may contain.       *)
Coin == [dest : Dest, amount : 1 .. MaxAmount]
Outflow ==
    [dest : Dest, rescind : {FALSE}, amount : 1 .. MaxAmount]
    \cup [dest : Stake, rescind : {TRUE}, amount : 1 .. MaxAmount]

VARIABLES
    coins,       \* how many unspent outflows of each kind there are
    metrics,     \* the CoinbaseMetrics of the open block
    height,      \* blocks of the chain
    minted,      \* history: what coinbases minted above the reward
    rescinded    \* history: what was rescinded of each stake

ledger == <<coins, metrics, height, minted, rescinded>>

-----------------------------------------------------------------------------
(* The lists of outflows that use up what the inflows give, of every kind.    *)
Outflows == BoundedSeq(Outflow, MaxFlows) \ {<<>>}
Balanced(ins) ==
    LET given == Given(ins)
    IN  {outs \in Outflows : Balance(given, outs) = Nothing}

(* How many of each coin some of the flows are.                               *)
AsCoin(flow) == [dest |-> flow.dest, amount |-> flow.amount]
Count(flows, I) == [c \in Coin |-> Cardinality({i \in I : AsCoin(flows[i]) = c})]

(* What is left of the coins, and what was rescinded, after a transaction.     *)
Spend(ins) == [c \in Coin |-> coins[c] - Count(ins, DOMAIN ins)[c]]
Receive(bag, outs) == [c \in Coin |-> bag[c] + Count(outs, Kept(outs))[c]]
AddRescinds(outs) == [s \in Stake |-> rescinded[s] + RescindedOn(outs, s)]

(* CoinbaseMetrics are added up over the transactions of the block.            *)
Plus(m, n) == [i \in 1 .. 4 |-> m[i] + n[i]]

(* The outflows of a coinbase that pays these amounts, wherever they go; no   *)
(* block whose metrics exceed MaxAmount is closed (a bound of the model).     *)
Coinbases(amounts) ==
    IF \E i \in 1 .. Len(amounts) : amounts[i] > MaxAmount THEN {}
    ELSE {[i \in 1 .. Len(amounts) |-> [to[i] EXCEPT !.amount = amounts[i]]] :
             to \in [1 .. Len(amounts) -> {o \in Outflow : o.amount = Reward}]}

-----------------------------------------------------------------------------
LedgerInit ==
    /\ coins = [c \in Coin |-> 0]
    /\ metrics = NoMetrics
    /\ height = 0
    /\ minted = 0
    /\ rescinded = [s \in Stake |-> 0]

(* validate_block_txn accepts a transaction into the open block; what it       *)
(* consumes may come from an earlier block or from this one, and is no         *)
(* rescind.                                                                   *)
AddTxn(ins) ==
    /\ \A c \in Coin : Count(ins, DOMAIN ins)[c] <= coins[c]
    /\ \E outs \in Balanced(ins) :
          /\ coins' = Receive(Spend(ins), outs)
          /\ metrics' = Plus(metrics, CoinbaseMetrics(ins, outs))
          /\ rescinded' = AddRescinds(outs)
    /\ UNCHANGED <<height, minted>>

(* The block ends with a coinbase whose amounts are the reward and the        *)
(* nonzero metrics; where each of them goes, a rescind included, is not       *)
(* checked.                                                                   *)
CloseBlock(outs) ==
    /\ height < MaxHeight
    /\ Amounts(outs) = <<Reward>> \o NonzeroAmounts(metrics)
    /\ coins' = Receive(coins, outs)
    /\ metrics' = NoMetrics
    /\ height' = height + 1
    /\ minted' = minted + Total(outs, DOMAIN outs) - Reward
    /\ rescinded' = AddRescinds(outs)

LedgerNext ==
    \/ \E ins \in BoundedSeq({c \in Coin : coins[c] > 0}, MaxFlows) \ {<<>>} : AddTxn(ins)
    \/ \E outs \in Coinbases(<<Reward>> \o NonzeroAmounts(metrics)) : CloseBlock(outs)

LedgerSpec == LedgerInit /\ [][LedgerNext]_ledger

-----------------------------------------------------------------------------
ValueOf(bag, dest) ==
    SumFunction([a \in 1 .. MaxAmount |-> bag[[dest |-> dest, amount |-> a]] * a])

(* The grains paid to addresses, the grains staked, and what the coinbase of   *)
(* the open block will mint.                                                  *)
Spendable == ValueOf(coins, Payment)
Staked == [s \in Stake |-> ValueOf(coins, s)]
Earned == metrics[1] + metrics[2] + metrics[3] + metrics[4]

(* Grains come from coinbases alone, and only a rescind ends them: what every *)
(* transaction of every block consumes is what it pays, stakes and rescinds.  *)
Conserved ==
    Spendable + SumFunction(Staked) + SumFunction(rescinded) = height * Reward + minted

(* Staking and rescinding never pay more than they bind: counting a staked    *)
(* grain as half a grain, what the chain holds and what its open block will   *)
(* mint never exceed the rewards.  Restaking and partial rescinds included.   *)
SupplyBound ==
    2 * (Spendable + Earned) + SumFunction(Staked) <= 2 * height * Reward

(* Staked grains stay staked on their subject, on their side, until rescinded. *)
StakeIsLocked ==
    [][\A s \in Stake : Staked'[s] + rescinded'[s] >= Staked[s] + rescinded[s]]_ledger
=============================================================================
