-------------------------------- MODULE Rules --------------------------------
(***************************************************************************)
(* What a regular transaction may do with the outflows it consumes, and what *)
(* it lets the coinbase of its block mint (chain.py:73-86, 266-366): the      *)
(* rules that Ledger applies to a chain and Wallet to what clients build.     *)
(*                                                                         *)
(* Grains are paid to an address, or staked on a subject, for it or against   *)
(* it.  The flows of a transaction are a function from positions (or any      *)
(* other names) to records with a destination and an amount.                  *)
(***************************************************************************)
EXTENDS Integers, Sequences, SequencesExt, FiniteSetsExt, Functions

CONSTANTS
    Subject,       \* the subjects grains are staked on
    MaxFlows       \* MAX_FLOWS: inflows, and outflows, of a transaction

ASSUME RulesAssumption == IsFiniteSet(Subject) /\ MaxFlows \in Nat /\ MaxFlows >= 2

Stake == {"opposition", "support"} \X Subject
Payment == <<"payment", "payment">>
Dest == Stake \cup {Payment}

-----------------------------------------------------------------------------
(* Which flows go to a destination, and which end what they rescind.          *)
To(flows, dest) == {i \in DOMAIN flows : flows[i].dest = dest}
Kept(outs) == {i \in DOMAIN outs : ~outs[i].rescind}
Rescinds(outs) == {i \in DOMAIN outs : outs[i].rescind}

Amounts(flows) == [i \in DOMAIN flows |-> flows[i].amount]
Total(flows, I) == SumFunctionOnSet(Amounts(flows), I)

Consumed(ins, dest) == Total(ins, To(ins, dest))
KeptOn(outs, dest) == Total(outs, To(outs, dest) \cap Kept(outs))
RescindedOn(outs, s) == Total(outs, To(outs, s) \cap Rescinds(outs))

(* Mutant of Given: consumed stakes count as payments.                        *)
GivenUnrouted(ins) == [stake |-> [s \in Stake |-> 0], other |-> Total(ins, DOMAIN ins)]

(* What the consumed outflows give the transaction, routed by their kind.    *)
Given(ins) ==
    [stake |-> [s \in Stake |-> Consumed(ins, s)], other |-> Consumed(ins, Payment)]

(* Mutant of Settle: grains beyond the consumed stake are not paid for.       *)
SettleUnpaid(balance, o) ==
    IF o.dest = Payment
    THEN [balance EXCEPT !.other = @ - o.amount]
    ELSE IF o.rescind
    THEN [balance EXCEPT !.stake[o.dest] = @ - o.amount]
    ELSE LET staked == balance.stake[o.dest]
             covered == Min({o.amount, Max({staked, 0})})
         IN  IF staked > 0
             THEN [balance EXCEPT !.stake[o.dest] = @ - covered]
             ELSE [balance EXCEPT !.other = @ - o.amount]

(* One outflow, in the order of the transaction: a rescind draws on its       *)
(* stake alone; a stake draws on what is left of the same stake, then on the  *)
(* payments; a payment on the payments alone.                                 *)
Settle(balance, o) ==
    IF o.dest = Payment
    THEN [balance EXCEPT !.other = @ - o.amount]
    ELSE IF o.rescind
    THEN [balance EXCEPT !.stake[o.dest] = @ - o.amount]
    ELSE LET covered == Min({o.amount, Max({balance.stake[o.dest], 0})})
         IN  [balance EXCEPT !.stake[o.dest] = @ - covered,
                             !.other = @ - (o.amount - covered)]

(* What is left of the balance when the outflows are settled one by one.       *)
Balance(given, outs) ==
    LET after[i \in 0 .. Len(outs)] ==
            IF i = 0 THEN given ELSE Settle(after[i - 1], outs[i])
    IN  after[Len(outs)]

(* What every transaction must come to: nothing is left over or missing.       *)
Nothing == [stake |-> [s \in Stake |-> 0], other |-> 0]

(* Mutant of NetStakeMint: all stake outflows count as new.                   *)
GrossStakeMint(kind, ins, outs) ==
    SumFunction([s \in {kind} \X Subject |-> KeptOn(outs, s) \div 2])

(* Half of the new stake on each subject: what is staked less what was        *)
(* consumed and not rescinded.                                                *)
NetStakeMint(kind, ins, outs) ==
    SumFunction([s \in {kind} \X Subject |->
        Max({0, KeptOn(outs, s) - Consumed(ins, s) + RescindedOn(outs, s)}) \div 2])

RescindMint(kind, outs) ==
    SumFunction([s \in {kind} \X Subject |-> RescindedOn(outs, s) \div 2])

CoinbaseMetrics(ins, outs) ==
    <<NetStakeMint("opposition", ins, outs),    \* schadenfreude
      RescindMint("opposition", outs),          \* grace
      NetStakeMint("support", ins, outs),       \* mudita
      RescindMint("support", outs)>>            \* regret

NoMetrics == <<0, 0, 0, 0>>

Nonzero(v) == IF v = 0 THEN <<>> ELSE <<v>>
NonzeroAmounts(m) == Nonzero(m[1]) \o Nonzero(m[2]) \o Nonzero(m[3]) \o Nonzero(m[4])
=============================================================================
