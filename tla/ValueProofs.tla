---------------------------- MODULE ValueProofs ------------------------------
(***************************************************************************)
(* Proofs about Rules, Ledger and Wallet: what the rules say that a           *)
(* transaction may do with its grains, what becomes of them over a chain of    *)
(* blocks, for any rewards, subjects and amounts, and what becomes of an        *)
(* address's coins, for any addresses, coins and requests.                     *)
(***************************************************************************)
EXTENDS Ledger, Wallet, Lemmas, SequenceTheorems
-----------------------------------------------------------------------------
(* The rules: what flows add up to, and what settling them comes to.            *)

LEMMA OfTwo ==
    ASSUME NEW a \in Int, NEW b \in Int
    PROVE  Min({a, b}) = (IF a <= b THEN a ELSE b) /\ Max({a, b}) = (IF a <= b THEN b ELSE a)
<1>1. PICK x : x = (IF a <= b THEN a ELSE b)
  OBVIOUS
<1>2. x \in {a, b} /\ \A y \in {a, b} : x <= y
  BY <1>1
<1>3. \A z \in {a, b} : (\A y \in {a, b} : z <= y) => z = x
  BY <1>1
<1>4. Min({a, b}) = x
  BY <1>2, <1>3 DEF Min
<1>5. PICK w : w = (IF a <= b THEN b ELSE a)
  OBVIOUS
<1>6. w \in {a, b} /\ \A y \in {a, b} : w >= y
  BY <1>5
<1>7. \A z \in {a, b} : (\A y \in {a, b} : z >= y) => z = w
  BY <1>5
<1>8. Max({a, b}) = w
  BY <1>6, <1>7 DEF Max
<1> QED BY <1>1, <1>4, <1>5, <1>8

LEMMA DestsAreFinite ==
    /\ IsFiniteSet(Stake) /\ IsFiniteSet(Dest) /\ Payment \notin Stake
    /\ \A kind : IsFiniteSet({kind} \X Subject)
    /\ Stake = ({"opposition"} \X Subject) \cup ({"support"} \X Subject)
<1>1. IsFiniteSet(Subject)
  BY RulesAssumption
<1>2. \A kind : IsFiniteSet({kind})
  BY FS_Singleton, Zenon
<1>3. \A kind : IsFiniteSet({kind} \X Subject)
  BY <1>1, <1>2, FS_Product, Zenon
<1>4. Stake = ({"opposition"} \X Subject) \cup ({"support"} \X Subject)
  BY DEF Stake
<1>5. IsFiniteSet(Stake)
  BY <1>3, <1>4, FS_Union, Zenon
<1>6. Dest = Stake \cup {Payment}
  BY DEF Dest
<1>7. IsFiniteSet(Dest)
  BY <1>2, <1>5, <1>6, FS_Union, Zenon
<1>8. Payment \notin Stake
  BY DEF Payment, Stake
<1> QED BY <1>3, <1>4, <1>5, <1>7, <1>8

(* Flows with natural amounts, and outflows, in the order of their transaction.    *)
IsFlows(flows) ==
    /\ IsFiniteSet(DOMAIN flows)
    /\ \A i \in DOMAIN flows : flows[i].dest \in Dest /\ flows[i].amount \in Nat

IsOuts(outs) ==
    /\ IsFlows(outs) /\ Len(outs) \in Nat /\ DOMAIN outs = 1 .. Len(outs)
    /\ \A i \in DOMAIN outs : /\ outs[i].rescind \in BOOLEAN
                              /\ outs[i].rescind => outs[i].dest # Payment

LEMMA TotalIsNatural ==
    ASSUME NEW flows, IsFlows(flows), NEW I \in SUBSET DOMAIN flows
    PROVE  Summable(Amounts(flows), I) /\ Total(flows, I) \in Nat
<1>1. IsFiniteSet(I)
  BY FS_Subset DEF IsFlows
<1>2. \A i \in I : Amounts(flows)[i] \in Nat
  BY DEF IsFlows, Amounts
<1> QED BY <1>1, <1>2, SumIsNatural DEF Total

(* Every flow is a payment or goes to a stake.                                  *)
LEMMA TotalByDest ==
    ASSUME NEW flows, IsFlows(flows), NEW st, st = [s \in Stake |-> Total(flows, To(flows, s))]
    PROVE  /\ Summable(st, Stake)
           /\ Total(flows, DOMAIN flows)
                = Total(flows, To(flows, Payment)) + SumFunctionOnSet(st, Stake)
<1> DEFINE key == [i \in DOMAIN flows |-> flows[i].dest]
           by == [d \in Dest |-> Total(flows, To(flows, d))]
<1>1. Summable(Amounts(flows), DOMAIN flows)
  BY TotalIsNatural
<1>2. by = [d \in Dest |-> SumFunctionOnSet(Amounts(flows), {i \in DOMAIN flows : key[i] = d})]
  BY DEF Total, To
<1>3. \A i \in DOMAIN flows : key[i] \in Dest
  BY DEF IsFlows
<1> HIDE DEF key
<1>4. PICK g : g = by
  OBVIOUS
<1>5. Summable(g, Dest) /\ SumFunctionOnSet(g, Dest) = Total(flows, DOMAIN flows)
  <2>1. g = [d \in Dest |-> SumFunctionOnSet(Amounts(flows), {i \in DOMAIN flows : key[i] = d})]
    BY <1>2, <1>4
  <2> HIDE DEF by
  <2> QED BY <1>1, <1>3, <2>1, DestsAreFinite, SumByKey DEF Total
<1>6. /\ \A s \in Stake : st[s] = g[s]
      /\ g[Payment] = Total(flows, To(flows, Payment))
  BY <1>4 DEF Dest
<1>7. Dest = Stake \cup {Payment} /\ Stake \cap {Payment} = {}
  BY DestsAreFinite DEF Dest
<1>8. /\ Summable(g, Stake) /\ Summable(g, {Payment})
      /\ SumFunctionOnSet(g, Dest) = SumFunctionOnSet(g, Stake) + SumFunctionOnSet(g, {Payment})
  BY <1>5, <1>7, SumOfParts
<1>9. SumFunctionOnSet(g, {Payment}) = g[Payment] + 0
  <2>1. {Payment} \ {Payment} = {} /\ Payment \in {Payment}
    OBVIOUS
  <2> QED BY <1>8, <2>1, SumStep, SumOfNone
<1>10. Summable(st, Stake) /\ SumFunctionOnSet(st, Stake) = SumFunctionOnSet(g, Stake)
  BY <1>6, <1>8, SumsAgree
<1>11. SumFunctionOnSet(g, Stake) \in Int /\ g[Payment] \in Int
  BY <1>5, <1>7, <1>8, SumStep DEF Summable
<1> QED BY <1>5, <1>6, <1>8, <1>9, <1>10, <1>11

(* What goes somewhere is kept there or rescinded there, and no payment is rescinded.  *)
LEMMA KeptOrRescinded ==
    ASSUME NEW outs, IsOuts(outs), NEW d
    PROVE  /\ KeptOn(outs, d) \in Nat /\ RescindedOn(outs, d) \in Nat
           /\ Consumed(outs, d) = KeptOn(outs, d) + RescindedOn(outs, d)
           /\ d = Payment => RescindedOn(outs, d) = 0
<1> DEFINE A == To(outs, d) \cap Kept(outs)
           B == To(outs, d) \cap Rescinds(outs)
<1>1. /\ A \in SUBSET DOMAIN outs /\ B \in SUBSET DOMAIN outs /\ A \cap B = {}
      /\ To(outs, d) = A \cup B /\ (d = Payment => B = {})
  BY DEF To, Kept, Rescinds, IsOuts
<1>2. IsFlows(outs)
  BY DEF IsOuts
<1>3. KeptOn(outs, d) = Total(outs, A) /\ RescindedOn(outs, d) = Total(outs, B)
  BY DEF KeptOn, RescindedOn
<1> HIDE DEF A, B
<1>4. Total(outs, A) \in Nat /\ Total(outs, B) \in Nat
  BY <1>1, <1>2, TotalIsNatural
<1>5. Summable(Amounts(outs), A \cup B)
  <2>1. A \cup B \in SUBSET DOMAIN outs
    BY <1>1
  <2> QED BY <1>2, <2>1, TotalIsNatural
<1>6. Total(outs, To(outs, d)) = Total(outs, A) + Total(outs, B)
  BY <1>1, <1>5, SumOfParts DEF Total
<1>7. d = Payment => Total(outs, B) = 0
  BY <1>1, SumOfNone DEF Total
<1> QED BY <1>3, <1>4, <1>6, <1>7 DEF Consumed

(* The balances of a settlement.                                               *)
Balances == [stake : [Stake -> Int], other : Int]

(* An outflow takes its amount from the balance, and no more than it from a stake.   *)
LEMMA SettleTakes ==
    ASSUME NEW b \in Balances, NEW o, o.dest \in Dest, o.amount \in Nat, o.rescind \in BOOLEAN
    PROVE  /\ Settle(b, o) \in Balances
           /\ o.dest = Payment => /\ Settle(b, o).stake = b.stake
                                  /\ Settle(b, o).other = b.other - o.amount
           /\ o.dest # Payment =>
                 \E c \in Int : /\ c <= o.amount /\ o.dest \in Stake
                                /\ Settle(b, o).stake = [b.stake EXCEPT ![o.dest] = @ - c]
                                /\ Settle(b, o).other = b.other - (o.amount - c)
<1>1. b.stake \in [Stake -> Int] /\ b.other \in Int /\ b = [stake |-> b.stake, other |-> b.other]
  BY DEF Balances
<1>2. CASE o.dest = Payment
  <2>1. Settle(b, o) = [b EXCEPT !.other = @ - o.amount]
    BY <1>2 DEF Settle
  <2>2. Settle(b, o) = [stake |-> b.stake, other |-> b.other - o.amount]
    BY <1>1, <2>1
  <2>3. b.other - o.amount \in Int
    BY <1>1
  <2> QED BY <1>1, <1>2, <2>2, <2>3 DEF Balances
<1>3. CASE o.dest # Payment
  <2>1. o.dest \in Stake
    BY <1>3 DEF Dest
  <2>2. ASSUME NEW c \in Int, c <= o.amount,
               Settle(b, o) = [stake |-> [b.stake EXCEPT ![o.dest] = @ - c],
                               other |-> b.other - (o.amount - c)]
        PROVE  /\ Settle(b, o) \in Balances
               /\ Settle(b, o).stake = [b.stake EXCEPT ![o.dest] = @ - c]
               /\ Settle(b, o).other = b.other - (o.amount - c)
    <3>1. [b.stake EXCEPT ![o.dest] = @ - c] \in [Stake -> Int] /\ b.other - (o.amount - c) \in Int
      BY <1>1, <2>1
    <3> QED BY <2>2, <3>1 DEF Balances
  <2>3. CASE o.rescind
    <3>1. Settle(b, o) = [b EXCEPT !.stake[o.dest] = @ - o.amount]
      BY <1>3, <2>3 DEF Settle
    <3>2. b.other - (o.amount - o.amount) = b.other
      BY <1>1
    <3>3. Settle(b, o) = [stake |-> [b.stake EXCEPT ![o.dest] = @ - o.amount], other |-> b.other]
      BY <1>1, <3>1
    <3> QED BY <1>3, <2>1, <2>2, <3>2, <3>3
  <2>4. CASE ~o.rescind
    <3>1. b.stake[o.dest] \in Int /\ 0 \in Int
      BY <1>1, <2>1
    <3>2. PICK m : m = Max({b.stake[o.dest], 0})
      OBVIOUS
    <3>3. m \in Int
      BY <3>1, <3>2, OfTwo
    <3>4. PICK c : c = Min({o.amount, m})
      OBVIOUS
    <3>5. c \in Int /\ c <= o.amount
      BY <3>3, <3>4, OfTwo
    <3>6. Settle(b, o) = [b EXCEPT !.stake[o.dest] = @ - c, !.other = @ - (o.amount - c)]
      BY <1>3, <2>4, <3>2, <3>4 DEF Settle
    <3>7. Settle(b, o) = [stake |-> [b.stake EXCEPT ![o.dest] = @ - c],
                          other |-> b.other - (o.amount - c)]
      BY <1>1, <3>6
    <3> QED BY <1>3, <2>1, <2>2, <3>5, <3>7
  <2> QED BY <2>3, <2>4
<1> QED BY <1>2, <1>3

(* The balances after each outflow; what settling comes to is the last of them.      *)
IsHistory(f, given, outs) ==
    f = [i \in 0 .. Len(outs) |-> IF i = 0 THEN given ELSE Settle(f[i - 1], outs[i])]

LEMMA BalanceIs ==
    ASSUME NEW given, NEW outs, Len(outs) \in Nat, NEW f, IsHistory(f, given, outs)
    PROVE  Balance(given, outs) = f[Len(outs)]
<1> DEFINE Is(h) == h = [i \in 0 .. Len(outs) |-> IF i = 0 THEN given ELSE Settle(h[i - 1], outs[i])]
           g == CHOOSE h : Is(h)
<1>1. Is(f)
  BY DEF IsHistory
<1>2. Is(g)
  <2> HIDE DEF Is
  <2> QED BY <1>1, Zenon
<1>3. Balance(given, outs) = g[Len(outs)]
  BY DEF Balance
<1> HIDE DEF g
<1> DEFINE n == Len(outs)
           D == {i \in 0 .. n : g[i] = f[i]}
<1>4. n \in Nat /\ 0 \in D /\ \A i \in 1 .. n : i - 1 \in D => i \in D
  <2>1. 0 \in 0 .. n /\ \A i \in 1 .. n : i \in 0 .. n /\ i - 1 \in 0 .. n /\ i # 0
    OBVIOUS
  <2>2. g[0] = f[0]
    BY <1>1, <1>2, <2>1
  <2>3. ASSUME NEW i \in 1 .. n, g[i - 1] = f[i - 1] PROVE g[i] = f[i]
    BY <1>1, <1>2, <2>1, <2>3
  <2> HIDE DEF Is
  <2> QED BY <2>1, <2>2, <2>3
<1>5. 0 .. n \subseteq D
  <2> HIDE DEF D, n
  <2> QED BY <1>4, InductionUpTo
<1>6. n \in D
  <2>1. n \in 0 .. n
    OBVIOUS
  <2> HIDE DEF D, n
  <2> QED BY <1>5, <2>1
<1> QED BY <1>3, <1>6

(* There is one.                                                              *)
LEMMA SettlingHasHistory ==
    ASSUME NEW given \in Balances, NEW outs, IsOuts(outs)
    PROVE  \E f \in [0 .. Len(outs) -> Balances] : IsHistory(f, given, outs)
<1> DEFINE n == Len(outs)
           step == [i \in 1 .. n |-> [b \in Balances |-> Settle(b, outs[i])]]
<1>1. n \in Nat /\ \A i \in 1 .. n : /\ outs[i].dest \in Dest /\ outs[i].amount \in Nat
                                     /\ outs[i].rescind \in BOOLEAN
  BY DEF IsOuts, IsFlows
<1>2. IsLoop(n, Balances, given, step)
  <2>1. \A i \in 1 .. n : \A b \in Balances : Settle(b, outs[i]) \in Balances
    BY <1>1, SettleTakes
  <2> HIDE DEF n
  <2> QED BY <1>1, <2>1 DEF IsLoop
<1>3. PICK f : f \in Histories(n, Balances, given, step)
  <2> HIDE DEF n, step
  <2> QED BY <1>2, LoopHasHistory
<1>4. /\ f \in [0 .. n -> Balances] /\ f[0] = given
      /\ \A i \in 1 .. n : f[i] = step[i][f[i - 1]]
  BY <1>3 DEF Histories
<1>5. ASSUME NEW i \in 1 .. n PROVE f[i] = Settle(f[i - 1], outs[i])
  <2>1. f[i - 1] \in Balances
    BY <1>1, <1>4
  <2> QED BY <1>4, <2>1
<1> HIDE DEF step
<1>6. \A i \in 0 .. n : f[i] = (IF i = 0 THEN given ELSE Settle(f[i - 1], outs[i]))
  BY <1>4, <1>5
<1>7. f = [i \in 0 .. n |-> IF i = 0 THEN given ELSE Settle(f[i - 1], outs[i])]
  BY <1>4, <1>6
<1> QED BY <1>4, <1>7 DEF IsHistory

(* What the first flows add up to, of some: it grows by the last of them.          *)
SoFar(outs, i, J) == Total(outs, (1 .. i) \cap J)

LEMMA SoFarGrows ==
    ASSUME NEW outs, IsOuts(outs), NEW i \in 1 .. Len(outs), NEW J \in SUBSET DOMAIN outs
    PROVE  /\ SoFar(outs, i, J) \in Nat /\ SoFar(outs, i - 1, J) \in Nat
           /\ i \in J => SoFar(outs, i, J) = SoFar(outs, i - 1, J) + outs[i].amount
           /\ i \notin J => SoFar(outs, i, J) = SoFar(outs, i - 1, J)
<1>p. PICK P, Q : P = (1 .. i - 1) \cap J /\ Q = (1 .. i) \cap J
  OBVIOUS
<1>0. SoFar(outs, i, J) = Total(outs, Q) /\ SoFar(outs, i - 1, J) = Total(outs, P)
  BY <1>p DEF SoFar
<1>1. IsFlows(outs) /\ DOMAIN outs = 1 .. Len(outs) /\ Len(outs) \in Nat
  BY DEF IsOuts
<1>2. /\ P \in SUBSET DOMAIN outs /\ Q \in SUBSET DOMAIN outs
      /\ i \in DOMAIN outs \ P
  BY <1>p, <1>1
<1>3. /\ Summable(Amounts(outs), DOMAIN outs)
      /\ Total(outs, P) \in Nat /\ Total(outs, Q) \in Nat
  BY <1>1, <1>2, TotalIsNatural
<1>4. 1 .. i = (1 .. i - 1) \cup {i}
  BY <1>1
<1>5. ASSUME i \in J PROVE Total(outs, Q) = Total(outs, P) + outs[i].amount
  <2>1. Q = P \cup {i}
    BY <1>p, <1>4, <1>5
  <2>2. PICK f, S : f = Amounts(outs) /\ S = DOMAIN outs
    OBVIOUS
  <2>3. Summable(f, S) /\ P \in SUBSET S /\ i \in S \ P
    BY <1>2, <1>3, <2>2
  <2>4. SumFunctionOnSet(f, P \cup {i}) = SumFunctionOnSet(f, P) + f[i]
    BY <2>3, SumGrows
  <2>5. f[i] = outs[i].amount
    BY <1>2, <2>2 DEF Amounts
  <2> QED BY <2>1, <2>2, <2>4, <2>5, Zenon DEF Total
<1>6. ASSUME i \notin J PROVE Q = P
  BY <1>p, <1>4, <1>6
<1> QED BY <1>0, <1>3, <1>5, <1>6, Zenon

(* The stakes together lose what is taken from one of them.                        *)
LEMMA StakeTaken ==
    ASSUME NEW p \in [Stake -> Int], NEW d \in Stake, NEW c \in Int,
           NEW q, q = [p EXCEPT ![d] = @ - c]
    PROVE  SumFunctionOnSet(q, Stake) = SumFunctionOnSet(p, Stake) - c
<1>m. PICK m : m = 0 - c
  OBVIOUS
<1>1. Summable(p, Stake) /\ SumFunctionOnSet(p, Stake) \in Int
  <2>1. Summable(p, Stake)
    BY DestsAreFinite DEF Summable
  <2> QED BY <2>1, SumStep
<1>2. Differ(p, q, Stake, d, m)
  BY <1>m DEF Differ
<1>3. SumFunctionOnSet(q, Stake) = SumFunctionOnSet(p, Stake) + m
  BY <1>1, <1>2, SumsDiffer
<1> QED BY <1>m, <1>1, <1>3

(* A settlement that leaves nothing has paid out all it was given, and at least as   *)
(* much to every stake as came from it.                                       *)
LEMMA SettledInFull ==
    ASSUME NEW given \in Balances, NEW outs, IsOuts(outs), Balance(given, outs) = Nothing
    PROVE  /\ given.other + SumFunctionOnSet(given.stake, Stake) = Total(outs, DOMAIN outs)
           /\ \A s \in Stake : given.stake[s] <= Consumed(outs, s)
<1>n. PICK n : n = Len(outs)
  OBVIOUS
<1>1. n \in Nat /\ DOMAIN outs = 1 .. n /\ IsFlows(outs)
  BY <1>n DEF IsOuts
<1>2. PICK f \in [0 .. n -> Balances] : IsHistory(f, given, outs)
  BY <1>n, SettlingHasHistory
<1>3. f[n] = Nothing
  BY <1>1, <1>2, <1>n, BalanceIs
<1> DEFINE Worthy(b, paid) == b.other + SumFunctionOnSet(b.stake, Stake) + paid
           All(i) == SoFar(outs, i, DOMAIN outs)
           On(i, s) == SoFar(outs, i, To(outs, s))
           D == {i \in 0 .. n : /\ Worthy(f[i], All(i)) = Worthy(given, 0)
                                /\ \A s \in Stake : f[i].stake[s] + On(i, s) >= given.stake[s]}
<1>4. \A b \in Balances : /\ Summable(b.stake, Stake) /\ SumFunctionOnSet(b.stake, Stake) \in Int
                          /\ b.other \in Int /\ b.stake \in [Stake -> Int]
  <2> TAKE b \in Balances
  <2>1. b.other \in Int /\ b.stake \in [Stake -> Int]
    BY DEF Balances
  <2>2. Summable(b.stake, Stake)
    BY <2>1, DestsAreFinite DEF Summable
  <2> QED BY <2>1, <2>2, SumStep
<1>5. 0 \in D
  <2>1. (\A J : (1 .. 0) \cap J = {}) /\ 0 \in 0 .. n
    BY <1>1
  <2>2. All(0) = 0 /\ \A s : On(0, s) = 0
    BY <2>1, SumOfNone DEF Total, SoFar
  <2>3. f[0] = given
    BY <1>2, <1>n, <2>1 DEF IsHistory
  <2>4. given.stake \in [Stake -> Int]
    BY <1>4
  <2> HIDE DEF All, On, Worthy
  <2> QED BY <2>1, <2>2, <2>3, <2>4
<1>6. ASSUME NEW i \in 1 .. n, i - 1 \in D PROVE i \in D
  <2>b. PICK b, o, e : b = f[i - 1] /\ o = outs[i] /\ e = f[i]
    OBVIOUS
  <2>1. /\ i \in 0 .. n /\ i - 1 \in 0 .. n /\ i \in 1 .. Len(outs) /\ i # 0
        /\ i \in DOMAIN outs
    BY <1>1, <1>n
  <2>2. b \in Balances /\ e \in Balances /\ e = Settle(b, o)
    BY <1>2, <1>n, <2>1, <2>b DEF IsHistory
  <2>3. o.dest \in Dest /\ o.amount \in Nat /\ o.rescind \in BOOLEAN
    BY <1>1, <2>1, <2>b DEF IsFlows, IsOuts
  <2>4. /\ All(i) \in Nat /\ All(i - 1) \in Nat /\ All(i) = All(i - 1) + o.amount
    <3>1. DOMAIN outs \in SUBSET DOMAIN outs
      OBVIOUS
    <3> HIDE DEF D
    <3> QED BY <2>1, <2>b, <3>1, SoFarGrows
  <2>5. ASSUME NEW s \in Stake
        PROVE  /\ On(i, s) \in Nat /\ On(i - 1, s) \in Nat
               /\ o.dest = s => On(i, s) = On(i - 1, s) + o.amount
               /\ o.dest # s => On(i, s) = On(i - 1, s)
    <3>1. PICK J : J = To(outs, s)
      OBVIOUS
    <3>2. J \in SUBSET DOMAIN outs /\ (i \in J <=> o.dest = s)
      BY <2>1, <2>b, <3>1 DEF To
    <3> HIDE DEF D
    <3> QED BY <2>1, <2>b, <3>1, <3>2, SoFarGrows
  <2>6. /\ Worthy(b, All(i - 1)) = Worthy(given, 0)
        /\ \A s \in Stake : b.stake[s] + On(i - 1, s) >= given.stake[s]
    BY <1>6, <2>b
  <2> HIDE DEF All, On, D
  <2>7. CASE o.dest = Payment
    <3>1. e.stake = b.stake /\ e.other = b.other - o.amount
      BY <2>2, <2>3, <2>7, SettleTakes
    <3>2. \A s \in Stake : On(i, s) = On(i - 1, s)
      <4>1. \A s \in Stake : o.dest # s
        BY <2>7, DestsAreFinite
      <4> QED BY <2>5, <4>1
    <3>3. Worthy(e, All(i)) = Worthy(b, All(i - 1))
      <4>1. b.other \in Int /\ SumFunctionOnSet(b.stake, Stake) \in Int
        BY <1>4, <2>2
      <4> QED BY <2>3, <2>4, <3>1, <4>1
    <3>4. \A s \in Stake : e.stake[s] + On(i, s) >= given.stake[s]
      BY <2>6, <3>1, <3>2
    <3> HIDE DEF Worthy
    <3> QED BY <2>1, <2>6, <2>b, <3>3, <3>4 DEF D
  <2>8. CASE o.dest # Payment
    <3>1. PICK c \in Int : /\ c <= o.amount /\ o.dest \in Stake
                           /\ e.stake = [b.stake EXCEPT ![o.dest] = @ - c]
                           /\ e.other = b.other - (o.amount - c)
      <4>1. \E c \in Int : /\ c <= o.amount /\ o.dest \in Stake
                          /\ Settle(b, o).stake = [b.stake EXCEPT ![o.dest] = @ - c]
                          /\ Settle(b, o).other = b.other - (o.amount - c)
        BY <2>2, <2>3, <2>8, SettleTakes
      <4> QED BY <2>2, <4>1
    <3>2. b.stake \in [Stake -> Int] /\ b.other \in Int /\ Summable(b.stake, Stake)
      BY <1>4, <2>2
    <3>3. PICK d : d = o.dest
      OBVIOUS
    <3>4. /\ d \in Stake /\ e.stake[d] = b.stake[d] - c
          /\ \A s \in Stake : s # d => e.stake[s] = b.stake[s]
      BY <3>1, <3>2, <3>3
    <3>5. SumFunctionOnSet(e.stake, Stake) = SumFunctionOnSet(b.stake, Stake) - c
      BY <3>1, <3>2, StakeTaken
    <3>6. Worthy(e, All(i)) = Worthy(b, All(i - 1))
      <4>1. SumFunctionOnSet(b.stake, Stake) \in Int
        BY <1>4, <2>2
      <4>2. PICK S, T : S = SumFunctionOnSet(b.stake, Stake) /\ T = SumFunctionOnSet(e.stake, Stake)
        OBVIOUS
      <4>3. S \in Int /\ T = S - c
        BY <3>5, <4>1, <4>2
      <4>4. e.other + T + All(i) = b.other + S + All(i - 1)
        <5>1. o.amount \in Int /\ b.other \in Int /\ All(i - 1) \in Int
          BY <2>3, <2>4, <3>2
        <5>2. All(i) = All(i - 1) + o.amount /\ e.other = b.other - (o.amount - c)
          BY <2>4, <3>1
        <5> QED BY <4>3, <5>1, <5>2
      <4> QED BY <4>2, <4>4
    <3>7. ASSUME NEW s \in Stake PROVE e.stake[s] + On(i, s) >= given.stake[s]
      <4>1. b.stake[s] \in Int /\ given.stake[s] \in Int
        BY <1>4, <3>2
      <4>2. b.stake[s] + On(i - 1, s) >= given.stake[s]
        BY <2>6
      <4>3. CASE s = d
        <5>1. e.stake[s] = b.stake[s] - c /\ On(i, s) = On(i - 1, s) + o.amount
          BY <2>5, <3>3, <3>4, <4>1, <4>3
        <5>2. On(i - 1, s) \in Int /\ o.amount \in Int /\ c <= o.amount
          BY <2>3, <2>5, <3>1
        <5> QED BY <4>1, <4>2, <5>1, <5>2
      <4>4. CASE s # d
        <5>1. e.stake[s] = b.stake[s] /\ On(i, s) = On(i - 1, s)
          BY <2>5, <3>3, <3>4, <4>4
        <5> QED BY <2>5, <4>1, <4>2, <5>1
      <4> QED BY <4>3, <4>4
    <3> HIDE DEF Worthy
    <3> QED BY <2>1, <2>6, <2>b, <3>6, <3>7 DEF D
  <2> QED BY <2>7, <2>8
<1>7. n \in D
  <2>1. n \in 0 .. n
    BY <1>1
  <2> HIDE DEF D
  <2>2. 0 .. n \subseteq D
    BY <1>1, <1>5, <1>6, InductionUpTo
  <2> QED BY <2>1, <2>2
<1>8. Nothing.other = 0 /\ SumFunctionOnSet(Nothing.stake, Stake) = 0 /\ \A s \in Stake : Nothing.stake[s] = 0
  <2>1. Nothing.other = 0 /\ \A s \in Stake : Nothing.stake[s] = 0
    BY DEF Nothing
  <2> QED BY <2>1, DestsAreFinite, SumOfZeros
<1>9. All(n) = Total(outs, DOMAIN outs) /\ \A s : On(n, s) = Consumed(outs, s)
  <2>1. (1 .. n) \cap DOMAIN outs = DOMAIN outs /\ \A s : (1 .. n) \cap To(outs, s) = To(outs, s)
    BY <1>1 DEF To
  <2> QED BY <2>1 DEF Consumed, SoFar
<1>10. Total(outs, DOMAIN outs) \in Nat /\ \A s : Consumed(outs, s) \in Nat
  <2>1. \A s : To(outs, s) \in SUBSET DOMAIN outs
    BY DEF To
  <2> QED BY <1>1, <2>1, TotalIsNatural DEF Consumed
<1>11. /\ Worthy(Nothing, Total(outs, DOMAIN outs)) = Worthy(given, 0)
       /\ \A s \in Stake : Nothing.stake[s] + Consumed(outs, s) >= given.stake[s]
  <2> HIDE DEF All, On, Worthy
  <2> QED BY <1>3, <1>7, <1>9
<1>12. given.other \in Int /\ SumFunctionOnSet(given.stake, Stake) \in Int /\ given.stake \in [Stake -> Int]
  BY <1>4
<1>13. given.other + SumFunctionOnSet(given.stake, Stake) = Total(outs, DOMAIN outs)
  BY <1>8, <1>10, <1>11, <1>12
<1>14. ASSUME NEW s \in Stake PROVE given.stake[s] <= Consumed(outs, s)
  <2>1. 0 + Consumed(outs, s) >= given.stake[s] /\ given.stake[s] \in Int
    BY <1>8, <1>11, <1>12
  <2> QED BY <1>10, <2>1
<1> QED BY <1>13, <1>14

-----------------------------------------------------------------------------
(* Ledger: what the coins are worth.                                           *)

(* Flows whose amounts are those of coins.                                      *)
InRange(flows) == IsFlows(flows) /\ \A i \in DOMAIN flows : flows[i].amount \in 1 .. MaxAmount

Bags == [Coin -> Int]

LEMMA ValueType ==
    ASSUME NEW bag \in Bags, NEW d \in Dest, NEW w,
           w = [a \in 1 .. MaxAmount |-> bag[[dest |-> d, amount |-> a]] * a]
    PROVE  /\ Summable(w, 1 .. MaxAmount) /\ ValueOf(bag, d) \in Int
           /\ ValueOf(bag, d) = SumFunctionOnSet(w, 1 .. MaxAmount)
<1>1. ASSUME NEW a \in 1 .. MaxAmount PROVE w[a] \in Int
  <2>1. [dest |-> d, amount |-> a] \in Coin
    BY DEF Coin
  <2>2. bag[[dest |-> d, amount |-> a]] \in Int /\ a \in Int
    BY <2>1, LedgerAssumption DEF Bags
  <2>3. \A x, y \in Int : x * y \in Int
    OBVIOUS
  <2> QED BY <2>2, <2>3
<1>2. IsFiniteSet(1 .. MaxAmount)
  <2>1. 1 \in Int /\ MaxAmount \in Int
    BY LedgerAssumption
  <2> QED BY <2>1, FS_Interval, Zenon
<1>3. Summable(w, 1 .. MaxAmount)
  BY <1>1, <1>2 DEF Summable
<1>4. DOMAIN w = 1 .. MaxAmount
  OBVIOUS
<1>5. ValueOf(bag, d) = SumFunctionOnSet(w, 1 .. MaxAmount)
  BY <1>4 DEF ValueOf, SumFunction
<1> QED BY <1>3, <1>5, SumStep

(* Bags that are put together are worth as much as both.                          *)
LEMMA ValueAdds ==
    ASSUME NEW a \in Bags, NEW b \in Bags, NEW d \in Dest, NEW r,
           r = [c \in Coin |-> a[c] + b[c]]
    PROVE  r \in Bags /\ ValueOf(r, d) = ValueOf(a, d) + ValueOf(b, d)
<1> DEFINE w(bag) == [n \in 1 .. MaxAmount |-> bag[[dest |-> d, amount |-> n]] * n]
<1>1. r \in Bags
  BY DEF Bags
<1>2. PICK f, g, h : f = w(a) /\ g = w(b) /\ h = w(r)
  OBVIOUS
<1>3. ASSUME NEW n \in 1 .. MaxAmount PROVE h[n] = f[n] + g[n]
  <2>1. PICK c : c = [dest |-> d, amount |-> n]
    OBVIOUS
  <2>2. c \in Coin
    BY <2>1 DEF Coin
  <2>3. a[c] \in Int /\ b[c] \in Int /\ n \in Int /\ r[c] = a[c] + b[c]
    BY <2>2, LedgerAssumption DEF Bags
  <2>4. \A x, y, z \in Int : (x + y) * z = x * z + y * z
    OBVIOUS
  <2>5. f[n] = a[c] * n /\ g[n] = b[c] * n /\ h[n] = r[c] * n
    BY <1>2, <2>1
  <2> QED BY <2>3, <2>4, <2>5
<1>n. PICK N : N = 1 .. MaxAmount
  OBVIOUS
<1>4. /\ Summable(f, N) /\ ValueOf(a, d) = SumFunctionOnSet(f, N)
      /\ Summable(g, N) /\ ValueOf(b, d) = SumFunctionOnSet(g, N)
      /\ ValueOf(r, d) = SumFunctionOnSet(h, N)
  <2>1. Summable(f, N) /\ ValueOf(a, d) = SumFunctionOnSet(f, N)
    BY <1>2, <1>n, ValueType
  <2>2. Summable(g, N) /\ ValueOf(b, d) = SumFunctionOnSet(g, N)
    BY <1>2, <1>n, ValueType
  <2>3. ValueOf(r, d) = SumFunctionOnSet(h, N)
    BY <1>1, <1>2, <1>n, ValueType
  <2> QED BY <2>1, <2>2, <2>3
<1>5. SumFunctionOnSet(h, N) = SumFunctionOnSet(f, N) + SumFunctionOnSet(g, N)
  <2>1. \A n \in N : h[n] = f[n] + g[n]
    BY <1>3, <1>n
  <2> HIDE DEF w
  <2> QED BY <1>4, <2>1, SumsAdd
<1> QED BY <1>1, <1>4, <1>5

(* Flows that are counted are worth what they add up to.                          *)
LEMMA ValueOfCount ==
    ASSUME NEW flows, InRange(flows), NEW I \in SUBSET DOMAIN flows, NEW d \in Dest
    PROVE  /\ Count(flows, I) \in Bags
           /\ ValueOf(Count(flows, I), d) = Total(flows, To(flows, d) \cap I)
<1>j. PICK J : J = To(flows, d) \cap I
  OBVIOUS
<1>1. IsFiniteSet(DOMAIN flows) /\ J \in SUBSET DOMAIN flows
  BY <1>j DEF InRange, IsFlows
<1>2. ASSUME NEW K \in SUBSET DOMAIN flows PROVE IsFiniteSet(K) /\ Cardinality(K) \in Int
  <2>1. IsFiniteSet(K)
    BY <1>1, FS_Subset
  <2>2. Cardinality(K) \in Nat
    BY <2>1, FS_CardinalityType
  <2> QED BY <2>1, <2>2
<1>3. Count(flows, I) \in Bags
  <2>1. \A c \in Coin : Cardinality({i \in I : AsCoin(flows[i]) = c}) \in Int
    <3> TAKE c \in Coin
    <3>1. {i \in I : AsCoin(flows[i]) = c} \in SUBSET DOMAIN flows
      OBVIOUS
    <3> QED BY <1>2, <3>1
  <2> QED BY <2>1 DEF Bags, Count
<1>4. PICK w : w = [a \in 1 .. MaxAmount |-> Count(flows, I)[[dest |-> d, amount |-> a]] * a]
  OBVIOUS
<1>5. ValueOf(Count(flows, I), d) = SumFunctionOnSet(w, 1 .. MaxAmount)
  BY <1>3, <1>4, ValueType
<1>6. PICK f : f = Amounts(flows)
  OBVIOUS
<1>7. \A i \in J : f[i] = flows[i].amount /\ f[i] \in 1 .. MaxAmount
  BY <1>1, <1>6 DEF Amounts, InRange
<1>8. w = [a \in 1 .. MaxAmount |-> Cardinality({i \in J : f[i] = a}) * a]
  <2>1. ASSUME NEW a \in 1 .. MaxAmount
        PROVE  Count(flows, I)[[dest |-> d, amount |-> a]] = Cardinality({i \in J : f[i] = a})
    <3>1. [dest |-> d, amount |-> a] \in Coin
      BY DEF Coin
    <3>2. ASSUME NEW i \in I
          PROVE  AsCoin(flows[i]) = [dest |-> d, amount |-> a] <=> i \in J /\ f[i] = a
      <4>1. i \in J <=> flows[i].dest = d
        BY <1>j DEF To
      <4>2. f[i] = flows[i].amount
        BY <1>6 DEF Amounts
      <4> QED BY <4>1, <4>2 DEF AsCoin
    <3>3. J \subseteq I
      BY <1>j
    <3>4. {i \in I : AsCoin(flows[i]) = [dest |-> d, amount |-> a]} = {i \in J : f[i] = a}
      BY <3>2, <3>3
    <3> QED BY <3>1, <3>4 DEF Count
  <2> QED BY <1>4, <2>1
<1>9. SumFunctionOnSet(w, 1 .. MaxAmount) = SumFunctionOnSet(f, J)
  <2>1. MaxAmount \in Nat
    BY LedgerAssumption
  <2>2. IsFiniteSet(J) /\ \A i \in J : f[i] \in 1 .. MaxAmount
    BY <1>1, <1>2, <1>7
  <2> QED BY <1>8, <2>1, <2>2, SumByCount
<1> QED BY <1>3, <1>5, <1>6, <1>9, <1>j DEF Total

(* Lists of coins, and of outflows.                                             *)
LEMMA FlowsInRange ==
    ASSUME NEW S, S \subseteq Coin \/ S \subseteq Outflow,
           NEW m \in Nat, NEW flows \in [1 .. m -> S]
    PROVE  InRange(flows) /\ (S \subseteq Outflow => IsOuts(flows))
<1>3. flows \in Seq(S) /\ Len(flows) = m /\ DOMAIN flows = 1 .. m
  OBVIOUS
<1>4. IsFiniteSet(1 .. m)
  BY FS_Interval
<1>5. ASSUME NEW x \in S
      PROVE  /\ x.dest \in Dest /\ x.amount \in 1 .. MaxAmount /\ x.amount \in Nat
             /\ S \subseteq Outflow => /\ x.rescind \in BOOLEAN
                                       /\ x.rescind => x.dest \in Stake
  <2>1. x \in Coin => x.dest \in Dest /\ x.amount \in 1 .. MaxAmount
    BY DEF Coin
  <2>2. x \in Outflow => /\ x.dest \in Dest /\ x.amount \in 1 .. MaxAmount
                         /\ x.rescind \in BOOLEAN /\ (x.rescind => x.dest \in Stake)
    BY DEF Outflow, Dest
  <2>3. 1 .. MaxAmount \subseteq Nat
    BY LedgerAssumption
  <2> QED BY <1>5, <2>1, <2>2, <2>3
<1>6. \A i \in 1 .. m : flows[i] \in S
  OBVIOUS
<1>7. IsFlows(flows)
  BY <1>3, <1>4, <1>5, <1>6 DEF IsFlows
<1>8. InRange(flows)
  BY <1>3, <1>5, <1>6, <1>7 DEF InRange
<1>9. ASSUME S \subseteq Outflow PROVE IsOuts(flows)
  <2>1. \A i \in 1 .. m : /\ flows[i].rescind \in BOOLEAN
                          /\ flows[i].rescind => flows[i].dest # Payment
    <3> TAKE i \in 1 .. m
    <3>1. flows[i].rescind \in BOOLEAN /\ (flows[i].rescind => flows[i].dest \in Stake)
      BY <1>5, <1>6, <1>9
    <3>2. Payment \notin Stake
      BY DestsAreFinite
    <3> QED BY <3>1, <3>2
  <2>2. /\ Len(flows) \in Nat /\ DOMAIN flows = 1 .. Len(flows)
        /\ \A i \in DOMAIN flows : /\ flows[i].rescind \in BOOLEAN
                                   /\ flows[i].rescind => flows[i].dest # Payment
    <3>1. Len(flows) \in Nat
      BY <1>3
    <3>2. DOMAIN flows = 1 .. Len(flows)
      BY <1>3
    <3> QED BY <1>3, <2>1, <3>1, <3>2
  <2> QED BY <1>7, <2>2, Zenon DEF IsOuts
<1> QED BY <1>8, <1>9

(* What a transaction, or a coinbase, takes from the stakes and what it keeps and   *)
(* ends of them.                                                                *)
Takes(ins, i) == i = [s \in Stake |-> Consumed(ins, s)]
Keeps(outs, k) == k = [s \in Stake |-> KeptOn(outs, s)]
Ends(outs, r) == r = [s \in Stake |-> RescindedOn(outs, s)]

LEMMA TakesType ==
    ASSUME NEW ins, IsFlows(ins), NEW i, Takes(ins, i)
    PROVE  /\ i \in [Stake -> Nat] /\ Summable(i, Stake) /\ SumFunctionOnSet(i, Stake) \in Nat
           /\ Consumed(ins, Payment) \in Nat /\ Total(ins, DOMAIN ins) \in Nat
           /\ Total(ins, DOMAIN ins) = Consumed(ins, Payment) + SumFunctionOnSet(i, Stake)
<1>1. \A d : To(ins, d) \in SUBSET DOMAIN ins
  BY DEF To
<1>2. \A d : Consumed(ins, d) \in Nat
  BY <1>1, TotalIsNatural DEF Consumed
<1>3. i \in [Stake -> Nat]
  BY <1>2 DEF Takes
<1>4. Summable(i, Stake) /\ SumFunctionOnSet(i, Stake) \in Nat
  BY <1>3, DestsAreFinite, SumIsNatural
<1>5. Total(ins, DOMAIN ins) = Consumed(ins, Payment) + SumFunctionOnSet(i, Stake)
  BY TotalByDest DEF Takes, Consumed
<1> QED BY <1>2, <1>3, <1>4, <1>5

LEMMA OutsSum ==
    ASSUME NEW outs, IsOuts(outs), NEW k, Keeps(outs, k), NEW r, Ends(outs, r)
    PROVE  /\ k \in [Stake -> Nat] /\ Summable(k, Stake) /\ SumFunctionOnSet(k, Stake) \in Nat
           /\ r \in [Stake -> Nat] /\ Summable(r, Stake) /\ SumFunctionOnSet(r, Stake) \in Nat
           /\ KeptOn(outs, Payment) \in Nat
           /\ Total(outs, DOMAIN outs) = KeptOn(outs, Payment) + SumFunctionOnSet(k, Stake)
                                          + SumFunctionOnSet(r, Stake)
<1>1. PICK o : Takes(outs, o)
  BY DEF Takes
<1>2. /\ SumFunctionOnSet(o, Stake) \in Nat
      /\ Total(outs, DOMAIN outs) = Consumed(outs, Payment) + SumFunctionOnSet(o, Stake)
  BY <1>1, TakesType DEF IsOuts
<1>3. k \in [Stake -> Nat] /\ r \in [Stake -> Nat] /\ \A s \in Stake : o[s] = k[s] + r[s]
  BY <1>1, KeptOrRescinded DEF Takes, Keeps, Ends
<1>4. /\ Summable(k, Stake) /\ SumFunctionOnSet(k, Stake) \in Nat
      /\ Summable(r, Stake) /\ SumFunctionOnSet(r, Stake) \in Nat
  <2>1. IsFiniteSet(Stake)
    BY DestsAreFinite
  <2>2. Summable(k, Stake) /\ SumFunctionOnSet(k, Stake) \in Nat
    BY <1>3, <2>1, SumIsNatural
  <2>3. Summable(r, Stake) /\ SumFunctionOnSet(r, Stake) \in Nat
    BY <1>3, <2>1, SumIsNatural
  <2> QED BY <2>2, <2>3
<1>5. SumFunctionOnSet(o, Stake) = SumFunctionOnSet(k, Stake) + SumFunctionOnSet(r, Stake)
  <2>1. PICK S : S = Stake
    OBVIOUS
  <2>2. Summable(k, S) /\ Summable(r, S) /\ \A s \in S : o[s] = k[s] + r[s]
    BY <1>3, <1>4, <2>1
  <2>3. SumFunctionOnSet(o, S) = SumFunctionOnSet(k, S) + SumFunctionOnSet(r, S)
    BY <2>2, SumsAdd
  <2> QED BY <2>1, <2>3, Zenon
<1>6. KeptOn(outs, Payment) \in Nat /\ Consumed(outs, Payment) = KeptOn(outs, Payment)
  <2>1. /\ KeptOn(outs, Payment) \in Nat /\ RescindedOn(outs, Payment) = 0
        /\ Consumed(outs, Payment) = KeptOn(outs, Payment) + RescindedOn(outs, Payment)
    BY KeptOrRescinded
  <2> QED BY <2>1
<1> QED BY <1>2, <1>3, <1>4, <1>5, <1>6

(* A transaction that comes out even pays, stakes and rescinds what it consumed, and  *)
(* restakes or rescinds on every stake at least what came from it.                *)
LEMMA TxnIsEven ==
    ASSUME NEW ins, IsFlows(ins), NEW outs, IsOuts(outs), Balance(Given(ins), outs) = Nothing,
           NEW i, Takes(ins, i), NEW k, Keeps(outs, k), NEW r, Ends(outs, r)
    PROVE  /\ Consumed(ins, Payment) + SumFunctionOnSet(i, Stake)
                = KeptOn(outs, Payment) + SumFunctionOnSet(k, Stake) + SumFunctionOnSet(r, Stake)
           /\ \A s \in Stake : i[s] <= k[s] + r[s]
<1>1. PICK g : g = Given(ins)
  OBVIOUS
<1>2. g = [stake |-> i, other |-> Consumed(ins, Payment)]
  BY <1>1 DEF Given, Takes
<1>3. i \in [Stake -> Nat] /\ Consumed(ins, Payment) \in Nat
  BY TakesType
<1>4. g.stake = i /\ g.other = Consumed(ins, Payment) /\ g \in Balances
  <2>1. i \in [Stake -> Int] /\ Consumed(ins, Payment) \in Int
    BY <1>3
  <2> QED BY <1>2, <2>1 DEF Balances
<1>5. /\ g.other + SumFunctionOnSet(g.stake, Stake) = Total(outs, DOMAIN outs)
      /\ \A s \in Stake : g.stake[s] <= Consumed(outs, s)
  BY <1>1, <1>4, SettledInFull
<1>6. \A s \in Stake : Consumed(outs, s) = k[s] + r[s]
  BY KeptOrRescinded DEF Keeps, Ends
<1> QED BY <1>4, <1>5, <1>6, OutsSum

(* A sum over both kinds of stakes.                                             *)
LEMMA OverKinds ==
    ASSUME NEW f, \A s \in Stake : f[s] \in Nat
    PROVE  /\ Summable(f, Stake)
           /\ \A kind \in {"opposition", "support"} :
                 /\ Summable(f, {kind} \X Subject)
                 /\ SumFunctionOnSet(f, {kind} \X Subject) \in Nat
           /\ SumFunctionOnSet(f, Stake) = SumFunctionOnSet(f, {"opposition"} \X Subject)
                                             + SumFunctionOnSet(f, {"support"} \X Subject)
<1>1. PICK A, B : A = {"opposition"} \X Subject /\ B = {"support"} \X Subject
  OBVIOUS
<1>2. IsFiniteSet(A) /\ IsFiniteSet(B) /\ Stake = A \cup B /\ A \cap B = {}
  <2>1. A \cap B = {}
    BY <1>1
  <2> QED BY <1>1, <2>1, DestsAreFinite
<1>3. Summable(f, Stake)
  BY DestsAreFinite, SumIsNatural
<1>4. SumFunctionOnSet(f, Stake) = SumFunctionOnSet(f, A) + SumFunctionOnSet(f, B)
  BY <1>2, <1>3, SumOfParts
<1>5. /\ Summable(f, A) /\ SumFunctionOnSet(f, A) \in Nat
      /\ Summable(f, B) /\ SumFunctionOnSet(f, B) \in Nat
  <2>1. \A s \in A : f[s] \in Nat
    BY <1>2
  <2>2. \A s \in B : f[s] \in Nat
    BY <1>2
  <2>3. Summable(f, A) /\ SumFunctionOnSet(f, A) \in Nat
    BY <1>2, <2>1, SumIsNatural
  <2>4. Summable(f, B) /\ SumFunctionOnSet(f, B) \in Nat
    BY <1>2, <2>2, SumIsNatural
  <2> QED BY <2>3, <2>4
<1> QED BY <1>1, <1>3, <1>4, <1>5

(* Half of the new stake, and half of what is rescinded, of each stake.           *)
Mints(i, k, r, n) == n = [s \in Stake |-> Max({0, k[s] - i[s] + r[s]}) \div 2]
Halves(r, h) == h = [s \in Stake |-> r[s] \div 2]
Minting(ins, outs, i, k, r, n, h) ==
    /\ Takes(ins, i) /\ Keeps(outs, k) /\ Ends(outs, r) /\ Mints(i, k, r, n) /\ Halves(r, h)
    /\ \A s \in Stake : n[s] \in Nat /\ h[s] \in Nat
MintedAs(ins, outs, n, h) ==
    \A kind \in {"opposition", "support"} :
        /\ NetStakeMint(kind, ins, outs) = SumFunctionOnSet(n, {kind} \X Subject)
        /\ RescindMint(kind, outs) = SumFunctionOnSet(h, {kind} \X Subject)

LEMMA MintsAreSums ==
    ASSUME NEW ins, NEW outs, NEW i, NEW k, NEW r, NEW n, NEW h, Minting(ins, outs, i, k, r, n, h)
    PROVE  MintedAs(ins, outs, n, h)
<1> SUFFICES ASSUME NEW kind \in {"opposition", "support"}
             PROVE  /\ NetStakeMint(kind, ins, outs) = SumFunctionOnSet(n, {kind} \X Subject)
                    /\ RescindMint(kind, outs) = SumFunctionOnSet(h, {kind} \X Subject)
  BY Zenon DEF MintedAs
<1>1. PICK S : S = {kind} \X Subject
  OBVIOUS
<1>2. S \subseteq Stake
  BY <1>1 DEF Stake
<1>3. PICK p, q : /\ p = [s \in S |-> Max({0, KeptOn(outs, s) - Consumed(ins, s)
                                                + RescindedOn(outs, s)}) \div 2]
                  /\ q = [s \in S |-> RescindedOn(outs, s) \div 2]
  OBVIOUS
<1>4. (\A s \in S : p[s] = n[s] /\ q[s] = h[s]) /\ DOMAIN p = S /\ DOMAIN q = S
  BY <1>2, <1>3 DEF Minting, Mints, Halves, Takes, Keeps, Ends
<1>5. Summable(n, S) /\ Summable(h, S)
  <2>1. Summable(n, S)
    BY <1>1, OverKinds DEF Minting
  <2>2. Summable(h, S)
    BY <1>1, OverKinds DEF Minting
  <2> QED BY <2>1, <2>2
<1>6. SumFunctionOnSet(p, S) = SumFunctionOnSet(n, S)
  BY <1>4, <1>5, SumsAgree
<1>7. SumFunctionOnSet(q, S) = SumFunctionOnSet(h, S)
  BY <1>4, <1>5, SumsAgree
<1>8. NetStakeMint(kind, ins, outs) = SumFunctionOnSet(p, S)
  BY <1>1, <1>3, <1>4, Zenon DEF NetStakeMint, SumFunction
<1>9. RescindMint(kind, outs) = SumFunctionOnSet(q, S)
  BY <1>1, <1>3, <1>4, Zenon DEF RescindMint, SumFunction
<1> QED BY <1>1, <1>6, <1>7, <1>8, <1>9

(* What the halves add up to, when they are covered on every stake.                *)
NaturalOn(f, S) == \A s \in S : f[s] \in Nat
Covered(n, h, i, k, r, S) ==
    \A s \in S : n[s] + n[s] + h[s] + h[s] + i[s] <= k[s] + r[s] + r[s]
Added(f, g, h, S) == \A s \in S : h[s] = f[s] + g[s]

LEMMA AddedSums ==
    ASSUME NEW S, IsFiniteSet(S), NEW f, NEW g, NaturalOn(f, S), NaturalOn(g, S),
           NEW h, Added(f, g, h, S)
    PROVE  /\ NaturalOn(h, S)
           /\ SumFunctionOnSet(f, S) \in Nat /\ SumFunctionOnSet(g, S) \in Nat
           /\ SumFunctionOnSet(h, S) = SumFunctionOnSet(f, S) + SumFunctionOnSet(g, S)
<1>1. Summable(f, S) /\ SumFunctionOnSet(f, S) \in Nat
  BY SumIsNatural DEF NaturalOn
<1>2. Summable(g, S) /\ SumFunctionOnSet(g, S) \in Nat
  BY SumIsNatural DEF NaturalOn
<1>3. NaturalOn(h, S)
  BY DEF NaturalOn, Added
<1>4. \A s \in S : h[s] = f[s] + g[s]
  BY DEF Added
<1> QED BY <1>1, <1>2, <1>3, <1>4, SumsAdd

LEMMA CoveredSums ==
    ASSUME NEW S, IsFiniteSet(S), NEW n, NEW h, NEW i, NEW k, NEW r,
           NaturalOn(n, S), NaturalOn(h, S), NaturalOn(i, S), NaturalOn(k, S), NaturalOn(r, S),
           Covered(n, h, i, k, r, S)
    PROVE  /\ SumFunctionOnSet(i, S) \in Nat /\ SumFunctionOnSet(k, S) \in Nat
           /\ SumFunctionOnSet(r, S) \in Nat
           /\ 2 * (SumFunctionOnSet(n, S) + SumFunctionOnSet(h, S)) + SumFunctionOnSet(i, S)
                <= SumFunctionOnSet(k, S) + 2 * SumFunctionOnSet(r, S)
<1>1. PICK m : m = [s \in S |-> n[s] + h[s]]
  OBVIOUS
<1>2. PICK mm : mm = [s \in S |-> m[s] + m[s]]
  OBVIOUS
<1>3. PICK p : p = [s \in S |-> mm[s] + i[s]]
  OBVIOUS
<1>4. PICK rr : rr = [s \in S |-> r[s] + r[s]]
  OBVIOUS
<1>5. PICK q : q = [s \in S |-> k[s] + rr[s]]
  OBVIOUS
<1>6. /\ Added(n, h, m, S) /\ Added(m, m, mm, S) /\ Added(mm, i, p, S)
      /\ Added(r, r, rr, S) /\ Added(k, rr, q, S)
  BY <1>1, <1>2, <1>3, <1>4, <1>5 DEF Added
<1>7. /\ NaturalOn(m, S) /\ SumFunctionOnSet(n, S) \in Nat /\ SumFunctionOnSet(h, S) \in Nat
      /\ SumFunctionOnSet(m, S) = SumFunctionOnSet(n, S) + SumFunctionOnSet(h, S)
  BY <1>6, AddedSums
<1>8. /\ NaturalOn(mm, S)
      /\ SumFunctionOnSet(mm, S) = SumFunctionOnSet(m, S) + SumFunctionOnSet(m, S)
  BY <1>6, <1>7, AddedSums
<1>9. /\ NaturalOn(p, S) /\ SumFunctionOnSet(i, S) \in Nat
      /\ SumFunctionOnSet(p, S) = SumFunctionOnSet(mm, S) + SumFunctionOnSet(i, S)
  BY <1>6, <1>8, AddedSums
<1>10. /\ NaturalOn(rr, S) /\ SumFunctionOnSet(r, S) \in Nat
       /\ SumFunctionOnSet(rr, S) = SumFunctionOnSet(r, S) + SumFunctionOnSet(r, S)
  BY <1>6, AddedSums
<1>11. /\ NaturalOn(q, S) /\ SumFunctionOnSet(k, S) \in Nat
       /\ SumFunctionOnSet(q, S) = SumFunctionOnSet(k, S) + SumFunctionOnSet(rr, S)
  BY <1>6, <1>10, AddedSums
<1>12. SumFunctionOnSet(p, S) <= SumFunctionOnSet(q, S)
  <2>1. ASSUME NEW s \in S PROVE p[s] <= q[s]
    <3>1. n[s] \in Nat /\ h[s] \in Nat /\ i[s] \in Nat /\ k[s] \in Nat /\ r[s] \in Nat
      BY DEF NaturalOn
    <3>2. p[s] = n[s] + h[s] + (n[s] + h[s]) + i[s] /\ q[s] = k[s] + (r[s] + r[s])
      BY <1>1, <1>2, <1>3, <1>4, <1>5
    <3>3. n[s] + n[s] + h[s] + h[s] + i[s] <= k[s] + r[s] + r[s]
      BY DEF Covered
    <3> QED BY <3>1, <3>2, <3>3
  <2>2. Summable(p, S) /\ Summable(q, S)
    <3>1. Summable(p, S)
      BY <1>9, SumIsNatural DEF NaturalOn
    <3>2. Summable(q, S)
      BY <1>11, SumIsNatural DEF NaturalOn
    <3> QED BY <3>1, <3>2
  <2> QED BY <2>1, <2>2, SumsCompare
<1> QED BY <1>7, <1>8, <1>9, <1>10, <1>11, <1>12

(* What a transaction earns the coinbase is at most half of its new stakes and of   *)
(* what it rescinds.                                                           *)
LEMMA MetricsPay ==
    ASSUME NEW ins, NEW outs,
           NEW i \in [Stake -> Nat], NEW k \in [Stake -> Nat], NEW r \in [Stake -> Nat],
           Takes(ins, i), Keeps(outs, k), Ends(outs, r),
           \A s \in Stake : i[s] <= k[s] + r[s], NEW e, e = CoinbaseMetrics(ins, outs)
    PROVE  /\ e \in [1 .. 4 -> Nat]
           /\ 2 * (e[1] + e[2] + e[3] + e[4]) + SumFunctionOnSet(i, Stake)
                <= SumFunctionOnSet(k, Stake) + 2 * SumFunctionOnSet(r, Stake)
<1>1. PICK n : Mints(i, k, r, n)
  BY DEF Mints
<1>2. PICK h : Halves(r, h)
  BY DEF Halves
<1>3. ASSUME NEW s \in Stake
      PROVE  /\ n[s] \in Nat /\ h[s] \in Nat
             /\ n[s] + n[s] + h[s] + h[s] + i[s] <= k[s] + r[s] + r[s]
  <2>1. i[s] \in Nat /\ k[s] \in Nat /\ r[s] \in Nat /\ i[s] <= k[s] + r[s]
    OBVIOUS
  <2>2. PICK x \in Nat : x = k[s] - i[s] + r[s]
    <3>1. k[s] - i[s] + r[s] \in Nat
      BY <2>1
    <3> QED BY <3>1
  <2>3. Max({0, x}) = x
    BY <2>2, OfTwo
  <2>4. n[s] = x \div 2 /\ h[s] = r[s] \div 2
    BY <1>1, <1>2, <2>2, <2>3 DEF Mints, Halves
  <2>5. \A y \in Nat : y \div 2 \in Nat /\ y \div 2 + y \div 2 <= y
    OBVIOUS
  <2>6. n[s] \in Nat /\ h[s] \in Nat /\ n[s] + n[s] <= x /\ h[s] + h[s] <= r[s]
    BY <2>1, <2>2, <2>4, <2>5
  <2> QED BY <2>1, <2>2, <2>6
<1>4. \A s \in Stake : n[s] \in Nat /\ h[s] \in Nat
  BY <1>3
<1>5. PICK A, B : A = {"opposition"} \X Subject /\ B = {"support"} \X Subject
  OBVIOUS
<1>6. e = <<SumFunctionOnSet(n, A), SumFunctionOnSet(h, A), SumFunctionOnSet(n, B),
            SumFunctionOnSet(h, B)>>
  <2>1. MintedAs(ins, outs, n, h)
    <3>1. Minting(ins, outs, i, k, r, n, h)
      BY <1>1, <1>2, <1>4, Zenon DEF Minting
    <3> QED BY <3>1, MintsAreSums
  <2>2. /\ NetStakeMint("opposition", ins, outs) = SumFunctionOnSet(n, A)
        /\ RescindMint("opposition", outs) = SumFunctionOnSet(h, A)
    <3>1. "opposition" \in {"opposition", "support"}
      OBVIOUS
    <3> QED BY <1>5, <2>1, <3>1, Zenon DEF MintedAs
  <2>3. /\ NetStakeMint("support", ins, outs) = SumFunctionOnSet(n, B)
        /\ RescindMint("support", outs) = SumFunctionOnSet(h, B)
    <3>1. "support" \in {"opposition", "support"}
      OBVIOUS
    <3> QED BY <1>5, <2>1, <3>1, Zenon DEF MintedAs
  <2> QED BY <2>2, <2>3, Zenon DEF CoinbaseMetrics
<1>7. /\ SumFunctionOnSet(n, A) \in Nat /\ SumFunctionOnSet(n, B) \in Nat /\ Summable(n, Stake)
      /\ SumFunctionOnSet(n, Stake) = SumFunctionOnSet(n, A) + SumFunctionOnSet(n, B)
  BY <1>4, <1>5, OverKinds
<1>8. /\ SumFunctionOnSet(h, A) \in Nat /\ SumFunctionOnSet(h, B) \in Nat /\ Summable(h, Stake)
      /\ SumFunctionOnSet(h, Stake) = SumFunctionOnSet(h, A) + SumFunctionOnSet(h, B)
  BY <1>4, <1>5, OverKinds
<1>9. e \in [1 .. 4 -> Nat]
  BY <1>6, <1>7, <1>8
<1>10. /\ SumFunctionOnSet(i, Stake) \in Nat /\ SumFunctionOnSet(k, Stake) \in Nat
       /\ SumFunctionOnSet(r, Stake) \in Nat
       /\ 2 * (SumFunctionOnSet(n, Stake) + SumFunctionOnSet(h, Stake)) + SumFunctionOnSet(i, Stake)
            <= SumFunctionOnSet(k, Stake) + 2 * SumFunctionOnSet(r, Stake)
  <2>1. IsFiniteSet(Stake) /\ NaturalOn(n, Stake) /\ NaturalOn(h, Stake) /\ NaturalOn(i, Stake)
        /\ NaturalOn(k, Stake) /\ NaturalOn(r, Stake)
    BY <1>4, DestsAreFinite DEF NaturalOn
  <2>2. Covered(n, h, i, k, r, Stake)
    BY <1>3 DEF Covered
  <2> QED BY <2>1, <2>2, CoveredSums
<1>11. e[1] + e[2] + e[3] + e[4] = SumFunctionOnSet(n, Stake) + SumFunctionOnSet(h, Stake)
  <2>1. /\ e[1] = SumFunctionOnSet(n, A) /\ e[2] = SumFunctionOnSet(h, A)
        /\ e[3] = SumFunctionOnSet(n, B) /\ e[4] = SumFunctionOnSet(h, B)
    BY <1>6
  <2>2. \A w, x, y, z \in Nat : w + x + y + z = (w + y) + (x + z)
    OBVIOUS
  <2> QED BY <1>7, <1>8, <2>1, <2>2
<1>12. 2 * (e[1] + e[2] + e[3] + e[4]) + SumFunctionOnSet(i, Stake)
         <= SumFunctionOnSet(k, Stake) + 2 * SumFunctionOnSet(r, Stake)
  BY <1>10, <1>11, Zenon
<1> QED BY <1>9, <1>12

(* What the amounts of a sequence add up to; amounts that follow each other.      *)
AddsUpTo(q, v) == q \in Seq(Nat \ {0}) /\ SumFunctionOnSet(q, 1 .. Len(q)) = v

LEMMA AmountsInTurn ==
    ASSUME NEW p, NEW q, NEW v, NEW w, AddsUpTo(p, v), AddsUpTo(q, w)
    PROVE  AddsUpTo(p \o q, v + w)
<1> DEFINE P == Nat \ {0}
<1>1. PICK m, n, r : m = Len(p) /\ n = Len(q) /\ r = p \o q
  OBVIOUS
<1>2. m \in Nat /\ n \in Nat /\ p \in Seq(P) /\ q \in Seq(P)
  BY <1>1 DEF AddsUpTo
<1>3. /\ r \in Seq(P) /\ Len(r) = m + n
      /\ \A i \in 1 .. m + n : r[i] = IF i <= m THEN p[i] ELSE q[i - m]
  BY <1>1, <1>2, ConcatProperties
<1>4. PICK A, B : A = 1 .. m /\ B = m + 1 .. m + n
  OBVIOUS
<1>5. A \cup B = 1 .. m + n /\ A \cap B = {}
  BY <1>2, <1>4
<1>6. Summable(r, A \cup B)
  <2>1. 1 \in Int /\ m + n \in Int
    BY <1>2
  <2>2. IsFiniteSet(1 .. m + n)
    BY <2>1, FS_Interval
  <2>3. \A i \in 1 .. m + n : r[i] \in P
    BY <1>2, <1>3, ElementOfSeq
  <2>4. P \subseteq Int
    OBVIOUS
  <2> QED BY <1>5, <2>2, <2>3, <2>4 DEF Summable
<1>7. /\ Summable(r, A) /\ Summable(r, B)
      /\ SumFunctionOnSet(r, A \cup B) = SumFunctionOnSet(r, A) + SumFunctionOnSet(r, B)
  BY <1>5, <1>6, SumOfParts
<1>8. SumFunctionOnSet(p, A) = SumFunctionOnSet(r, A)
  <2>1. \A i \in A : p[i] = r[i]
    BY <1>2, <1>3, <1>4
  <2> QED BY <1>7, <2>1, SumsAgree
<1>9. SumFunctionOnSet(q, 1 .. n) = SumFunctionOnSet(r, B)
  <2>1. PICK C : C = 1 .. n
    OBVIOUS
  <2>2. PICK s : s = [i \in C |-> i + m]
    OBVIOUS
  <2>3. IsFiniteSet(C)
    <3>1. 1 \in Int /\ n \in Int
      BY <1>2
    <3> QED BY <2>1, <3>1, FS_Interval
  <2>4. B = {s[i] : i \in C}
    <3>1. \A i \in C : s[i] \in B
      BY <1>2, <1>4, <2>1, <2>2
    <3>2. ASSUME NEW j \in B PROVE \E i \in C : j = s[i]
      <4>1. j - m \in C /\ j = s[j - m]
        BY <1>2, <1>4, <2>1, <2>2
      <4> QED BY <4>1
    <3> QED BY <3>1, <3>2
  <2>5. \A i, j \in C : s[i] = s[j] => i = j
    BY <1>2, <2>1, <2>2
  <2>6. \A i \in C : q[i] = r[s[i]]
    <3> TAKE i \in C
    <3>1. s[i] \in 1 .. m + n /\ ~(s[i] <= m) /\ s[i] - m = i
      BY <1>2, <2>1, <2>2
    <3> QED BY <1>3, <3>1
  <2>7. SumFunctionOnSet(q, C) = SumFunctionOnSet(r, B)
    BY <1>7, <2>3, <2>4, <2>5, <2>6, SumRenamed
  <2> QED BY <2>1, <2>7
<1>10. SumFunctionOnSet(r, 1 .. Len(r)) = v + w
  BY <1>1, <1>3, <1>4, <1>5, <1>7, <1>8, <1>9, Zenon DEF AddsUpTo
<1> QED BY <1>1, <1>3, <1>10, Zenon DEF AddsUpTo

LEMMA OneAmount ==
    ASSUME NEW v \in Nat
    PROVE  v # 0 => AddsUpTo(<<v>>, v)
<1> SUFFICES ASSUME v # 0 PROVE AddsUpTo(<<v>>, v)
  OBVIOUS
<1>1. PICK q : q = <<v>>
  OBVIOUS
<1>2. q \in Seq(Nat \ {0}) /\ Len(q) = 1 /\ q[1] = v
  BY <1>1
<1>3. 1 .. 1 = {1} /\ {1} \ {1} = {}
  OBVIOUS
<1>4. Summable(q, {1})
  <2>1. IsFiniteSet({1})
    BY FS_Singleton
  <2>2. \A i \in {1} : q[i] \in Int
    BY <1>2
  <2> QED BY <2>1, <2>2 DEF Summable
<1>5. SumFunctionOnSet(q, {1}) = q[1] + SumFunctionOnSet(q, {1} \ {1})
  <2>1. 1 \in {1}
    OBVIOUS
  <2> QED BY <1>4, <2>1, SumStep
<1>6. SumFunctionOnSet(q, {}) = 0
  BY SumOfNone
<1>7. SumFunctionOnSet(q, 1 .. Len(q)) = v
  <2>1. SumFunctionOnSet(q, {1}) = v + 0
    BY <1>2, <1>3, <1>5, <1>6, Zenon
  <2> QED BY <1>2, <1>3, <2>1
<1> QED BY <1>1, <1>2, <1>7 DEF AddsUpTo

LEMMA NonzeroAddsUp ==
    ASSUME NEW v \in Nat
    PROVE  AddsUpTo(Nonzero(v), v)
<1>1. CASE v # 0
  BY <1>1, OneAmount DEF Nonzero
<1>2. CASE v = 0
  <2>1. Nonzero(v) = <<>>
    BY <1>2 DEF Nonzero
  <2>2. <<>> \in Seq(Nat \ {0}) /\ 1 .. Len(<<>>) = {}
    OBVIOUS
  <2> QED BY <1>2, <2>1, <2>2, SumOfNone DEF AddsUpTo
<1> QED BY <1>1, <1>2

(* The outflows of a coinbase are the reward and what the block earned.            *)
LEMMA CoinbasePays ==
    ASSUME NEW m \in [1 .. 4 -> Nat], NEW outs \in Coinbases(<<Reward>> \o NonzeroAmounts(m))
    PROVE  /\ IsOuts(outs) /\ InRange(outs)
           /\ Total(outs, DOMAIN outs) = Reward + (m[1] + m[2] + m[3] + m[4])
<1>1. PICK q : q = <<Reward>> \o NonzeroAmounts(m)
  OBVIOUS
<1>2. /\ m[1] \in Nat /\ m[2] \in Nat /\ m[3] \in Nat /\ m[4] \in Nat
      /\ Reward \in Nat /\ Reward # 0
  BY LedgerAssumption
<1>3. AddsUpTo(q, Reward + (m[1] + m[2] + m[3] + m[4]))
  <2>1. AddsUpTo(Nonzero(m[1]), m[1]) /\ AddsUpTo(Nonzero(m[2]), m[2])
    BY <1>2, NonzeroAddsUp
  <2>2. AddsUpTo(Nonzero(m[3]), m[3]) /\ AddsUpTo(Nonzero(m[4]), m[4])
    BY <1>2, NonzeroAddsUp
  <2>3. AddsUpTo(Nonzero(m[1]) \o Nonzero(m[2]), m[1] + m[2])
    BY <2>1, AmountsInTurn, Zenon
  <2>4. AddsUpTo(Nonzero(m[1]) \o Nonzero(m[2]) \o Nonzero(m[3]), m[1] + m[2] + m[3])
    BY <2>2, <2>3, AmountsInTurn, Zenon
  <2>5. AddsUpTo(NonzeroAmounts(m), m[1] + m[2] + m[3] + m[4])
    BY <2>2, <2>4, AmountsInTurn, Zenon DEF NonzeroAmounts
  <2>6. AddsUpTo(<<Reward>>, Reward)
    BY <1>2, OneAmount
  <2> QED BY <1>1, <2>5, <2>6, AmountsInTurn, Zenon
<1>4. PICK n : n = Len(q)
  OBVIOUS
<1>5. n \in Nat /\ \A i \in 1 .. n : q[i] \in Nat \ {0}
  BY <1>3, <1>4 DEF AddsUpTo
<1>6. PICK to \in [1 .. n -> {o \in Outflow : o.amount = Reward}] :
         outs = [i \in 1 .. n |-> [to[i] EXCEPT !.amount = q[i]]]
  BY <1>1, <1>4 DEF Coinbases
<1>7. \A i \in 1 .. n : q[i] \in 1 .. MaxAmount
  <2>1. \A i \in 1 .. n : q[i] <= MaxAmount
    BY <1>1, <1>4, <1>5, LedgerAssumption DEF Coinbases
  <2> QED BY <1>5, <2>1, LedgerAssumption
<1>8. ASSUME NEW i \in 1 .. n
      PROVE  outs[i] \in Outflow /\ outs[i].amount = q[i]
  <2>1. to[i] \in Outflow /\ outs[i] = [to[i] EXCEPT !.amount = q[i]]
    BY <1>6
  <2>2. q[i] \in 1 .. MaxAmount
    BY <1>7
  <2> QED BY <2>1, <2>2 DEF Outflow
<1>9. outs \in [1 .. n -> Outflow]
  BY <1>6, <1>8
<1>10. IsOuts(outs) /\ InRange(outs) /\ DOMAIN outs = 1 .. n
  <2>1. Outflow \subseteq Outflow
    OBVIOUS
  <2> QED BY <1>5, <1>9, <2>1, FlowsInRange
<1>11. Amounts(outs) = [i \in 1 .. n |-> q[i]]
  BY <1>8, <1>10 DEF Amounts
<1>12. SumFunctionOnSet(Amounts(outs), 1 .. n) = SumFunctionOnSet(q, 1 .. n)
  <2>1. Summable(q, 1 .. n)
    <3>1. 1 \in Int /\ n \in Int
      BY <1>5
    <3>2. IsFiniteSet(1 .. n)
      BY <3>1, FS_Interval
    <3>3. \A i \in 1 .. n : q[i] \in Int
      BY <1>5
    <3> QED BY <3>2, <3>3 DEF Summable
  <2>2. \A i \in 1 .. n : Amounts(outs)[i] = q[i]
    BY <1>11
  <2> QED BY <2>1, <2>2, SumsAgree
<1> QED BY <1>3, <1>4, <1>10, <1>12, Zenon DEF Total, AddsUpTo

(* What the coins are worth after a transaction, and after a coinbase.             *)
LEMMA ReceiveAdds ==
    ASSUME NEW bag \in Bags, NEW outs, IsOuts(outs), InRange(outs), NEW d \in Dest
    PROVE  /\ Receive(bag, outs) \in Bags
           /\ ValueOf(Receive(bag, outs), d) = ValueOf(bag, d) + KeptOn(outs, d)
<1>1. PICK c : c = Count(outs, Kept(outs))
  OBVIOUS
<1>2. Kept(outs) \in SUBSET DOMAIN outs
  BY DEF Kept
<1>3. c \in Bags /\ ValueOf(c, d) = KeptOn(outs, d)
  BY <1>1, <1>2, ValueOfCount DEF KeptOn
<1>4. Receive(bag, outs) = [x \in Coin |-> bag[x] + c[x]]
  BY <1>1 DEF Receive
<1> QED BY <1>3, <1>4, ValueAdds

LEMMA SpendTakes ==
    ASSUME coins \in Bags, NEW ins, InRange(ins), NEW d \in Dest
    PROVE  /\ Spend(ins) \in Bags
           /\ ValueOf(Spend(ins), d) + Consumed(ins, d) = ValueOf(coins, d)
<1>1. PICK c, b : c = Count(ins, DOMAIN ins) /\ b = Spend(ins)
  OBVIOUS
<1>2. c \in Bags /\ ValueOf(c, d) = Consumed(ins, d)
  <2>1. DOMAIN ins \in SUBSET DOMAIN ins /\ To(ins, d) \cap DOMAIN ins = To(ins, d)
    BY DEF To
  <2> QED BY <1>1, <2>1, ValueOfCount DEF Consumed
<1>3. b = [x \in Coin |-> coins[x] - c[x]]
  BY <1>1 DEF Spend
<1>4. b \in Bags
  BY <1>2, <1>3 DEF Bags
<1>5. coins = [x \in Coin |-> b[x] + c[x]]
  <2>1. \A x \in Coin : coins[x] = b[x] + c[x]
    BY <1>2, <1>3 DEF Bags
  <2> QED BY <2>1 DEF Bags
<1> QED BY <1>1, <1>2, <1>4, <1>5, ValueAdds

-----------------------------------------------------------------------------
(* Ledger: no grain is lost or made up, supply is bounded, stakes stay locked.      *)

LedgerTypes ==
    /\ coins \in Bags /\ metrics \in [1 .. 4 -> Nat]
    /\ height \in Nat /\ minted \in Int /\ rescinded \in [Stake -> Nat]

(* The invariant is inductive: the two sums need only the types of what they add.   *)
LedgerInv == LedgerTypes /\ Conserved /\ SupplyBound

(* What the chain holds, and a step changes, in numbers.                           *)
LEMMA HoldingsType ==
    ASSUME LedgerTypes
    PROVE  /\ Staked \in [Stake -> Int] /\ Summable(Staked, Stake)
           /\ SumFunction(Staked) = SumFunctionOnSet(Staked, Stake)
           /\ SumFunctionOnSet(Staked, Stake) \in Int
           /\ Summable(rescinded, Stake)
           /\ SumFunction(rescinded) = SumFunctionOnSet(rescinded, Stake)
           /\ SumFunctionOnSet(rescinded, Stake) \in Int
           /\ Spendable \in Int /\ Earned \in Int /\ height * Reward \in Int
<1>1. ASSUME NEW d \in Dest PROVE ValueOf(coins, d) \in Int
  <2>1. PICK w : w = [a \in 1 .. MaxAmount |-> coins[[dest |-> d, amount |-> a]] * a]
    OBVIOUS
  <2> QED BY <2>1, ValueType DEF LedgerTypes
<1>2. Staked \in [Stake -> Int] /\ Spendable \in Int
  BY <1>1 DEF Staked, Spendable, Dest
<1>3. Summable(Staked, Stake) /\ SumFunctionOnSet(Staked, Stake) \in Int
  <2>1. Summable(Staked, Stake)
    BY <1>2, DestsAreFinite DEF Summable
  <2> QED BY <2>1, SumStep
<1>4. Summable(rescinded, Stake) /\ SumFunctionOnSet(rescinded, Stake) \in Int
  <2>1. Summable(rescinded, Stake)
    BY DestsAreFinite DEF Summable, LedgerTypes
  <2> QED BY <2>1, SumStep
<1>5. DOMAIN Staked = Stake /\ DOMAIN rescinded = Stake
  BY DEF Staked, LedgerTypes
<1>6. Earned \in Int
  BY DEF Earned, LedgerTypes
<1>7. height * Reward \in Int
  <2>1. height \in Int /\ Reward \in Int
    BY LedgerAssumption DEF LedgerTypes
  <2> QED BY <2>1
<1> QED BY <1>2, <1>3, <1>4, <1>5, <1>6, <1>7, Zenon DEF SumFunction

(* Every stake gains what is kept on it and loses what is consumed; what is rescinded  *)
(* of it is counted.                                                            *)
Gains(i, k, r) ==
    /\ \A s \in Stake : Staked'[s] = Staked[s] - i[s] + k[s]
    /\ \A s \in Stake : rescinded'[s] = rescinded[s] + r[s]

LEMMA GainsAddUp ==
    ASSUME LedgerTypes, NEW i \in [Stake -> Nat], NEW k \in [Stake -> Nat],
           NEW r \in [Stake -> Nat], Gains(i, k, r),
           Staked' \in [Stake -> Int], rescinded' \in [Stake -> Int]
    PROVE  /\ SumFunction(Staked') + SumFunctionOnSet(i, Stake)
                = SumFunction(Staked) + SumFunctionOnSet(k, Stake)
           /\ SumFunction(rescinded') = SumFunction(rescinded) + SumFunctionOnSet(r, Stake)
           /\ SumFunction(Staked') \in Int /\ SumFunction(rescinded') \in Int
<1>0. PICK S, st, sn, re, rn : /\ S = Stake /\ st = Staked /\ sn = Staked'
                               /\ re = rescinded /\ rn = rescinded'
  OBVIOUS
<1>1. /\ Summable(st, S) /\ Summable(re, S)
      /\ SumFunction(st) = SumFunctionOnSet(st, S) /\ SumFunctionOnSet(st, S) \in Int
      /\ SumFunction(re) = SumFunctionOnSet(re, S) /\ SumFunctionOnSet(re, S) \in Int
  BY <1>0, HoldingsType
<1>2. Summable(i, S) /\ Summable(k, S) /\ Summable(r, S) /\ Summable(sn, S) /\ Summable(rn, S)
  BY <1>0, DestsAreFinite DEF Summable
<1>3. PICK u : u = [s \in S |-> sn[s] + i[s]]
  OBVIOUS
<1>4. SumFunctionOnSet(u, S) = SumFunctionOnSet(sn, S) + SumFunctionOnSet(i, S)
  <2>1. \A s \in S : u[s] = sn[s] + i[s]
    BY <1>3
  <2> QED BY <1>2, <2>1, SumsAdd
<1>5. SumFunctionOnSet(u, S) = SumFunctionOnSet(st, S) + SumFunctionOnSet(k, S)
  <2>1. ASSUME NEW s \in S PROVE u[s] = st[s] + k[s]
    <3>1. sn[s] = st[s] - i[s] + k[s] /\ u[s] = sn[s] + i[s]
      BY <1>0, <1>3 DEF Gains
    <3>2. st[s] \in Int /\ i[s] \in Int /\ k[s] \in Int
      BY <1>1, <1>2 DEF Summable
    <3> QED BY <3>1, <3>2
  <2> QED BY <1>1, <1>2, <2>1, SumsAdd
<1>6. SumFunctionOnSet(rn, S) = SumFunctionOnSet(re, S) + SumFunctionOnSet(r, S)
  <2>1. \A s \in S : rn[s] = re[s] + r[s]
    BY <1>0 DEF Gains
  <2> QED BY <1>1, <1>2, <2>1, SumsAdd
<1>7. SumFunctionOnSet(sn, S) \in Int /\ SumFunctionOnSet(rn, S) \in Int
  <2>1. SumFunctionOnSet(sn, S) \in Int
    BY <1>2, SumStep
  <2>2. SumFunctionOnSet(rn, S) \in Int
    BY <1>2, SumStep
  <2> QED BY <2>1, <2>2
<1>8. DOMAIN sn = S /\ DOMAIN rn = S
  BY <1>0
<1>9. SumFunction(sn) = SumFunctionOnSet(sn, S) /\ SumFunction(rn) = SumFunctionOnSet(rn, S)
  BY <1>8, Zenon DEF SumFunction
<1> QED BY <1>0, <1>1, <1>4, <1>5, <1>6, <1>7, <1>9

(* CoinbaseMetrics are added up one by one.                                       *)
LEMMA MetricsAddUp ==
    ASSUME NEW m \in [1 .. 4 -> Nat], NEW e \in [1 .. 4 -> Nat], NEW p, p = Plus(m, e)
    PROVE  /\ p \in [1 .. 4 -> Nat]
           /\ p[1] + p[2] + p[3] + p[4] = (m[1] + m[2] + m[3] + m[4]) + (e[1] + e[2] + e[3] + e[4])
<1>1. p = [x \in 1 .. 4 |-> m[x] + e[x]]
  BY DEF Plus
<1>2. \A x \in 1 .. 4 : m[x] \in Nat /\ e[x] \in Nat /\ p[x] = m[x] + e[x]
  BY <1>1
<1>3. p \in [1 .. 4 -> Nat]
  BY <1>1, <1>2
<1>4. /\ m[1] \in Nat /\ m[2] \in Nat /\ m[3] \in Nat /\ m[4] \in Nat
      /\ e[1] \in Nat /\ e[2] \in Nat /\ e[3] \in Nat /\ e[4] \in Nat
  BY <1>2
<1>5. /\ p[1] = m[1] + e[1] /\ p[2] = m[2] + e[2]
      /\ p[3] = m[3] + e[3] /\ p[4] = m[4] + e[4]
  BY <1>2
<1> QED BY <1>3, <1>4, <1>5

(* No stake loses what was not rescinded of it.                                   *)
StakesHold == \A s \in Stake : Staked'[s] + rescinded'[s] >= Staked[s] + rescinded[s]

LEMMA AddTxnKeepsLedger ==
    ASSUME LedgerInv, NEW ins \in BoundedSeq({c \in Coin : coins[c] > 0}, MaxFlows) \ {<<>>},
           AddTxn(ins)
    PROVE  LedgerInv' /\ StakesHold
<1>1. LedgerTypes /\ coins \in Bags /\ rescinded \in [Stake -> Nat]
  BY DEF LedgerInv, LedgerTypes
<1>2. IsFlows(ins) /\ InRange(ins)
  <2>1. PICK S : S = {c \in Coin : coins[c] > 0}
    OBVIOUS
  <2>2. PICK m \in Nat : ins \in [1 .. m -> S]
    BY <2>1, RulesAssumption DEF BoundedSeq, SeqOf
  <2>3. S \subseteq Coin
    BY <2>1
  <2> QED BY <2>2, <2>3, FlowsInRange DEF InRange
<1>3. PICK outs : /\ outs \in Balanced(ins)
                  /\ coins' = Receive(Spend(ins), outs)
                  /\ metrics' = Plus(metrics, CoinbaseMetrics(ins, outs))
                  /\ rescinded' = AddRescinds(outs)
  BY DEF AddTxn
<1>4. IsOuts(outs) /\ InRange(outs) /\ Balance(Given(ins), outs) = Nothing
  <2>1. outs \in Outflows /\ Balance(Given(ins), outs) = Nothing
    BY <1>3 DEF Balanced
  <2>2. PICK m \in Nat : outs \in [1 .. m -> Outflow]
    BY <2>1, RulesAssumption DEF Outflows, BoundedSeq, SeqOf
  <2>3. Outflow \subseteq Outflow
    OBVIOUS
  <2> QED BY <2>1, <2>2, <2>3, FlowsInRange
<1>5. height' = height /\ minted' = minted
  BY DEF AddTxn
<1>6. PICK i : Takes(ins, i)
  BY DEF Takes
<1>7. PICK k : Keeps(outs, k)
  BY DEF Keeps
<1>8. PICK r : Ends(outs, r)
  BY DEF Ends
<1>9. /\ i \in [Stake -> Nat] /\ SumFunctionOnSet(i, Stake) \in Nat
      /\ Consumed(ins, Payment) \in Nat
  BY <1>2, <1>6, TakesType
<1>10. /\ k \in [Stake -> Nat] /\ SumFunctionOnSet(k, Stake) \in Nat
       /\ r \in [Stake -> Nat] /\ SumFunctionOnSet(r, Stake) \in Nat
       /\ KeptOn(outs, Payment) \in Nat
  BY <1>4, <1>7, <1>8, OutsSum
<1>11. /\ Consumed(ins, Payment) + SumFunctionOnSet(i, Stake)
            = KeptOn(outs, Payment) + SumFunctionOnSet(k, Stake) + SumFunctionOnSet(r, Stake)
       /\ \A s \in Stake : i[s] <= k[s] + r[s]
  BY <1>2, <1>4, <1>6, <1>7, <1>8, TxnIsEven
<1>12. ASSUME NEW d \in Dest
       PROVE  /\ coins' \in Bags /\ ValueOf(coins, d) \in Int /\ ValueOf(coins', d) \in Int
              /\ ValueOf(coins', d) = ValueOf(coins, d) - Consumed(ins, d) + KeptOn(outs, d)
  <2>1. /\ Spend(ins) \in Bags
        /\ ValueOf(Spend(ins), d) + Consumed(ins, d) = ValueOf(coins, d)
    BY <1>1, <1>2, SpendTakes
  <2>2. /\ coins' \in Bags
        /\ ValueOf(coins', d) = ValueOf(Spend(ins), d) + KeptOn(outs, d)
    BY <1>3, <1>4, <2>1, ReceiveAdds
  <2>3. \A bag \in Bags : ValueOf(bag, d) \in Int
    <3> TAKE bag \in Bags
    <3>1. PICK w : w = [a \in 1 .. MaxAmount |-> bag[[dest |-> d, amount |-> a]] * a]
      OBVIOUS
    <3> QED BY <3>1, ValueType
  <2>4. ValueOf(coins, d) \in Int /\ ValueOf(Spend(ins), d) \in Int /\ ValueOf(coins', d) \in Int
    BY <1>1, <2>1, <2>2, <2>3
  <2>5. Consumed(ins, d) \in Int /\ KeptOn(outs, d) \in Int
    <3>1. Consumed(ins, d) \in Nat
      BY <1>2, TotalIsNatural DEF Consumed, To
    <3>2. KeptOn(outs, d) \in Nat
      BY <1>4, KeptOrRescinded
    <3> QED BY <3>1, <3>2
  <2> QED BY <2>1, <2>2, <2>4, <2>5
<1>13. coins' \in Bags
  BY <1>12 DEF Dest
<1>14. rescinded' \in [Stake -> Nat] /\ \A s \in Stake : rescinded'[s] = rescinded[s] + r[s]
  <2>1. \A s \in Stake : rescinded'[s] = rescinded[s] + r[s]
    BY <1>3, <1>8 DEF AddRescinds, Ends
  <2>2. \A s \in Stake : rescinded[s] + r[s] \in Nat
    BY <1>1, <1>10
  <2> QED BY <1>3, <2>1, <2>2 DEF AddRescinds
<1>15. /\ \A s \in Stake : Staked'[s] = Staked[s] - i[s] + k[s]
       /\ Staked' \in [Stake -> Int] /\ Staked \in [Stake -> Int]
  <2>1. \A s \in Stake : i[s] = Consumed(ins, s) /\ k[s] = KeptOn(outs, s) /\ s \in Dest
    BY <1>6, <1>7 DEF Takes, Keeps, Dest
  <2> QED BY <1>12, <2>1 DEF Staked
<1>16. Spendable' = Spendable - Consumed(ins, Payment) + KeptOn(outs, Payment)
  <2>1. Payment \in Dest
    BY DEF Dest
  <2> QED BY <1>12, <2>1 DEF Spendable
<1>17. /\ SumFunction(Staked') + SumFunctionOnSet(i, Stake)
            = SumFunction(Staked) + SumFunctionOnSet(k, Stake)
       /\ SumFunction(rescinded') = SumFunction(rescinded) + SumFunctionOnSet(r, Stake)
       /\ SumFunction(Staked') \in Int /\ SumFunction(rescinded') \in Int
  <2>1. Gains(i, k, r)
    BY <1>14, <1>15 DEF Gains
  <2>2. rescinded' \in [Stake -> Int]
    BY <1>14
  <2> QED BY <1>1, <1>9, <1>10, <1>15, <2>1, <2>2, GainsAddUp
<1>18. PICK e : e = CoinbaseMetrics(ins, outs)
  OBVIOUS
<1>19. /\ e \in [1 .. 4 -> Nat]
       /\ 2 * (e[1] + e[2] + e[3] + e[4]) + SumFunctionOnSet(i, Stake)
            <= SumFunctionOnSet(k, Stake) + 2 * SumFunctionOnSet(r, Stake)
  BY <1>6, <1>7, <1>8, <1>9, <1>10, <1>11, <1>18, MetricsPay
<1>20. metrics' \in [1 .. 4 -> Nat] /\ Earned' = Earned + (e[1] + e[2] + e[3] + e[4])
  <2>1. metrics \in [1 .. 4 -> Nat]
    BY <1>1 DEF LedgerTypes
  <2>2. PICK p : p = metrics'
    OBVIOUS
  <2>3. p = Plus(metrics, e)
    BY <1>3, <1>18, <2>2
  <2> QED BY <1>19, <2>1, <2>2, <2>3, MetricsAddUp DEF Earned
<1>21. LedgerTypes'
  BY <1>1, <1>5, <1>13, <1>14, <1>20 DEF LedgerTypes
<1>22. /\ Spendable \in Int /\ Earned \in Int /\ SumFunction(Staked) \in Int
       /\ SumFunction(rescinded) \in Int /\ height * Reward \in Int /\ minted \in Int
  BY <1>1, HoldingsType DEF LedgerTypes
<1>c. PICK I, K, R, P, Q, G :
         /\ I = SumFunctionOnSet(i, Stake) /\ K = SumFunctionOnSet(k, Stake)
         /\ R = SumFunctionOnSet(r, Stake)
         /\ P = Consumed(ins, Payment) /\ Q = KeptOn(outs, Payment)
         /\ G = e[1] + e[2] + e[3] + e[4]
  OBVIOUS
<1>h. PICK a, b, c, d, f, g, u, v, x :
         /\ a = Spendable /\ b = Spendable' /\ c = SumFunction(Staked) /\ d = SumFunction(Staked')
         /\ f = SumFunction(rescinded) /\ g = SumFunction(rescinded')
         /\ u = Earned /\ v = Earned' /\ x = height * Reward
  OBVIOUS
<1>i. /\ I \in Int /\ K \in Int /\ R \in Int /\ P \in Int /\ Q \in Int /\ G \in Int
      /\ a \in Int /\ c \in Int /\ d \in Int /\ f \in Int /\ g \in Int /\ u \in Int /\ x \in Int
  <2>1. G \in Int
    <3>1. e[1] \in Nat /\ e[2] \in Nat /\ e[3] \in Nat /\ e[4] \in Nat
      BY <1>19
    <3> QED BY <1>c, <3>1
  <2> QED BY <1>9, <1>10, <1>17, <1>22, <1>c, <1>h, <2>1
<1>j. /\ P + I = Q + K + R /\ b = a - P + Q /\ d + I = c + K /\ g = f + R
      /\ 2 * G + I <= K + 2 * R /\ v = u + G
  BY <1>11, <1>16, <1>17, <1>19, <1>20, <1>c, <1>h, Zenon
<1>23. Conserved'
  <2>1. a + c + f = x + minted /\ minted \in Int
    BY <1>22, <1>h DEF LedgerInv, Conserved
  <2>2. b + d + g = x + minted
    BY <1>i, <1>j, <2>1
  <2> QED BY <1>5, <1>h, <2>2 DEF Conserved
<1>24. SupplyBound'
  <2>1. 2 * height * Reward = 2 * x
    <3>1. height \in Int /\ Reward \in Int
      BY <1>1, LedgerAssumption DEF LedgerTypes
    <3> QED BY <1>h, <3>1
  <2>2. 2 * (a + u) + c <= 2 * x
    BY <1>h, <2>1 DEF LedgerInv, SupplyBound
  <2>3. 2 * (b + v) + d <= 2 * x
    BY <1>i, <1>j, <2>2
  <2> QED BY <1>5, <1>h, <2>1, <2>3 DEF SupplyBound
<1>25. StakesHold
  <2>1. ASSUME NEW s \in Stake PROVE Staked'[s] + rescinded'[s] >= Staked[s] + rescinded[s]
    <3>1. /\ Staked[s] \in Int /\ rescinded[s] \in Int
          /\ i[s] \in Int /\ k[s] \in Int /\ r[s] \in Int /\ i[s] <= k[s] + r[s]
      BY <1>1, <1>9, <1>10, <1>11, <1>15
    <3>2. Staked'[s] = Staked[s] - i[s] + k[s] /\ rescinded'[s] = rescinded[s] + r[s]
      BY <1>14, <1>15
    <3> QED BY <3>1, <3>2
  <2> QED BY <2>1 DEF StakesHold
<1> QED BY <1>21, <1>23, <1>24, <1>25 DEF LedgerInv

LEMMA CloseBlockKeepsLedger ==
    ASSUME LedgerInv, NEW outs \in Coinbases(<<Reward>> \o NonzeroAmounts(metrics)),
           CloseBlock(outs)
    PROVE  LedgerInv' /\ StakesHold
<1>1. /\ LedgerTypes /\ coins \in Bags /\ rescinded \in [Stake -> Nat] /\ height \in Nat
      /\ metrics \in [1 .. 4 -> Nat]
  BY DEF LedgerInv, LedgerTypes
<1>2. /\ IsOuts(outs) /\ InRange(outs)
      /\ Total(outs, DOMAIN outs) = Reward + Earned
  BY <1>1, CoinbasePays DEF Earned
<1>3. /\ coins' = Receive(coins, outs) /\ metrics' = NoMetrics /\ height' = height + 1
      /\ minted' = minted + Total(outs, DOMAIN outs) - Reward
      /\ rescinded' = AddRescinds(outs)
  BY DEF CloseBlock
<1>4. PICK i : i = [s \in Stake |-> 0]
  OBVIOUS
<1>5. PICK k : Keeps(outs, k)
  BY DEF Keeps
<1>6. PICK r : Ends(outs, r)
  BY DEF Ends
<1>7. i \in [Stake -> Nat] /\ SumFunctionOnSet(i, Stake) = 0
  <2>1. \A s \in Stake : i[s] = 0
    BY <1>4
  <2>2. IsFiniteSet(Stake)
    BY DestsAreFinite
  <2> QED BY <1>4, <2>1, <2>2, SumOfZeros
<1>8. /\ k \in [Stake -> Nat] /\ SumFunctionOnSet(k, Stake) \in Nat
      /\ r \in [Stake -> Nat] /\ SumFunctionOnSet(r, Stake) \in Nat
      /\ KeptOn(outs, Payment) \in Nat
      /\ Total(outs, DOMAIN outs) = KeptOn(outs, Payment) + SumFunctionOnSet(k, Stake)
                                     + SumFunctionOnSet(r, Stake)
  BY <1>2, <1>5, <1>6, OutsSum
<1>9. ASSUME NEW d \in Dest
      PROVE  /\ coins' \in Bags /\ ValueOf(coins, d) \in Int /\ ValueOf(coins', d) \in Int
             /\ ValueOf(coins', d) = ValueOf(coins, d) + KeptOn(outs, d)
  <2>1. coins' \in Bags /\ ValueOf(coins', d) = ValueOf(coins, d) + KeptOn(outs, d)
    BY <1>1, <1>2, <1>3, ReceiveAdds
  <2>2. ValueOf(coins, d) \in Int
    BY <1>1, HoldingsType DEF Staked, Spendable, Dest
  <2>3. KeptOn(outs, d) \in Nat
    BY <1>2, KeptOrRescinded
  <2> QED BY <2>1, <2>2, <2>3
<1>10. coins' \in Bags
  BY <1>9 DEF Dest
<1>11. rescinded' \in [Stake -> Nat] /\ \A s \in Stake : rescinded'[s] = rescinded[s] + r[s]
  <2>1. \A s \in Stake : rescinded'[s] = rescinded[s] + r[s]
    BY <1>3, <1>6 DEF AddRescinds, Ends
  <2>2. \A s \in Stake : rescinded[s] + r[s] \in Nat
    BY <1>1, <1>8
  <2> QED BY <1>3, <2>1, <2>2 DEF AddRescinds
<1>12. /\ \A s \in Stake : Staked'[s] = Staked[s] - i[s] + k[s]
       /\ Staked' \in [Stake -> Int] /\ Staked \in [Stake -> Int]
  <2>1. \A s \in Stake : i[s] = 0 /\ k[s] = KeptOn(outs, s) /\ s \in Dest
    BY <1>4, <1>5 DEF Keeps, Dest
  <2> QED BY <1>9, <2>1 DEF Staked
<1>13. Spendable' = Spendable + KeptOn(outs, Payment)
  <2>1. Payment \in Dest
    BY DEF Dest
  <2> QED BY <1>9, <2>1 DEF Spendable
<1>14. /\ SumFunction(Staked') + SumFunctionOnSet(i, Stake)
            = SumFunction(Staked) + SumFunctionOnSet(k, Stake)
       /\ SumFunction(rescinded') = SumFunction(rescinded) + SumFunctionOnSet(r, Stake)
       /\ SumFunction(Staked') \in Int /\ SumFunction(rescinded') \in Int
  <2>1. Gains(i, k, r)
    BY <1>11, <1>12 DEF Gains
  <2>2. rescinded' \in [Stake -> Int]
    BY <1>11
  <2> QED BY <1>1, <1>7, <1>8, <1>12, <2>1, <2>2, GainsAddUp
<1>15. metrics' \in [1 .. 4 -> Nat] /\ Earned' = 0
  BY <1>3 DEF Earned, NoMetrics
<1>16. /\ Spendable \in Int /\ Earned \in Int /\ SumFunction(Staked) \in Int
       /\ SumFunction(rescinded) \in Int /\ height * Reward \in Int /\ minted \in Int
       /\ Reward \in Int
  BY <1>1, HoldingsType, LedgerAssumption DEF LedgerTypes
<1>c. PICK K, R, Q, T :
         /\ K = SumFunctionOnSet(k, Stake) /\ R = SumFunctionOnSet(r, Stake)
         /\ Q = KeptOn(outs, Payment) /\ T = Total(outs, DOMAIN outs)
  OBVIOUS
<1>h. PICK a, b, c, d, f, g, u, x, y :
         /\ a = Spendable /\ b = Spendable' /\ c = SumFunction(Staked) /\ d = SumFunction(Staked')
         /\ f = SumFunction(rescinded) /\ g = SumFunction(rescinded')
         /\ u = Earned /\ x = height * Reward /\ y = height' * Reward
  OBVIOUS
<1>i. /\ K \in Nat /\ R \in Nat /\ Q \in Nat /\ T \in Int
      /\ a \in Int /\ c \in Int /\ d \in Int /\ f \in Int /\ g \in Int /\ u \in Int /\ x \in Int
  <2>1. T \in Int
    BY <1>2, <1>16, <1>c
  <2> QED BY <1>8, <1>14, <1>16, <1>c, <1>h, <2>1
<1>j. /\ T = Q + K + R /\ T = Reward + u /\ b = a + Q /\ d + 0 = c + K /\ g = f + R
      /\ minted' = minted + T - Reward
  BY <1>2, <1>3, <1>7, <1>8, <1>13, <1>14, <1>c, <1>h, Zenon
<1>k. y = x + Reward /\ 2 * height * Reward = 2 * x /\ 2 * height' * Reward = 2 * y
  <2>1. height \in Int /\ Reward \in Int /\ height' = height + 1
    BY <1>1, <1>3, <1>16
  <2>2. y = height' * Reward /\ x = height * Reward
    BY <1>h
  <2> QED BY <2>1, <2>2
<1>17. LedgerTypes'
  <2>1. minted' \in Int
    BY <1>16, <1>i, <1>j
  <2> QED BY <1>1, <1>3, <1>10, <1>11, <1>15, <2>1 DEF LedgerTypes
<1>18. Conserved'
  <2>1. a + c + f = x + minted
    BY <1>h DEF LedgerInv, Conserved
  <2>2. b + d + g = y + minted'
    BY <1>16, <1>i, <1>j, <1>k, <2>1
  <2> QED BY <1>h, <2>2 DEF Conserved
<1>19. SupplyBound'
  <2>1. 2 * (a + u) + c <= 2 * x
    BY <1>h, <1>k DEF LedgerInv, SupplyBound
  <2>2. 2 * (b + 0) + d <= 2 * y
    BY <1>16, <1>i, <1>j, <1>k, <2>1
  <2> QED BY <1>15, <1>h, <1>k, <2>2 DEF SupplyBound
<1>20. StakesHold
  <2>1. ASSUME NEW s \in Stake PROVE Staked'[s] + rescinded'[s] >= Staked[s] + rescinded[s]
    <3>1. /\ Staked[s] \in Int /\ rescinded[s] \in Int
          /\ i[s] = 0 /\ k[s] \in Nat /\ r[s] \in Nat
      BY <1>1, <1>4, <1>8, <1>12
    <3>2. Staked'[s] = Staked[s] - i[s] + k[s] /\ rescinded'[s] = rescinded[s] + r[s]
      BY <1>11, <1>12
    <3> QED BY <3>1, <3>2
  <2> QED BY <2>1 DEF StakesHold
<1> QED BY <1>17, <1>18, <1>19, <1>20 DEF LedgerInv

LEMMA LedgerStarts == LedgerInit => LedgerInv
<1> SUFFICES ASSUME LedgerInit PROVE LedgerInv
  OBVIOUS
<1> USE DEF LedgerInit
<1>1. LedgerTypes
  BY DEF LedgerTypes, Bags, NoMetrics
<1>2. ASSUME NEW d \in Dest PROVE ValueOf(coins, d) = 0
  <2>1. PICK w : w = [a \in 1 .. MaxAmount |-> coins[[dest |-> d, amount |-> a]] * a]
    OBVIOUS
  <2>2. \A a \in 1 .. MaxAmount : w[a] = 0
    <3> TAKE a \in 1 .. MaxAmount
    <3>1. [dest |-> d, amount |-> a] \in Coin
      BY DEF Coin
    <3>2. w[a] = 0 * a /\ a \in Int
      BY <2>1, <3>1, LedgerAssumption
    <3> QED BY <3>2
  <2>3. coins \in Bags
    BY <1>1 DEF LedgerTypes
  <2>4. /\ Summable(w, 1 .. MaxAmount)
        /\ ValueOf(coins, d) = SumFunctionOnSet(w, 1 .. MaxAmount)
    BY <2>1, <2>3, ValueType
  <2> QED BY <2>2, <2>4, SumOfZeros DEF Summable
<1>3. Spendable = 0 /\ \A s \in Stake : Staked[s] = 0
  BY <1>2 DEF Spendable, Staked, Dest
<1>4. SumFunction(Staked) = 0 /\ SumFunction(rescinded) = 0
  <2>1. IsFiniteSet(Stake)
    BY DestsAreFinite
  <2>2. SumFunctionOnSet(Staked, Stake) = 0
    BY <1>3, <2>1, SumOfZeros
  <2>3. SumFunctionOnSet(rescinded, Stake) = 0
    <3>1. \A s \in Stake : rescinded[s] = 0
      OBVIOUS
    <3> QED BY <2>1, <3>1, SumOfZeros
  <2> QED BY <1>1, <2>2, <2>3, HoldingsType
<1>5. Earned = 0
  BY DEF Earned, NoMetrics
<1>6. height * Reward = 0 /\ 2 * height * Reward = 0 /\ minted = 0
  BY LedgerAssumption
<1>7. Conserved /\ SupplyBound
  BY <1>3, <1>4, <1>5, <1>6 DEF Conserved, SupplyBound
<1> QED BY <1>1, <1>7 DEF LedgerInv

LEMMA LedgerSteps == LedgerInv /\ [LedgerNext]_ledger => LedgerInv' /\ StakesHold
<1>1. ASSUME LedgerInv, LedgerNext PROVE LedgerInv' /\ StakesHold
  <2>1. ASSUME NEW ins \in BoundedSeq({c \in Coin : coins[c] > 0}, MaxFlows) \ {<<>>}, AddTxn(ins)
        PROVE  LedgerInv' /\ StakesHold
    BY <1>1, <2>1, AddTxnKeepsLedger
  <2>2. ASSUME NEW outs \in Coinbases(<<Reward>> \o NonzeroAmounts(metrics)), CloseBlock(outs)
        PROVE  LedgerInv' /\ StakesHold
    BY <1>1, <2>2, CloseBlockKeepsLedger
  <2> QED BY <1>1, <2>1, <2>2 DEF LedgerNext
<1>2. ASSUME LedgerInv, UNCHANGED ledger PROVE LedgerInv' /\ StakesHold
  <2> USE DEF ledger
  <2>1. LedgerTypes' /\ Spendable' = Spendable /\ Staked' = Staked /\ Earned' = Earned
    BY <1>2 DEF LedgerInv, LedgerTypes, Spendable, Staked, Earned
  <2>2. Conserved' /\ SupplyBound'
    BY <1>2, <2>1 DEF LedgerInv, Conserved, SupplyBound
  <2>3. StakesHold
    <3>1. ASSUME NEW s \in Stake PROVE Staked[s] + rescinded[s] >= Staked[s] + rescinded[s]
      <4>1. Staked[s] \in Int /\ rescinded[s] \in Nat
        BY <1>2, HoldingsType DEF LedgerInv, LedgerTypes
      <4> QED BY <4>1
    <3> QED BY <1>2, <2>1, <3>1 DEF StakesHold
  <2> QED BY <2>1, <2>2, <2>3 DEF LedgerInv
<1> QED BY <1>1, <1>2

(* The invariants of Ledger are inductive together, with the types of its state: the   *)
(* checks of chain.py:266-366 and 403-418 keep them one transaction, and one block, at a *)
(* time.                                                                     *)
THEOREM LedgerIsInductive == LedgerSpec => []LedgerInv
<1> QED BY LedgerStarts, LedgerSteps, PTL DEF LedgerSpec

(* What is spendable, staked and rescinded is what coinbases have paid: outflows that    *)
(* settle to nothing one by one (chain.py:298-356) pay, stake and rescind what the        *)
(* inflows bring, over a whole chain, rescinding coinbases included.                 *)
THEOREM GrainsAreConserved == LedgerSpec => []Conserved
<1>1. LedgerInv => Conserved
  BY DEF LedgerInv
<1> QED BY <1>1, LedgerIsInductive, PTL

(* Counting a staked grain as half a grain, a chain never holds more than its rewards:    *)
(* what is minted (chain.py:73-86, 357-366) is covered by what stakes bind and rescinds   *)
(* end, restakes and partial rescinds included.                                   *)
THEOREM SupplyIsBounded == LedgerSpec => []SupplyBound
<1>1. LedgerInv => SupplyBound
  BY DEF LedgerInv
<1> QED BY <1>1, LedgerIsInductive, PTL

(* Grains staked on a subject stay there, on their side, until rescinded: the routing of   *)
(* inflows and outflows (chain.py:272-348) lets no other flow draw on a stake.          *)
THEOREM StakesStayLocked == LedgerSpec => StakeIsLocked
<1>1. LedgerInv /\ [LedgerNext]_ledger
        => [\A s \in Stake : Staked'[s] + rescinded'[s] >= Staked[s] + rescinded[s]]_ledger
  BY LedgerSteps DEF StakesHold
<1> QED BY <1>1, LedgerIsInductive, PTL DEF LedgerSpec, StakeIsLocked

-----------------------------------------------------------------------------
(* Wallet: what a builder makes comes out even.                                  *)

(* All that is left is of one kind.                                             *)
Left(src, v) ==
    [stake |-> [s \in Stake |-> IF s = src THEN v ELSE 0],
     other |-> IF src = Payment THEN v ELSE 0]

(* An outflow draws on what is left: a payment or a new stake on payments, a rescind or  *)
(* a restake on its stake.                                                      *)
Draws(src, v, o) ==
    /\ o.amount \in Nat
    /\ \/ src = Payment /\ o.dest = Payment
       \/ src = Payment /\ o.dest \in Stake /\ ~o.rescind
       \/ src \in Stake /\ o.dest = src /\ o.rescind
       \/ src \in Stake /\ o.dest = src /\ ~o.rescind /\ o.amount <= v

LEMMA SettleDraws ==
    ASSUME NEW src, NEW v \in Int, NEW o, Draws(src, v, o)
    PROVE  Settle(Left(src, v), o) = Left(src, v - o.amount)
<1>1. o.amount \in Nat
  BY DEF Draws
<1>2. PICK b, e : b = Left(src, v) /\ e = Left(src, v - o.amount)
  OBVIOUS
<1>3. Payment \notin Stake
  BY DestsAreFinite
<1>4. CASE src = Payment
  <2>1. \A s \in Stake : s # src
    BY <1>3, <1>4
  <2>2. PICK z : z = [s \in Stake |-> 0]
    OBVIOUS
  <2>3. b = [stake |-> z, other |-> v] /\ e = [stake |-> z, other |-> v - o.amount]
    BY <1>2, <1>4, <2>1, <2>2 DEF Left
  <2>4. CASE o.dest = Payment
    <3>1. Settle(b, o) = [b EXCEPT !.other = @ - o.amount]
      BY <2>4 DEF Settle
    <3> QED BY <1>2, <2>3, <3>1
  <2>5. CASE o.dest # Payment
    <3>1. o.dest \in Stake /\ ~o.rescind
      BY <1>3, <1>4, <2>5 DEF Draws
    <3>2. b.stake[o.dest] = 0
      BY <2>2, <2>3, <3>1
    <3>3. Max({0, 0}) = 0 /\ Min({o.amount, 0}) = 0
      BY <1>1, OfTwo
    <3>4. Settle(b, o) = [b EXCEPT !.stake[o.dest] = @ - 0, !.other = @ - (o.amount - 0)]
      BY <2>5, <3>1, <3>2, <3>3 DEF Settle
    <3>5. [z EXCEPT ![o.dest] = @ - 0] = z
      BY <2>2, <3>1
    <3>6. Settle(b, o) = [stake |-> [z EXCEPT ![o.dest] = @ - 0], other |-> v - (o.amount - 0)]
      BY <2>3, <3>4
    <3>7. v - (o.amount - 0) = v - o.amount
      BY <1>1
    <3> QED BY <1>2, <2>3, <3>5, <3>6, <3>7
  <2> QED BY <2>4, <2>5
<1>5. CASE src # Payment
  <2>1. src \in Stake /\ o.dest = src /\ (o.rescind \/ o.amount <= v)
    BY <1>5 DEF Draws
  <2>2. PICK z, y : /\ z = [s \in Stake |-> IF s = src THEN v ELSE 0]
                    /\ y = [s \in Stake |-> IF s = src THEN v - o.amount ELSE 0]
    OBVIOUS
  <2>3. b = [stake |-> z, other |-> 0] /\ e = [stake |-> y, other |-> 0]
    BY <1>2, <1>5, <2>2 DEF Left
  <2>4. [z EXCEPT ![o.dest] = @ - o.amount] = y
    BY <1>1, <2>1, <2>2
  <2>5. CASE o.rescind
    <3>1. Settle(b, o) = [b EXCEPT !.stake[o.dest] = @ - o.amount]
      BY <1>5, <2>1, <2>5 DEF Settle
    <3> QED BY <1>2, <2>3, <2>4, <3>1
  <2>6. CASE ~o.rescind
    <3>1. b.stake[o.dest] = v /\ o.amount <= v
      BY <2>1, <2>2, <2>3, <2>6
    <3>2. Max({v, 0}) = v /\ Min({o.amount, v}) = o.amount
      <4>1. Max({v, 0}) = v
        BY <1>1, <3>1, OfTwo
      <4>2. Min({o.amount, v}) = o.amount
        BY <1>1, <3>1, OfTwo
      <4> QED BY <4>1, <4>2
    <3>3. Settle(b, o) = [b EXCEPT !.stake[o.dest] = @ - o.amount,
                                   !.other = @ - (o.amount - o.amount)]
      BY <1>5, <2>1, <2>6, <3>1, <3>2 DEF Settle
    <3>4. 0 - (o.amount - o.amount) = 0
      BY <1>1
    <3>5. Settle(b, o) = [stake |-> [z EXCEPT ![o.dest] = @ - o.amount],
                          other |-> 0 - (o.amount - o.amount)]
      BY <2>3, <3>3
    <3> QED BY <1>2, <2>3, <2>4, <3>4, <3>5
  <2> QED BY <2>5, <2>6
<1> QED BY <1>4, <1>5

(* What is consumed of one kind alone is given in that kind.                      *)
LEMMA GivenIsLeft ==
    ASSUME NEW src \in Dest, NEW ins, IsFlows(ins), \A i \in DOMAIN ins : ins[i].dest = src
    PROVE  Given(ins) = Left(src, Total(ins, DOMAIN ins))
<1>1. PICK w : w = Total(ins, DOMAIN ins)
  OBVIOUS
<1>2. To(ins, src) = DOMAIN ins /\ \A d : d # src => To(ins, d) = {}
  BY DEF To
<1>3. Consumed(ins, src) = w /\ \A d : d # src => Consumed(ins, d) = 0
  BY <1>1, <1>2, SumOfNone DEF Consumed, Total
<1>4. Consumed(ins, Payment) = (IF src = Payment THEN w ELSE 0)
  BY <1>3
<1>5. \A s \in Stake : Consumed(ins, s) = (IF s = src THEN w ELSE 0)
  BY <1>3
<1> QED BY <1>1, <1>4, <1>5 DEF Given, Left

(* Outflows that draw in turn on what is left of one kind, until nothing is.           *)
Drains(src, left, outs) ==
    /\ Len(outs) \in Nat
    /\ left[Len(outs)] = 0 /\ \A i \in 0 .. Len(outs) : left[i] \in Int
    /\ \A i \in 1 .. Len(outs) :
          Draws(src, left[i - 1], outs[i]) /\ left[i] = left[i - 1] - outs[i].amount

LEMMA DrainedIsNothing ==
    ASSUME NEW src, NEW left, NEW outs, Drains(src, left, outs)
    PROVE  Balance(Left(src, left[0]), outs) = Nothing
<1>1. PICK n, f : n = Len(outs) /\ f = [i \in 0 .. n |-> Left(src, left[i])]
  OBVIOUS
<1>2. /\ n \in Nat /\ left[n] = 0 /\ \A i \in 0 .. n : left[i] \in Int
      /\ \A i \in 1 .. n : Draws(src, left[i - 1], outs[i]) /\ left[i] = left[i - 1] - outs[i].amount
  BY <1>1 DEF Drains
<1>3. ASSUME NEW i \in 1 .. n PROVE f[i] = Settle(f[i - 1], outs[i])
  <2>1. i \in 0 .. n /\ i - 1 \in 0 .. n
    BY <1>2
  <2>2. f[i] = Left(src, left[i]) /\ f[i - 1] = Left(src, left[i - 1])
    BY <1>1, <2>1
  <2>3. Settle(Left(src, left[i - 1]), outs[i]) = Left(src, left[i - 1] - outs[i].amount)
    BY <1>2, <2>1, SettleDraws
  <2> QED BY <1>2, <2>2, <2>3, Zenon
<1>4. \A i \in 0 .. n : f[i] = IF i = 0 THEN Left(src, left[0]) ELSE Settle(f[i - 1], outs[i])
  <2> TAKE i \in 0 .. n
  <2>1. i = 0 => f[i] = Left(src, left[0])
    BY <1>1, <1>2
  <2>2. i # 0 => i \in 1 .. n
    BY <1>2
  <2> QED BY <1>3, <2>1, <2>2
<1>5. IsHistory(f, Left(src, left[0]), outs)
  BY <1>1, <1>4 DEF IsHistory
<1>6. Balance(Left(src, left[0]), outs) = f[n]
  BY <1>1, <1>2, <1>5, BalanceIs
<1>7. f[n] = Left(src, 0)
  BY <1>1, <1>2
<1>8. Left(src, 0) = Nothing
  BY DEF Left, Nothing
<1> QED BY <1>6, <1>7, <1>8

(* The outflows of a builder: some alike, and the rest if there is one.             *)

LEMMA OneMoreFits ==
    ASSUME NEW m \in Nat, NEW x, NEW y, NEW s, NEW t, NEW r,
           s = [i \in 1 .. m |-> x], t = <<>> \/ t = <<y>>, r = s \o t
    PROVE  /\ DOMAIN r = 1 .. Len(r) /\ \A i \in 1 .. m : r[i] = x
           /\ t = <<>> => Len(r) = m
           /\ t # <<>> => Len(r) = m + 1 /\ r[m + 1] = y
<1> DEFINE S == {x, y}
<1>1. s \in Seq(S) /\ Len(s) = m /\ \A i \in 1 .. m : s[i] = x
  OBVIOUS
<1>2. t \in Seq(S) /\ (t = <<>> => Len(t) = 0) /\ (t # <<>> => Len(t) = 1 /\ t[1] = y)
  <2>1. CASE t = <<>>
    BY <2>1
  <2>2. CASE t = <<y>>
    <3>1. y \in S
      OBVIOUS
    <3> HIDE DEF S
    <3> QED BY <2>2, <3>1
  <2> QED BY <2>1, <2>2
<1> HIDE DEF S
<1>3. /\ r \in Seq(S) /\ Len(r) = Len(s) + Len(t)
      /\ \A i \in 1 .. Len(s) + Len(t) : r[i] = IF i <= Len(s) THEN s[i] ELSE t[i - Len(s)]
  <2>1. /\ s \o t \in Seq(S) /\ Len(s \o t) = Len(s) + Len(t)
        /\ \A i \in 1 .. Len(s) + Len(t) :
              (s \o t)[i] = IF i <= Len(s) THEN s[i] ELSE t[i - Len(s)]
    BY <1>1, <1>2, ConcatProperties
  <2> QED BY <2>1
<1>4. DOMAIN r = 1 .. Len(r) /\ Len(s) = m
  BY <1>1, <1>3
<1>5. CASE t = <<>>
  <2>1. Len(t) = 0
    BY <1>2, <1>5
  <2>2. PICK d : d = Len(t)
    OBVIOUS
  <2>3. /\ \A i \in 1 .. m + d : r[i] = IF i <= m THEN s[i] ELSE t[i - m]
        /\ Len(r) = m + d /\ d = 0
    BY <1>3, <1>4, <2>1, <2>2
  <2>4. \A i \in 1 .. m : i \in 1 .. m + d /\ i <= m
    BY <2>3
  <2>5. Len(r) = m /\ \A i \in 1 .. m : r[i] = x
    BY <1>1, <2>3, <2>4
  <2> QED BY <1>4, <1>5, <2>5
<1>6. CASE t # <<>>
  <2>1. Len(t) = 1 /\ t[1] = y
    BY <1>2, <1>6
  <2>2. PICK d : d = Len(t)
    OBVIOUS
  <2>3. /\ \A i \in 1 .. m + d : r[i] = IF i <= m THEN s[i] ELSE t[i - m]
        /\ Len(r) = m + d /\ d = 1
    BY <1>3, <1>4, <2>1, <2>2
  <2>4. \A i \in 1 .. m : i \in 1 .. m + d /\ i <= m
    BY <2>3
  <2>5. m + 1 \in 1 .. m + d /\ ~(m + 1 <= m) /\ m + 1 - m = 1
    BY <2>3
  <2>6. Len(r) = m + 1 /\ \A i \in 1 .. m : r[i] = x
    BY <1>1, <2>3, <2>4
  <2>7. r[m + 1] = y
    BY <2>1, <2>3, <2>5
  <2> QED BY <1>4, <1>6, <2>6, <2>7
<1> QED BY <1>5, <1>6

(* What can be asked for.                                                      *)
LEMMA AskType ==
    ASSUME NEW k \in Key, NEW ask \in Asks[k], Admissible(ask)
    PROVE  /\ ask.op \in {"transfer", "split", "opposition", "support", "rescind"}
           /\ ask.amount \in Nat \ {0} /\ ask.count \in 1 .. MaxFlows - 1
           /\ ask.op # "split" => ask.count = 1
           /\ ask.op \in {"opposition", "support", "rescind"} => ask.dest \in Stake
           /\ Asked(ask) \in Nat \ {0} /\ Asked(ask) = ask.count * ask.amount
           /\ Source(ask) \in Dest
<1>1. /\ ask.amount \in Nat /\ ask.count \in Nat
      /\ ask.op # "split" => ask.count = 1
      /\ ask.op \in {"opposition", "support"} => ask.dest \in Stake
      /\ MaxFlows \in Nat /\ 1 \in 1 .. MaxFlows - 1
  BY WalletAssumption, RulesAssumption
<1>2. /\ ask.op \in {"transfer", "split", "opposition", "support", "rescind"}
      /\ ask.amount >= 1
      /\ ask.op = "split" => ask.count \in 1 .. MaxFlows - 1
      /\ ask.op = "rescind" => ask.dest \in Stake
  BY DEF Admissible, TransferQuery, SplitQuery, OppositionQuery, SupportQuery, RescindQuery
<1>3. ask.count \in 1 .. MaxFlows - 1
  BY <1>1, <1>2
<1>4. ask.amount * ask.count \in Nat \ {0} /\ ask.amount * ask.count = ask.count * ask.amount
  BY <1>1, <1>2, <1>3
<1>5. Source(ask) \in Dest
  BY <1>2 DEF Source, Dest
<1> QED BY <1>1, <1>2, <1>3, <1>4, <1>5 DEF Asked

(* The outflow that is asked for, once or, of a split, several times, and the rest.     *)
Chip(k, ask) ==
    IF ask.op = "transfer" THEN Pay(ask.to, ask.amount)
    ELSE IF ask.op = "split" THEN Pay(k, ask.amount)
    ELSE StakeOn(ask.dest, ask.amount, ask.op = "rescind")
Rest(k, ask, rest) ==
    IF ask.op = "rescind" THEN StakeOn(ask.dest, rest, FALSE) ELSE Pay(k, rest)

HasShape(k, ask, rest, outs) ==
    /\ DOMAIN outs = 1 .. Len(outs) /\ Len(outs) \in 1 .. MaxFlows
    /\ Len(outs) = IF rest = 0 THEN ask.count ELSE ask.count + 1
    /\ \A i \in 1 .. ask.count : outs[i] = Chip(k, ask)
    /\ rest # 0 => outs[ask.count + 1] = Rest(k, ask, rest)

LEMMA OutsHaveShape ==
    ASSUME NEW k \in Key, NEW ask \in Asks[k], Admissible(ask), NEW rest,
           NEW outs, outs = Wanted(k, ask) \o Change(k, ask, rest)
    PROVE  HasShape(k, ask, rest, outs)
<1>1. PICK m, x, y, s, t : /\ m = ask.count /\ x = Chip(k, ask) /\ y = Rest(k, ask, rest)
                           /\ s = Wanted(k, ask) /\ t = Change(k, ask, rest)
  OBVIOUS
<1>2. /\ ask.op \in {"transfer", "split", "opposition", "support", "rescind"}
      /\ m \in 1 .. MaxFlows - 1 /\ (ask.op # "split" => m = 1) /\ MaxFlows \in Nat
  BY <1>1, AskType, RulesAssumption
<1>3. s = [i \in 1 .. m |-> x]
  <2>1. \A z : <<z>> = [i \in 1 .. 1 |-> z]
    OBVIOUS
  <2>2. CASE ask.op = "split"
    BY <1>1, <2>2 DEF Wanted, SplitOuts, Chip
  <2>3. CASE ask.op # "split"
    <3>1. s = <<x>>
      BY <1>1, <1>2, <2>3
         DEF Wanted, TransferOuts, OppositionOuts, SupportOuts, RescindOuts, Chip
    <3> QED BY <1>2, <2>1, <2>3, <3>1
  <2> QED BY <2>2, <2>3
<1>4. (rest = 0 => t = <<>>) /\ (rest # 0 => t = <<y>> /\ t # <<>>)
  BY <1>1 DEF Change, Rest
<1>5. m \in Nat /\ outs = s \o t
  BY <1>1, <1>2
<1>6. /\ DOMAIN outs = 1 .. Len(outs) /\ \A i \in 1 .. m : outs[i] = x
      /\ t = <<>> => Len(outs) = m
      /\ t # <<>> => Len(outs) = m + 1 /\ outs[m + 1] = y
  BY <1>3, <1>4, <1>5, OneMoreFits
<1>7. Len(outs) = (IF rest = 0 THEN m ELSE m + 1) /\ (rest # 0 => outs[m + 1] = y)
  BY <1>4, <1>6
<1>8. Len(outs) \in 1 .. MaxFlows
  BY <1>2, <1>7
<1> QED BY <1>1, <1>6, <1>7, <1>8, Zenon DEF HasShape

(* They draw on what is consumed until nothing is left.                             *)
LEMMA OutsDrain ==
    ASSUME NEW k \in Key, NEW ask \in Asks[k], Admissible(ask), NEW w \in Nat, w >= Asked(ask),
           NEW outs, HasShape(k, ask, w - Asked(ask), outs)
    PROVE  /\ \A i \in DOMAIN outs : outs[i].amount \in Nat
           /\ \E left : left[0] = w /\ Drains(Source(ask), left, outs)
<1>1. PICK m, a, rest, src, n : /\ m = ask.count /\ a = ask.amount /\ rest = w - Asked(ask)
                                /\ src = Source(ask) /\ n = Len(outs)
  OBVIOUS
<1>2. /\ ask.op \in {"transfer", "split", "opposition", "support", "rescind"}
      /\ a \in Nat \ {0} /\ m \in Nat \ {0} /\ Asked(ask) = m * a /\ m * a \in Nat
      /\ ask.op \in {"opposition", "support", "rescind"} => ask.dest \in Stake
  BY <1>1, AskType
<1>3. rest \in Nat /\ rest = w - m * a
  BY <1>1, <1>2
<1>4. /\ n = (IF rest = 0 THEN m ELSE m + 1) /\ DOMAIN outs = 1 .. n
      /\ \A i \in 1 .. m : outs[i] = Chip(k, ask)
      /\ rest # 0 => outs[m + 1] = Rest(k, ask, rest)
  BY <1>1 DEF HasShape
<1>5. n \in Nat /\ m <= n /\ n <= m + 1
  BY <1>2, <1>4
<1>6. PICK left : left = [i \in 0 .. n |-> IF i <= m THEN w - i * a ELSE 0]
  OBVIOUS
<1>7. \A x, y \in Int : (x - 1) * y = x * y - y /\ x * y \in Int /\ 0 * y = 0
  OBVIOUS
<1>8. Chip(k, ask).amount = a /\ Rest(k, ask, rest).amount = rest
  BY <1>1 DEF Chip, Rest, Pay, StakeOn
<1>9. \A v : Draws(src, v, Chip(k, ask))
  <2>1. CASE ask.op \in {"transfer", "split"}
    <3>1. src = Payment /\ Chip(k, ask).dest = Payment
      BY <1>1, <2>1 DEF Source, Chip, Pay
    <3> QED BY <1>2, <1>8, <3>1 DEF Draws
  <2>2. CASE ask.op \in {"opposition", "support"}
    <3>1. src = Payment /\ Chip(k, ask).dest \in Stake /\ ~Chip(k, ask).rescind
      BY <1>1, <1>2, <2>2 DEF Source, Chip, StakeOn
    <3> QED BY <1>2, <1>8, <3>1 DEF Draws
  <2>3. CASE ask.op = "rescind"
    <3>1. src \in Stake /\ Chip(k, ask).dest = src /\ Chip(k, ask).rescind
      BY <1>1, <1>2, <2>3 DEF Source, Chip, StakeOn
    <3> QED BY <1>2, <1>8, <3>1 DEF Draws
  <2> QED BY <1>2, <2>1, <2>2, <2>3
<1>10. Draws(src, rest, Rest(k, ask, rest))
  <2>1. CASE ask.op # "rescind"
    <3>1. src = Payment /\ Rest(k, ask, rest).dest = Payment
      BY <1>1, <2>1 DEF Source, Rest, Pay
    <3> QED BY <1>3, <1>8, <3>1 DEF Draws
  <2>2. CASE ask.op = "rescind"
    <3>1. src \in Stake /\ Rest(k, ask, rest).dest = src /\ ~Rest(k, ask, rest).rescind
      BY <1>1, <1>2, <2>2 DEF Source, Rest, StakeOn
    <3> QED BY <1>3, <1>8, <3>1 DEF Draws
  <2> QED BY <2>1, <2>2
<1>11. ASSUME NEW i \in 1 .. n
       PROVE  /\ outs[i].amount \in Nat
              /\ Draws(src, left[i - 1], outs[i]) /\ left[i] = left[i - 1] - outs[i].amount
  <2>1. i \in 0 .. n /\ i - 1 \in 0 .. n /\ i \in Int /\ a \in Int
    BY <1>2, <1>5
  <2>2. CASE i <= m
    <3>1. outs[i] = Chip(k, ask)
      BY <1>4, <2>1, <2>2
    <3>2. left[i] = w - i * a /\ left[i - 1] = w - (i - 1) * a
      BY <1>2, <1>6, <2>1, <2>2
    <3>3. (i - 1) * a = i * a - a /\ i * a \in Int
      BY <1>7, <2>1
    <3>4. left[i] = left[i - 1] - a
      BY <2>1, <3>2, <3>3
    <3> QED BY <1>2, <1>8, <1>9, <3>1, <3>4
  <2>3. CASE ~(i <= m)
    <3>1. i = m + 1 /\ rest # 0 /\ i - 1 = m
      BY <1>2, <1>4, <1>5, <2>1, <2>3
    <3>2. outs[i] = Rest(k, ask, rest)
      BY <1>4, <3>1
    <3>3. left[i] = 0 /\ left[i - 1] = rest
      <4>1. left[i] = 0
        BY <1>6, <2>1, <2>3
      <4>2. left[m] = w - m * a
        BY <1>2, <1>6, <2>1, <3>1
      <4> QED BY <1>3, <3>1, <4>1, <4>2
    <3>4. left[i] = left[i - 1] - outs[i].amount
      BY <1>3, <1>8, <3>2, <3>3
    <3> QED BY <1>3, <1>8, <1>10, <3>2, <3>3, <3>4
  <2> QED BY <2>2, <2>3
<1>12. left[0] = w
  <2>1. 0 \in 0 .. n /\ 0 <= m /\ 0 * a = 0
    BY <1>2, <1>5
  <2> QED BY <1>6, <2>1
<1>13. left[n] = 0
  <2>1. n \in 0 .. n
    BY <1>5
  <2>2. CASE rest = 0
    BY <1>2, <1>3, <1>4, <1>6, <2>1, <2>2
  <2>3. CASE rest # 0
    <3>1. ~(n <= m)
      BY <1>2, <1>4, <2>3
    <3> QED BY <1>6, <2>1, <3>1
  <2> QED BY <2>2, <2>3
<1>14. \A i \in 0 .. n : left[i] \in Int
  <2> TAKE i \in 0 .. n
  <2>1. i * a \in Int
    BY <1>2, <1>7
  <2> QED BY <1>6, <2>1
<1>15. Drains(src, left, outs)
  BY <1>1, <1>5, <1>11, <1>13, <1>14, Zenon DEF Drains
<1> QED BY <1>1, <1>4, <1>11, <1>12, <1>15

-----------------------------------------------------------------------------
(* The strengthening.                                                        *)

(* Transactions are numbered as they are made; the pool, the blocks and what a client   *)
(* holds are some of them.                                                     *)
NumbersOK ==
    /\ Len(made) \in Nat /\ made = [n \in 1 .. Len(made) |-> made[n]]
    /\ posted \subseteq Txns /\ pending \subseteq posted /\ Range(chain) \subseteq Txns
    /\ chain \in Seq(Txns)
    /\ held \in [Key -> {0} \cup Txns]
    /\ refused \subseteq Txns

(* What a builder made: enough coins of the address, of the kind that is asked for, what  *)
(* is asked for, and the rest.                                                  *)
Backed(id, k, src) ==
    /\ id[1] \in {0} \cup Txns /\ id[2] \in DOMAIN TxnAt(id[1]).outs
    /\ CoinOf(id).owner = k /\ CoinOf(id).dest = src
    /\ ~CoinOf(id).rescind /\ CoinOf(id).amount \in Nat

BuiltOK(n) ==
    /\ made[n].by \in Key /\ made[n].ask \in Asks[made[n].by] /\ Admissible(made[n].ask)
    /\ IsFiniteSet(made[n].ins) /\ made[n].ins # {}
    /\ \A id \in made[n].ins : Backed(id, made[n].by, Source(made[n].ask))
    /\ Worth(made[n].ins) \in Nat /\ Worth(made[n].ins) >= Asked(made[n].ask)
    /\ HasShape(made[n].by, made[n].ask, Worth(made[n].ins) - Asked(made[n].ask), made[n].outs)

MadeOK == \A n \in Txns : BuiltOK(n)

(* A client holds a transaction of its own that was never posted, and none that was   *)
(* admitted since consumes its coins, unless it has come back.                     *)
Shares(t, u) == made[t].ins \cap made[u].ins # {}
HeldOK ==
    \A k \in Key : held[k] # 0 =>
        /\ made[held[k]].by = k /\ held[k] \notin posted
        /\ \A u \in pending : Shares(held[k], u) => u \in returned

(* The books of a chain with these transactions: what they consume they or the genesis    *)
(* made, and every address owns what it had, less what it paid and rescinded, plus what   *)
(* it got.                                                                    *)
OwnedBy(S, k) == {id \in Unspent(S) : CoinOf(id).owner = k /\ ~CoinOf(id).rescind}
Paid(T, k) == {t \in T : made[t].by = k /\ made[t].ask.op \in {"transfer", "rescind"}}
Got(T, k) == {t \in T : made[t].ask.op = "transfer" /\ made[t].ask.to = k}
Books(T) ==
    /\ Inputs({0} \cup T) \subseteq Outputs({0} \cup T)
    /\ \A k \in Key :
          Worth(OwnedBy({0} \cup T, k)) = Given0(k) - Moved(Paid(T, k)) + Moved(Got(T, k))

(* The books are right after every transaction of the chain, so that they still are when  *)
(* the last blocks are displaced.                                                *)
First(c, n) == {c[i] : i \in 1 .. n}
ChainOK == \A n \in 0 .. Len(chain) : Books(First(chain, n))

IInv ==
    /\ NumbersOK /\ MadeOK /\ HeldOK /\ ChainOK
    /\ OnePromisePerCoin /\ OnlyDustIsRefused /\ DiscardedForCause

-----------------------------------------------------------------------------
(* Coins.                                                                    *)

(* No coins are worth nothing.                                                *)
LEMMA WorthOfNothing == Worth({}) = 0
<1>1. PICK f : f = [id \in {} |-> CoinOf(id).amount]
  OBVIOUS
<1>2. DOMAIN f = {} /\ Worth({}) = SumFunctionOnSet(f, DOMAIN f)
  BY <1>1 DEF Worth, SumFunction
<1> QED BY <1>2, SumOfNone

(* What is taken covers the amount only if something is taken.                     *)
LEMMA TakenIsSome ==
    ASSUME NEW ids, NEW amount \in Nat \ {0}, Worth(Taken(ids, amount)) >= amount
    PROVE  Taken(ids, amount) # {} /\ Taken(ids, amount) \subseteq ids
<1>1. ASSUME Taken(ids, amount) = {} PROVE FALSE
  BY <1>1, WorthOfNothing
<1>2. Taken(ids, amount) \subseteq ids
  BY DEF Taken
<1> QED BY <1>1, <1>2

(* There are finitely many coins.                                              *)
LEMMA IntervalsAreFinite ==
    ASSUME NEW n \in Nat PROVE IsFiniteSet(0 .. n) /\ IsFiniteSet(1 .. n)
<1>1. 0 \in Int /\ 1 \in Int /\ n \in Int
  OBVIOUS
<1>2. IsFiniteSet(0 .. n)
  BY <1>1, FS_Interval, Zenon
<1>3. IsFiniteSet(1 .. n)
  BY <1>1, FS_Interval, Zenon
<1> QED BY <1>2, <1>3

LEMMA TxnHasOuts ==
    ASSUME NumbersOK, MadeOK, NEW n \in {0} \cup Txns
    PROVE  /\ \E m \in Nat : DOMAIN TxnAt(n).outs = 1 .. m
           /\ \A i \in DOMAIN TxnAt(n).outs : TxnAt(n).outs[i].amount \in Nat
<1>1. CASE n = 0
  BY <1>1, WalletAssumption DEF TxnAt
<1>2. CASE n # 0
  <2>1. n \in Txns /\ TxnAt(n) = made[n]
    BY <1>2 DEF TxnAt
  <2>2. BuiltOK(n)
    BY <2>1 DEF MadeOK
  <2>3. PICK k, ask, w : k = made[n].by /\ ask = made[n].ask /\ w = Worth(made[n].ins)
    OBVIOUS
  <2>4. /\ k \in Key /\ ask \in Asks[k] /\ Admissible(ask)
        /\ w \in Nat /\ w >= Asked(ask) /\ HasShape(k, ask, w - Asked(ask), made[n].outs)
    BY <2>2, <2>3 DEF BuiltOK
  <2>5. \A i \in DOMAIN made[n].outs : made[n].outs[i].amount \in Nat
    BY <2>4, OutsDrain
  <2>6. DOMAIN made[n].outs = 1 .. Len(made[n].outs) /\ Len(made[n].outs) \in Nat
    BY <2>4, RulesAssumption DEF HasShape
  <2> QED BY <2>1, <2>5, <2>6
<1> QED BY <1>1, <1>2

LEMMA CoinsAreFinite ==
    ASSUME NumbersOK, MadeOK, NEW S, S \subseteq {0} \cup Txns
    PROVE  /\ IsFiniteSet(Outputs(S))
           /\ \A id \in Outputs(S) : /\ id[1] \in S /\ id[2] \in DOMAIN TxnAt(id[1]).outs
                                     /\ CoinOf(id).amount \in Nat
<1>1. {0} \cup Txns \subseteq 0 .. Len(made)
  BY DEF NumbersOK, Txns
<1>2. IsFiniteSet(S)
  <2>1. IsFiniteSet(0 .. Len(made))
    BY IntervalsAreFinite DEF NumbersOK
  <2>2. S \in SUBSET (0 .. Len(made))
    BY <1>1
  <2> HIDE DEF NumbersOK
  <2> QED BY <2>1, <2>2, FS_Subset, Zenon
<1>3. ASSUME NEW n \in S PROVE IsFiniteSet({n} \X DOMAIN TxnAt(n).outs)
  <2>1. PICK m \in Nat : DOMAIN TxnAt(n).outs = 1 .. m
    BY TxnHasOuts
  <2>2. IsFiniteSet({n})
    BY FS_Singleton, Zenon
  <2>3. IsFiniteSet(1 .. m)
    BY IntervalsAreFinite, Zenon
  <2>4. IsFiniteSet({n} \X (1 .. m))
    BY <2>2, <2>3, FS_Product, Zenon
  <2> QED BY <2>1, <2>4
<1> DEFINE parts == [n \in S |-> {n} \X DOMAIN TxnAt(n).outs]
<1>4. IsFiniteSet(Range(parts))
  <2>1. DOMAIN parts = S
    OBVIOUS
  <2> HIDE DEF parts
  <2> QED BY <1>2, <2>1, ImageIsNoLarger
<1>5. \A s \in Range(parts) : IsFiniteSet(s)
  BY <1>3 DEF Range
<1>6. Outputs(S) = UNION Range(parts)
  BY DEF Outputs, Range
<1> HIDE DEF parts
<1>7. IsFiniteSet(UNION Range(parts))
  BY <1>4, <1>5, FS_UNION, Zenon
<1>8. ASSUME NEW id \in Outputs(S)
      PROVE  /\ id[1] \in S /\ id[2] \in DOMAIN TxnAt(id[1]).outs
             /\ CoinOf(id).amount \in Nat
  <2>1. id[1] \in S /\ id[2] \in DOMAIN TxnAt(id[1]).outs
    BY DEF Outputs
  <2>2. \A i \in DOMAIN TxnAt(id[1]).outs : TxnAt(id[1]).outs[i].amount \in Nat
    BY <2>1, TxnHasOuts
  <2> QED BY <2>1, <2>2 DEF CoinOf
<1> QED BY <1>6, <1>7, <1>8

LEMMA ChainIsMade ==
    ASSUME NumbersOK PROVE OnChain \subseteq {0} \cup Txns
<1> QED BY DEF OnChain, NumbersOK

(* A coin that is offered is an unspent coin of the address, of a transaction that was *)
(* made, and no pending transaction consumes it.                                *)
LEMMA OfferedCoins ==
    ASSUME NumbersOK, MadeOK, NEW k, NEW dest, NEW id \in Available(k, dest)
    PROVE  /\ id \in Outputs(OnChain) /\ Backed(id, k, dest)
           /\ \A u \in pending : id \notin made[u].ins
<1>1. id \in Coins(k, dest) /\ id \notin Inputs(pending)
  BY DEF Available
<1>2. /\ id \in Outputs(OnChain) /\ CoinOf(id).owner = k /\ CoinOf(id).dest = dest
      /\ ~CoinOf(id).rescind
  BY <1>1 DEF Coins, Unspent
<1>3. /\ id[1] \in {0} \cup Txns /\ id[2] \in DOMAIN TxnAt(id[1]).outs
      /\ CoinOf(id).amount \in Nat
  BY <1>2, ChainIsMade, CoinsAreFinite
<1>4. ASSUME NEW u \in pending PROVE id \notin made[u].ins
  <2>1. u # 0
    BY DEF NumbersOK, Txns
  <2> QED BY <1>1, <2>1 DEF Inputs, TxnAt
<1> QED BY <1>2, <1>3, <1>4 DEF Backed

(* Coins are worth the sum of their amounts.                                      *)
LEMMA WorthIs ==
    ASSUME NEW X, IsFiniteSet(X), NEW f, \A id \in X : f[id] = CoinOf(id).amount /\ f[id] \in Nat,
           NEW ids \in SUBSET X
    PROVE  Worth(ids) \in Nat /\ Worth(ids) = SumFunctionOnSet(f, ids) /\ Summable(f, ids)
<1>1. IsFiniteSet(ids)
  BY FS_Subset
<1>2. Summable(f, ids) /\ SumFunctionOnSet(f, ids) \in Nat
  BY <1>1, SumIsNatural
<1>3. PICK g : g = [id \in ids |-> CoinOf(id).amount]
  OBVIOUS
<1>4. SumFunctionOnSet(g, ids) = SumFunctionOnSet(f, ids)
  <2>1. \A id \in ids : g[id] = f[id]
    BY <1>3
  <2> QED BY <1>2, <2>1, SumsAgree
<1>5. DOMAIN g = ids /\ Worth(ids) = SumFunctionOnSet(g, DOMAIN g)
  BY <1>3 DEF Worth, SumFunction
<1> QED BY <1>2, <1>4, <1>5

(* What coins are worth together, and what alike coins are worth.                    *)
AllCoins == Outputs({0} \cup Txns)

LEMMA WorthAdds ==
    ASSUME NumbersOK, MadeOK, NEW ids \in SUBSET AllCoins, NEW more \in SUBSET AllCoins,
           ids \cap more = {}
    PROVE  /\ Worth(ids) \in Nat /\ Worth(more) \in Nat
           /\ Worth(ids \cup more) = Worth(ids) + Worth(more)
<1>1. PICK X : X = AllCoins
  OBVIOUS
<1>2. IsFiniteSet(X) /\ \A id \in X : CoinOf(id).amount \in Nat
  <2>1. PICK S : S = {0} \cup Txns
    OBVIOUS
  <2>2. IsFiniteSet(Outputs(S)) /\ \A id \in Outputs(S) : CoinOf(id).amount \in Nat
    BY <2>1, CoinsAreFinite
  <2> QED BY <1>1, <2>1, <2>2 DEF AllCoins
<1>3. PICK f : f = [id \in X |-> CoinOf(id).amount]
  OBVIOUS
<1>4. \A id \in X : f[id] = CoinOf(id).amount /\ f[id] \in Nat
  BY <1>2, <1>3
<1>5. PICK both : both = ids \cup more
  OBVIOUS
<1>6. Worth(ids) \in Nat /\ Worth(ids) = SumFunctionOnSet(f, ids)
  BY <1>1, <1>2, <1>4, WorthIs
<1>7. Worth(more) \in Nat /\ Worth(more) = SumFunctionOnSet(f, more)
  BY <1>1, <1>2, <1>4, WorthIs
<1>8. Worth(both) = SumFunctionOnSet(f, both) /\ Summable(f, both)
  <2>1. both \in SUBSET X
    BY <1>1, <1>5
  <2> QED BY <1>2, <1>4, <2>1, WorthIs
<1>9. SumFunctionOnSet(f, ids \cup more) = SumFunctionOnSet(f, ids) + SumFunctionOnSet(f, more)
  BY <1>5, <1>8, SumOfParts
<1> QED BY <1>5, <1>6, <1>7, <1>8, <1>9

LEMMA WorthOfAlike ==
    ASSUME NEW n, NEW m \in Nat, NEW c \in Int, NEW ids, ids = {n} \X (1 .. m),
           \A id \in ids : CoinOf(id).amount = c
    PROVE  Worth(ids) = m * c
<1>1. PICK f : f = [id \in ids |-> CoinOf(id).amount]
  OBVIOUS
<1>2. DOMAIN f = ids /\ Worth(ids) = SumFunctionOnSet(f, DOMAIN f)
  BY <1>1 DEF Worth, SumFunction
<1>3. \A id \in ids : f[id] = c
  BY <1>1
<1>4. IsFiniteSet({n}) /\ Cardinality({n}) = 1
  BY FS_Singleton, Zenon
<1>5. IsFiniteSet(1 .. m) /\ Cardinality(1 .. m) = m
  <2>1. 1 \in Int /\ m \in Int
    OBVIOUS
  <2>2. IsFiniteSet(1 .. m) /\ Cardinality(1 .. m) = IF 1 > m THEN 0 ELSE m - 1 + 1
    BY <2>1, FS_Interval, Zenon
  <2> QED BY <2>2
<1>6. IsFiniteSet(ids) /\ Cardinality(ids) = m
  <2>1. PICK one, upto : one = {n} /\ upto = 1 .. m
    OBVIOUS
  <2>2. IsFiniteSet(one \X upto) /\ Cardinality(one \X upto) = Cardinality(one) * Cardinality(upto)
    BY <1>4, <1>5, <2>1, FS_Product
  <2> QED BY <1>4, <1>5, <2>1, <2>2
<1>7. SumFunctionOnSet(f, ids) = Cardinality(ids) * c
  BY <1>3, <1>6, SumOfEquals
<1> QED BY <1>2, <1>6, <1>7

(* What a transaction gives an address.                                           *)
Gives(t, k) ==
    {id \in {t} \X DOMAIN made[t].outs : CoinOf(id).owner = k /\ ~CoinOf(id).rescind}
Receiver(txn) == IF txn.ask.op = "transfer" THEN txn.ask.to ELSE txn.by
GivesAsked(t, k) == IF made[t].ask.op # "rescind" /\ Receiver(made[t]) = k
                    THEN Asked(made[t].ask) ELSE 0
GivesBack(t, k) == IF made[t].by = k THEN Worth(made[t].ins) - Asked(made[t].ask) ELSE 0

LEMMA GivesIs ==
    ASSUME NumbersOK, MadeOK, NEW t \in Txns, NEW k
    PROVE  Gives(t, k) \subseteq AllCoins /\ Worth(Gives(t, k)) = GivesAsked(t, k) + GivesBack(t, k)
<1>1. PICK j, ask, m, a, rest, outs :
        /\ j = made[t].by /\ ask = made[t].ask /\ m = ask.count /\ a = ask.amount
        /\ rest = Worth(made[t].ins) - Asked(ask) /\ outs = made[t].outs
  OBVIOUS
<1>2. /\ j \in Key /\ ask \in Asks[j] /\ Admissible(ask)
      /\ Worth(made[t].ins) \in Nat /\ Worth(made[t].ins) >= Asked(ask)
      /\ HasShape(j, ask, rest, outs)
  BY <1>1 DEF MadeOK, BuiltOK
<1>3. /\ ask.op \in {"transfer", "split", "opposition", "support", "rescind"}
      /\ a \in Nat \ {0} /\ m \in Nat \ {0}
      /\ ask.op \in {"opposition", "support", "rescind"} => ask.dest \in Stake
      /\ Asked(ask) \in Nat /\ Asked(ask) = m * a
  <2>1. MaxFlows \in Nat
    BY RulesAssumption
  <2> QED BY <1>1, <1>2, <2>1, AskType
<1>4. rest \in Nat
  BY <1>1, <1>2, <1>3
<1>5. /\ DOMAIN outs = IF rest = 0 THEN 1 .. m ELSE 1 .. m + 1
      /\ \A i \in 1 .. m : outs[i] = Chip(j, ask)
      /\ rest # 0 => outs[m + 1] = Rest(j, ask, rest)
  BY <1>1, <1>2 DEF HasShape
<1>6. Payment \notin Stake
  BY DEF Payment, Stake
<1>7. \A i : /\ CoinOf(<<t, i>>).amount = outs[i].amount
             /\ CoinOf(<<t, i>>).rescind = outs[i].rescind
             /\ CoinOf(<<t, i>>).owner = IF outs[i].dest = Payment THEN outs[i].to ELSE j
  <2>1. t # 0
    BY DEF Txns
  <2> QED BY <1>1, <2>1 DEF CoinOf, TxnAt
<1>8. \A i \in 1 .. m : /\ CoinOf(<<t, i>>).amount = a
                        /\ CoinOf(<<t, i>>).owner = Receiver(made[t])
                        /\ CoinOf(<<t, i>>).rescind = (ask.op = "rescind")
  <2>1. /\ Chip(j, ask).amount = a /\ Chip(j, ask).rescind = (ask.op = "rescind")
        /\ Receiver(made[t]) = IF Chip(j, ask).dest = Payment THEN Chip(j, ask).to ELSE j
    BY <1>1, <1>3, <1>6 DEF Chip, Pay, StakeOn, Receiver
  <2>2. PICK c, x : c = Chip(j, ask) /\ x = Receiver(made[t])
    OBVIOUS
  <2> TAKE i \in 1 .. m
  <2>3. outs[i] = c
    BY <1>5, <2>2
  <2> QED BY <1>7, <2>1, <2>2, <2>3, Zenon
<1>9. rest # 0 => /\ CoinOf(<<t, m + 1>>).amount = rest /\ CoinOf(<<t, m + 1>>).owner = j
                  /\ ~CoinOf(<<t, m + 1>>).rescind
  <2>1. /\ Rest(j, ask, rest).amount = rest /\ ~Rest(j, ask, rest).rescind
        /\ j = IF Rest(j, ask, rest).dest = Payment THEN Rest(j, ask, rest).to ELSE j
    BY <1>1, <1>3, <1>6 DEF Rest, Pay, StakeOn
  <2> QED BY <1>5, <1>7, <2>1, Zenon
<1> DEFINE chips == IF ask.op # "rescind" /\ Receiver(made[t]) = k THEN {t} \X (1 .. m) ELSE {}
           back == IF rest # 0 /\ j = k THEN {<<t, m + 1>>} ELSE {}
<1>10. Gives(t, k) = chips \cup back
  <2>1. ASSUME NEW i \in 1 .. m PROVE <<t, i>> \in Gives(t, k) <=> <<t, i>> \in chips
    <3>1. <<t, i>> \in {t} \X DOMAIN made[t].outs
      BY <1>1, <1>3, <1>5
    <3>2. <<t, i>> \in Gives(t, k) <=> Receiver(made[t]) = k /\ ask.op # "rescind"
      BY <1>8, <3>1, Zenon DEF Gives
    <3> QED BY <3>2
  <2>2. rest # 0 => (<<t, m + 1>> \in Gives(t, k) <=> <<t, m + 1>> \in back)
    BY <1>1, <1>3, <1>5, <1>9 DEF Gives
  <2>3. ASSUME NEW id \in Gives(t, k) PROVE id \in chips \cup back
    <3>1. id = <<t, id[2]>> /\ id[2] \in DOMAIN outs
      BY <1>1 DEF Gives
    <3>2. CASE id[2] \in 1 .. m
      BY <2>1, <3>1, <3>2
    <3>3. CASE id[2] = m + 1 /\ rest # 0
      BY <2>2, <3>1, <3>3
    <3> QED BY <1>3, <1>5, <3>1, <3>2, <3>3
  <2>4. chips \subseteq Gives(t, k)
    BY <2>1
  <2>5. back \subseteq Gives(t, k)
    BY <2>2
  <2> QED BY <2>3, <2>4, <2>5
<1>11. Gives(t, k) \subseteq AllCoins
  <2>1. t # 0
    BY DEF Txns
  <2> QED BY <2>1 DEF Gives, AllCoins, Outputs, TxnAt
<1>12. chips \cap back = {}
  BY <1>3
<1>13. Worth(chips) = GivesAsked(t, k)
  <2>1. CASE ask.op # "rescind" /\ Receiver(made[t]) = k
    <3>1. PICK ids : ids = {t} \X (1 .. m)
      OBVIOUS
    <3>2. \A id \in ids : CoinOf(id).amount = a
      BY <1>8, <3>1
    <3>3. Worth(ids) = m * a
      BY <1>3, <3>1, <3>2, WorthOfAlike
    <3> QED BY <1>1, <1>3, <2>1, <3>1, <3>3 DEF GivesAsked
  <2>2. CASE ~(ask.op # "rescind" /\ Receiver(made[t]) = k)
    BY <1>1, <2>2, WorthOfNothing DEF GivesAsked
  <2> QED BY <2>1, <2>2
<1>14. Worth(back) = GivesBack(t, k)
  <2>1. CASE rest # 0 /\ j = k
    <3>1. back = {<<t, m + 1>>}
      BY <2>1
    <3>2. Worth(back) = rest
      <4>1. PICK id, f : id = <<t, m + 1>> /\ f = [i \in {id} |-> CoinOf(i).amount]
        OBVIOUS
      <4>2. DOMAIN f = {id} /\ Worth({id}) = SumFunctionOnSet(f, DOMAIN f)
        BY <4>1 DEF Worth, SumFunction
      <4>3. \A i \in {id} : f[i] = rest
        BY <1>9, <2>1, <4>1
      <4>4. IsFiniteSet({id}) /\ Cardinality({id}) = 1
        BY FS_Singleton, Zenon
      <4>5. SumFunctionOnSet(f, {id}) = Cardinality({id}) * rest
        BY <1>4, <4>3, <4>4, SumOfEquals
      <4> QED BY <1>4, <3>1, <4>1, <4>2, <4>4, <4>5
    <3> QED BY <1>1, <2>1, <3>2 DEF GivesBack
  <2>2. CASE ~(rest # 0 /\ j = k)
    BY <1>1, <1>4, <2>2, WorthOfNothing DEF GivesBack
  <2> QED BY <2>1, <2>2
<1>15. Worth(Gives(t, k)) = Worth(chips) + Worth(back)
  <2>1. PICK x, y : x = chips /\ y = back
    OBVIOUS
  <2> HIDE DEF chips, back
  <2>2. x \in SUBSET AllCoins /\ y \in SUBSET AllCoins /\ x \cap y = {}
    BY <1>10, <1>11, <1>12, <2>1
  <2>3. Worth(x \cup y) = Worth(x) + Worth(y)
    BY <2>2, WorthAdds
  <2> QED BY <1>10, <2>1, <2>3
<1> QED BY <1>11, <1>13, <1>14, <1>15

(* What is moved when one more transaction is.                                      *)
LEMMA MovedGrows ==
    ASSUME NumbersOK, MadeOK, NEW R \in SUBSET Txns, NEW t \in Txns \ R
    PROVE  /\ Moved(R) \in Int /\ Asked(made[t].ask) \in Int
           /\ Moved(R \cup {t}) = Moved(R) + Asked(made[t].ask)
<1>1. PICK more : more = R \cup {t}
  OBVIOUS
<1>2. PICK f : f = [n \in more |-> Asked(made[n].ask)]
  OBVIOUS
<1>3. IsFiniteSet(Txns) /\ more \in SUBSET Txns
  <2>1. IsFiniteSet(1 .. Len(made))
    BY IntervalsAreFinite DEF NumbersOK
  <2> QED BY <1>1, <2>1 DEF Txns
<1>4. IsFiniteSet(more)
  BY <1>3, FS_Subset
<1>5. \A n \in more : f[n] \in Int
  <2> TAKE n \in more
  <2>1. BuiltOK(n)
    BY <1>3 DEF MadeOK
  <2>2. Asked(made[n].ask) \in Nat
    BY <2>1, AskType DEF BuiltOK
  <2> QED BY <1>2, <2>2
<1>6. Summable(f, more)
  BY <1>4, <1>5 DEF Summable
<1>7. SumFunctionOnSet(f, R \cup {t}) = SumFunctionOnSet(f, R) + f[t]
  <2>1. R \in SUBSET more /\ t \in more \ R
    BY <1>1
  <2> QED BY <1>6, <2>1, SumGrows
<1>8. Moved(more) = SumFunctionOnSet(f, more)
  <2>1. DOMAIN f = more
    BY <1>2
  <2> QED BY <1>2, <2>1 DEF Moved, SumFunction
<1>9. Moved(R) = SumFunctionOnSet(f, R) /\ Moved(R) \in Int
  <2>1. PICK g : g = [n \in R |-> Asked(made[n].ask)]
    OBVIOUS
  <2>2. R \in SUBSET more /\ \A n \in R : g[n] = f[n]
    BY <1>1, <1>2, <2>1
  <2>3. Summable(f, R) /\ SumFunctionOnSet(f, R) \in Int
    BY <1>6, <2>2, SumOfPart
  <2>4. SumFunctionOnSet(g, R) = SumFunctionOnSet(f, R)
    BY <2>2, <2>3, SumsAgree
  <2>5. DOMAIN g = R
    BY <2>1
  <2> QED BY <2>1, <2>3, <2>4, <2>5 DEF Moved, SumFunction
<1>10. f[t] = Asked(made[t].ask) /\ f[t] \in Int
  BY <1>1, <1>2, <1>5
<1> QED BY <1>1, <1>7, <1>8, <1>9, <1>10

(* A transaction that consumes unspent coins, after the others: what is unspent, and what  *)
(* each address owns.                                                         *)
Follows(t, T, S, more) ==
    /\ T \in SUBSET Txns /\ t \in Txns \ T
    /\ S = {0} \cup T /\ more = {0} \cup (T \cup {t})
    /\ Inputs(S) \subseteq Outputs(S) /\ made[t].ins \subseteq Unspent(S)

LEMMA SpendingMoves ==
    ASSUME NumbersOK, MadeOK, NEW t, NEW T, NEW S, NEW more, Follows(t, T, S, more)
    PROVE  /\ Inputs(more) \subseteq Outputs(more)
           /\ \A k : OwnedBy(more, k) = (OwnedBy(S, k) \ made[t].ins) \cup Gives(t, k)
           /\ \A k : OwnedBy(S, k) \subseteq Outputs(S) /\ OwnedBy(S, k) \cap Gives(t, k) = {}
           /\ Outputs(S) \subseteq AllCoins
<1>1. t # 0 /\ t \notin S /\ more = S \cup {t}
  BY DEF Txns, Follows
<1>2. PICK D, ins : D = {t} \X DOMAIN made[t].outs /\ ins = made[t].ins
  OBVIOUS
<1>3. TxnAt(t) = made[t]
  BY <1>1 DEF TxnAt
<1>4. Outputs(more) = Outputs(S) \cup D
  BY <1>1, <1>2, <1>3 DEF Outputs
<1>5. Inputs(more) = Inputs(S) \cup ins
  BY <1>1, <1>2, <1>3 DEF Inputs
<1>6. ins \subseteq Outputs(S) /\ ins \cap Inputs(S) = {} /\ Inputs(S) \subseteq Outputs(S)
  BY <1>2 DEF Unspent, Follows
<1>7. D \cap Outputs(S) = {}
  BY <1>1, <1>2 DEF Outputs
<1>8. Unspent(more) = (Unspent(S) \ ins) \cup D
  BY <1>4, <1>5, <1>6, <1>7 DEF Unspent
<1>9. ASSUME NEW k
      PROVE  /\ OwnedBy(more, k) = (OwnedBy(S, k) \ ins) \cup Gives(t, k)
             /\ OwnedBy(S, k) \subseteq Outputs(S) /\ OwnedBy(S, k) \cap Gives(t, k) = {}
  <2>1. Gives(t, k) = {id \in D : CoinOf(id).owner = k /\ ~CoinOf(id).rescind}
    BY <1>2 DEF Gives
  <2>2. OwnedBy(S, k) \subseteq Outputs(S)
    BY DEF OwnedBy, Unspent
  <2> QED BY <1>7, <1>8, <2>1, <2>2 DEF OwnedBy
<1>10. Outputs(S) \subseteq AllCoins
  BY DEF AllCoins, Outputs, Follows
<1> QED BY <1>2, <1>4, <1>5, <1>6, <1>9, <1>10

LEMMA OwnsAfter ==
    ASSUME NumbersOK, MadeOK, NEW t, NEW T, NEW S, NEW more, Follows(t, T, S, more), NEW k
    PROVE  /\ Worth(OwnedBy(S, k)) \in Int
           /\ Worth(OwnedBy(more, k)) =
                 Worth(OwnedBy(S, k)) + GivesAsked(t, k)
                    - (IF made[t].by = k THEN Asked(made[t].ask) ELSE 0)
<1>1. PICK ins, own, left, given : /\ ins = made[t].ins /\ own = OwnedBy(S, k)
                                   /\ left = own \ ins /\ given = Gives(t, k)
  OBVIOUS
<1>2. OwnedBy(more, k) = left \cup given /\ left \cap given = {} /\ own \in SUBSET AllCoins
  <2>1. /\ OwnedBy(more, k) = (OwnedBy(S, k) \ made[t].ins) \cup Gives(t, k)
        /\ OwnedBy(S, k) \subseteq Outputs(S) /\ OwnedBy(S, k) \cap Gives(t, k) = {}
        /\ Outputs(S) \subseteq AllCoins
    BY SpendingMoves
  <2> QED BY <1>1, <2>1
<1>3. given \in SUBSET AllCoins /\ Worth(given) = GivesAsked(t, k) + GivesBack(t, k)
  <2>1. t \in Txns
    BY DEF Follows
  <2> QED BY <1>1, <2>1, GivesIs
<1>4. BuiltOK(t) /\ made[t].ins \subseteq Unspent(S)
  BY DEF MadeOK, Follows
<1>5. /\ Worth(ins) \in Nat /\ Asked(made[t].ask) \in Nat
      /\ \A id \in ins : CoinOf(id).owner = made[t].by /\ ~CoinOf(id).rescind
  BY <1>1, <1>4, AskType DEF BuiltOK, Backed
<1>6. /\ Worth(left) \in Nat /\ Worth(own) \in Nat
      /\ Worth(left) = Worth(own) - (IF made[t].by = k THEN Worth(ins) ELSE 0)
  <2>1. CASE made[t].by = k
    <3>1. ins \subseteq own
      BY <1>1, <1>4, <1>5, <2>1 DEF OwnedBy
    <3>2. left \in SUBSET AllCoins /\ ins \in SUBSET AllCoins /\ left \cap ins = {}
      BY <1>1, <1>2, <3>1
    <3>3. Worth(left) \in Nat /\ Worth(left \cup ins) = Worth(left) + Worth(ins)
      BY <3>2, WorthAdds
    <3>4. own = left \cup ins
      BY <1>1, <3>1
    <3>5. Worth(own) = Worth(left) + Worth(ins)
      BY <3>3, <3>4
    <3> QED BY <1>5, <2>1, <3>3, <3>5
  <2>2. CASE made[t].by # k
    <3>1. left = own
      BY <1>1, <1>5, <2>2 DEF OwnedBy
    <3>2. PICK none : none = {}
      OBVIOUS
    <3>3. none \in SUBSET AllCoins /\ own \cap none = {}
      BY <3>2
    <3>4. Worth(own) \in Nat
      BY <1>2, <3>3, WorthAdds
    <3> QED BY <2>2, <3>1, <3>4
  <2> QED BY <2>1, <2>2
<1>7. Worth(left \cup given) = Worth(left) + Worth(given)
  <2>1. left \in SUBSET AllCoins
    BY <1>1, <1>2
  <2> QED BY <1>2, <1>3, <2>1, WorthAdds
<1>8. GivesAsked(t, k) \in Nat
  BY <1>5 DEF GivesAsked
<1>9. PICK a, w, wl, wo, g : /\ a = Asked(made[t].ask) /\ w = Worth(ins) /\ wl = Worth(left)
                             /\ wo = Worth(own) /\ g = GivesAsked(t, k)
  OBVIOUS
<1>10. GivesBack(t, k) = IF made[t].by = k THEN w - a ELSE 0
  BY <1>1, <1>9 DEF GivesBack
<1>11. Worth(OwnedBy(more, k)) = wl + (g + GivesBack(t, k))
  BY <1>2, <1>3, <1>7, <1>9
<1>12. /\ a \in Nat /\ w \in Nat /\ wl \in Nat /\ wo \in Nat /\ g \in Nat
       /\ wl = wo - (IF made[t].by = k THEN w ELSE 0)
  BY <1>5, <1>6, <1>8, <1>9
<1>13. wl + (g + GivesBack(t, k)) = wo + g - (IF made[t].by = k THEN a ELSE 0)
  BY <1>10, <1>12
<1>14. Worth(OwnedBy(S, k)) = wo /\ Asked(made[t].ask) = a /\ GivesAsked(t, k) = g
  BY <1>1, <1>9
<1> QED BY <1>11, <1>12, <1>13, <1>14

(* So the books stay right.                                                    *)
LEMMA BooksGrow ==
    ASSUME NumbersOK, MadeOK, NEW T \in SUBSET Txns, NEW t \in Txns \ T,
           Books(T), made[t].ins \subseteq Unspent({0} \cup T),
           NEW more, more = T \cup {t}
    PROVE  Books(more)
<1>1. PICK S, next : S = {0} \cup T /\ next = {0} \cup (T \cup {t})
  OBVIOUS
<1>2. /\ Inputs(S) \subseteq Outputs(S) /\ made[t].ins \subseteq Unspent(S)
      /\ \A k \in Key : Worth(OwnedBy(S, k)) = Given0(k) - Moved(Paid(T, k)) + Moved(Got(T, k))
  BY <1>1 DEF Books
<1>f. Follows(t, T, S, next)
  BY <1>1, <1>2 DEF Follows
<1>3. Inputs(next) \subseteq Outputs(next)
  BY <1>f, SpendingMoves
<1>4. BuiltOK(t)
  BY DEF MadeOK
<1>5. /\ Asked(made[t].ask) \in Nat
      /\ made[t].ask.op \in {"transfer", "split", "opposition", "support", "rescind"}
  BY <1>4, AskType DEF BuiltOK
<1>6. ASSUME NEW k \in Key, Given0(k) \in Int
      PROVE  Worth(OwnedBy(next, k)) = Given0(k) - Moved(Paid(more, k)) + Moved(Got(more, k))
  <2>1. PICK a, paid, got, own, g :
          /\ a = Asked(made[t].ask) /\ paid = Paid(T, k) /\ got = Got(T, k)
          /\ own = Worth(OwnedBy(S, k)) /\ g = Given0(k)
    OBVIOUS
  <2>2. /\ own \in Int
        /\ Worth(OwnedBy(next, k)) = own + GivesAsked(t, k) - (IF made[t].by = k THEN a ELSE 0)
    BY <1>f, <2>1, OwnsAfter
  <2>3. paid \in SUBSET Txns /\ got \in SUBSET Txns /\ t \in Txns \ paid /\ t \in Txns \ got
    BY <2>1 DEF Paid, Got
  <2>4. Moved(paid) \in Int /\ Moved(paid \cup {t}) = Moved(paid) + a
    BY <2>1, <2>3, MovedGrows
  <2>5. Moved(got) \in Int /\ Moved(got \cup {t}) = Moved(got) + a
    BY <2>1, <2>3, MovedGrows
  <2>6. Paid(more, k) = IF made[t].by = k /\ made[t].ask.op \in {"transfer", "rescind"}
                        THEN paid \cup {t} ELSE paid
    BY <2>1 DEF Paid
  <2>7. Got(more, k) = IF made[t].ask.op = "transfer" /\ made[t].ask.to = k
                       THEN got \cup {t} ELSE got
    BY <2>1 DEF Got
  <2>8. PICK p, q, pm, qm : /\ p = Moved(paid) /\ q = Moved(got)
                            /\ pm = Moved(Paid(more, k)) /\ qm = Moved(Got(more, k))
    OBVIOUS
  <2>9. pm = p + (IF made[t].by = k /\ made[t].ask.op \in {"transfer", "rescind"} THEN a ELSE 0)
    BY <2>4, <2>6, <2>8
  <2>10. qm = q + (IF made[t].ask.op = "transfer" /\ made[t].ask.to = k THEN a ELSE 0)
    BY <2>5, <2>7, <2>8
  <2>11. own = g - p + q /\ p \in Int /\ q \in Int /\ g \in Int /\ a \in Nat
    BY <1>2, <1>5, <1>6, <2>1, <2>4, <2>5, <2>8
  <2>12. GivesAsked(t, k) =
           IF made[t].ask.op = "transfer" THEN (IF made[t].ask.to = k THEN a ELSE 0)
           ELSE IF made[t].ask.op # "rescind" /\ made[t].by = k THEN a ELSE 0
    BY <2>1 DEF GivesAsked, Receiver
  <2>13. own + GivesAsked(t, k) - (IF made[t].by = k THEN a ELSE 0) = g - pm + qm
    <3>1. CASE made[t].ask.op = "transfer"
      BY <2>2, <2>9, <2>10, <2>11, <2>12, <3>1
    <3>2. CASE made[t].ask.op = "rescind"
      BY <2>2, <2>9, <2>10, <2>11, <2>12, <3>2
    <3>3. CASE made[t].ask.op \notin {"transfer", "rescind"}
      BY <2>2, <2>9, <2>10, <2>11, <2>12, <3>3
    <3> QED BY <3>1, <3>2, <3>3
  <2> QED BY <2>1, <2>2, <2>8, <2>13
<1>7. ASSUME NEW k \in Key PROVE Given0(k) \in Int
  <2>1. PICK ids, none : ids = {id \in Outputs({0}) : CoinOf(id).owner = k} /\ none = {}
    OBVIOUS
  <2>2. ids \in SUBSET AllCoins /\ none \in SUBSET AllCoins /\ ids \cap none = {}
    BY <2>1 DEF AllCoins, Outputs
  <2>3. Worth(ids) \in Nat
    BY <2>2, WorthAdds
  <2> QED BY <2>1, <2>3 DEF Given0
<1> QED BY <1>1, <1>3, <1>6, <1>7 DEF Books

(* What a builder made comes out even by the rules.                                 *)
LEMMA BuiltComesOutEven ==
    ASSUME NEW t, BuiltOK(t)
    PROVE  Balance(Given([id \in made[t].ins |-> CoinOf(id)]), made[t].outs) = Nothing
<1>1. PICK k, ask, ins, outs, w : /\ k = made[t].by /\ ask = made[t].ask /\ ins = made[t].ins
                                  /\ outs = made[t].outs /\ w = Worth(made[t].ins)
  OBVIOUS
<1>2. /\ k \in Key /\ ask \in Asks[k] /\ Admissible(ask) /\ IsFiniteSet(ins)
      /\ w = Worth(ins) /\ w \in Nat /\ w >= Asked(ask)
      /\ HasShape(k, ask, w - Asked(ask), outs)
      /\ \A id \in ins : CoinOf(id).dest = Source(ask) /\ CoinOf(id).amount \in Nat
  BY <1>1 DEF BuiltOK, Backed
<1>3. Source(ask) \in Dest
  BY <1>2, AskType
<1>4. PICK flows : flows = [id \in ins |-> CoinOf(id)]
  OBVIOUS
<1>5. /\ DOMAIN flows = ins
      /\ \A id \in ins : flows[id].dest = Source(ask) /\ flows[id].amount = CoinOf(id).amount
  BY <1>2, <1>4
<1>6. IsFlows(flows)
  BY <1>2, <1>3, <1>5 DEF IsFlows
<1>7. Given(flows) = Left(Source(ask), Total(flows, ins))
  BY <1>3, <1>5, <1>6, GivenIsLeft
<1>8. Total(flows, ins) = w
  <2>1. \A id \in ins : Amounts(flows)[id] = CoinOf(id).amount /\ Amounts(flows)[id] \in Nat
    BY <1>2, <1>5 DEF Amounts
  <2>2. PICK f : f = Amounts(flows)
    OBVIOUS
  <2>3. Worth(ins) = SumFunctionOnSet(f, ins)
    BY <1>2, <2>1, <2>2, WorthIs
  <2> QED BY <1>2, <2>2, <2>3 DEF Total
<1>9. PICK left : left[0] = w /\ Drains(Source(ask), left, outs)
  BY <1>2, OutsDrain
<1>10. Balance(Left(Source(ask), left[0]), outs) = Nothing
  BY <1>9, DrainedIsNothing
<1> QED BY <1>1, <1>4, <1>7, <1>8, <1>9, <1>10

(* So a transaction whose coins are all unspent is valid.                            *)
LEMMA UnspentIsValid ==
    ASSUME MadeOK, NEW t \in Txns, made[t].ins \subseteq Unspent(OnChain)
    PROVE  ValidOn(made[t], OnChain)
<1>1. BuiltOK(t)
  BY DEF MadeOK
<1>2. \A id \in made[t].ins : CoinOf(id).owner = made[t].by /\ ~CoinOf(id).rescind
  BY <1>1 DEF BuiltOK, Backed
<1> QED BY <1>1, <1>2, BuiltComesOutEven DEF ValidOn

-----------------------------------------------------------------------------
(* The steps.                                                                *)

(* Only the pool and the chain change, and the pool only loses transactions.      *)
Shrinks ==
    /\ made' = made /\ posted' = posted /\ refused' = refused /\ returned' = returned
    /\ pending' \subseteq pending
    /\ chain' \in Seq(Txns) /\ Range(chain') \subseteq Txns
    /\ held' \in [Key -> {0} \cup Txns] /\ \A k \in Key : held'[k] \in {0, held[k]}
    /\ ChainOK' /\ wronged' = {}

(* What was made before is what it was.                                       *)
LEMMA BuiltStays ==
    ASSUME \A i \in Txns : made'[i] = made[i], Txns \subseteq Txns', 0 \notin Txns
    PROVE  /\ \A i \in {0} \cup Txns : TxnAt(i)' = TxnAt(i)
           /\ \A id : id[1] \in {0} \cup Txns => CoinOf(id)' = CoinOf(id)
           /\ \A t \in Txns : BuiltOK(t) => BuiltOK(t)'
<1>1. \A i \in {0} \cup Txns : TxnAt(i)' = TxnAt(i)
  BY DEF TxnAt
<1>2. \A id : id[1] \in {0} \cup Txns => CoinOf(id)' = CoinOf(id)
  BY <1>1 DEF CoinOf
<1>3. ASSUME NEW t \in Txns, BuiltOK(t) PROVE BuiltOK(t)'
  <2>1. PICK x : x = made[t]
    OBVIOUS
  <2>2. made'[t] = x
    BY <2>1
  <2>3. ASSUME NEW id \in x.ins
        PROVE  Backed(id, x.by, Source(x.ask))' /\ CoinOf(id)' = CoinOf(id)
    <3>1. Backed(id, x.by, Source(x.ask))
      BY <1>3, <2>1 DEF BuiltOK
    <3> QED BY <1>1, <1>2, <3>1 DEF Backed
  <2>4. Worth(x.ins)' = Worth(x.ins)
    BY <2>3 DEF Worth
  <2>5. /\ x.by \in Key /\ x.ask \in Asks[x.by] /\ Admissible(x.ask)
        /\ IsFiniteSet(x.ins) /\ x.ins # {}
        /\ Worth(x.ins) \in Nat /\ Worth(x.ins) >= Asked(x.ask)
        /\ HasShape(x.by, x.ask, Worth(x.ins) - Asked(x.ask), x.outs)
    BY <1>3, <2>1 DEF BuiltOK
  <2> QED BY <2>2, <2>3, <2>4, <2>5 DEF BuiltOK
<1> QED BY <1>1, <1>2, <1>3

(* The books of a chain say nothing of what is made later.                          *)
LEMMA BooksStay ==
    ASSUME NumbersOK, \A i \in Txns : made'[i] = made[i], Txns \subseteq Txns',
           NEW T \in SUBSET Txns, Books(T)
    PROVE  Books(T)'
<1>1. PICK S : S = {0} \cup T
  OBVIOUS
<1>2. 0 \notin Txns /\ S \subseteq {0} \cup Txns /\ 0 \in S
  BY <1>1 DEF NumbersOK, Txns
<1>3. /\ \A i \in S : TxnAt(i)' = TxnAt(i)
      /\ \A id : id[1] \in S => CoinOf(id)' = CoinOf(id)
  BY <1>2, BuiltStays
<1>4. Outputs(S)' = Outputs(S) /\ Inputs(S)' = Inputs(S) /\ Outputs({0})' = Outputs({0})
  BY <1>2, <1>3 DEF Outputs, Inputs
<1>5. Unspent(S)' = Unspent(S)
  BY <1>4 DEF Unspent
<1>6. /\ \A id \in Outputs(S) : id[1] \in S
      /\ Outputs({0}) \subseteq Outputs(S) /\ Unspent(S) \subseteq Outputs(S)
  BY <1>2 DEF Outputs, Unspent
<1>7. ASSUME NEW ids \in SUBSET Outputs(S) PROVE Worth(ids)' = Worth(ids)
  BY <1>3, <1>6 DEF Worth
<1>8. ASSUME NEW R \in SUBSET T PROVE Moved(R)' = Moved(R)
  BY DEF Moved
<1>9. ASSUME NEW k \in Key
      PROVE  /\ OwnedBy(S, k)' = OwnedBy(S, k) /\ OwnedBy(S, k) \subseteq Outputs(S)
             /\ Given0(k)' = Given0(k)
             /\ Paid(T, k)' = Paid(T, k) /\ Got(T, k)' = Got(T, k)
  <2>1. OwnedBy(S, k)' = OwnedBy(S, k) /\ OwnedBy(S, k) \subseteq Outputs(S)
    BY <1>3, <1>5, <1>6 DEF OwnedBy
  <2>2. PICK ids : ids = {id \in Outputs({0}) : CoinOf(id).owner = k}
    OBVIOUS
  <2>3. ids = {id \in Outputs({0}) : CoinOf(id).owner = k}'
    BY <1>3, <1>4, <1>6, <2>2
  <2>4. ids \in SUBSET Outputs(S)
    BY <1>6, <2>2
  <2>5. Given0(k)' = Given0(k)
    BY <1>7, <2>2, <2>3, <2>4 DEF Given0
  <2>6. Paid(T, k)' = Paid(T, k) /\ Got(T, k)' = Got(T, k)
    BY DEF Paid, Got
  <2> QED BY <2>1, <2>5, <2>6
<1>10. ASSUME NEW k \in Key
       PROVE  (Worth(OwnedBy(S, k)) = Given0(k) - Moved(Paid(T, k)) + Moved(Got(T, k)))'
  <2>1. Worth(OwnedBy(S, k)) = Given0(k) - Moved(Paid(T, k)) + Moved(Got(T, k))
    BY <1>1 DEF Books
  <2>2. Worth(OwnedBy(S, k))' = Worth(OwnedBy(S, k))
    BY <1>7, <1>9
  <2>3. Moved(Paid(T, k))' = Moved(Paid(T, k)) /\ Moved(Got(T, k))' = Moved(Got(T, k))
    <3>1. Paid(T, k) \in SUBSET T /\ Got(T, k) \in SUBSET T
      BY DEF Paid, Got
    <3> QED BY <1>8, <1>9, <3>1
  <2> QED BY <1>9, <2>1, <2>2, <2>3
<1> QED BY <1>1, <1>4, <1>10 DEF Books

LEMMA MadeStays ==
    ASSUME NumbersOK, MadeOK, made' = made
    PROVE  /\ Txns' = Txns /\ MadeOK' /\ \A t, u : Shares(t, u)' = Shares(t, u)
           /\ \A T \in SUBSET Txns : Books(T) => Books(T)'
<1>1. Txns' = Txns /\ 0 \notin Txns /\ \A i \in Txns : made'[i] = made[i]
  BY DEF Txns, NumbersOK
<1>2. MadeOK'
  BY <1>1, BuiltStays DEF MadeOK
<1>3. \A t, u : Shares(t, u)' = Shares(t, u)
  BY DEF Shares
<1>4. ASSUME NEW T \in SUBSET Txns, Books(T) PROVE Books(T)'
  BY <1>1, <1>4, BooksStay
<1> QED BY <1>1, <1>2, <1>3, <1>4

LEMMA FirstAreMade ==
    ASSUME NumbersOK, NEW n \in 0 .. Len(chain)
    PROVE  First(chain, n) \in SUBSET Txns
<1> QED BY DEF First, NumbersOK

LEMMA ChainStays ==
    ASSUME NumbersOK, ChainOK, \A i \in Txns : made'[i] = made[i], Txns \subseteq Txns',
           chain' = chain
    PROVE  ChainOK'
<1> SUFFICES ASSUME NEW n \in 0 .. Len(chain)' PROVE Books(First(chain, n))'
  BY DEF ChainOK
<1>1. PICK T : T = First(chain, n)
  OBVIOUS
<1>2. n \in 0 .. Len(chain) /\ T \in SUBSET Txns /\ T = First(chain, n)'
  BY <1>1, FirstAreMade DEF First
<1>3. Books(T)
  BY <1>1, <1>2 DEF ChainOK
<1>4. Books(T)'
  BY <1>2, <1>3, BooksStay
<1> QED BY <1>2, <1>4

LEMMA ShrinkingKeeps ==
    ASSUME IInv, Shrinks PROVE IInv'
<1> USE DEF IInv, Shrinks
<1>1. Txns' = Txns /\ MadeOK' /\ \A t, u : Shares(t, u)' = Shares(t, u)
  BY MadeStays
<1>2. NumbersOK'
  BY <1>1 DEF NumbersOK
<1>3. HeldOK'
  BY <1>1 DEF HeldOK
<1>4. OnePromisePerCoin'
  BY DEF OnePromisePerCoin
<1>5. OnlyDustIsRefused'
  BY DEF OnlyDustIsRefused
<1>6. DiscardedForCause'
  BY DEF DiscardedForCause
<1> QED BY <1>1, <1>2, <1>3, <1>4, <1>5, <1>6

LEMMA BuildKeeps ==
    ASSUME IInv, NEW k \in Key, NEW ask \in Asks[k], NEW relayed \in BOOLEAN,
           Build(k, ask, relayed)
    PROVE  IInv'
<1>n. PICK n : n = Len(made) + 1
  OBVIOUS
<1> DEFINE taken == Taken(Available(k, Source(ask)), Asked(ask))
           outs == Wanted(k, ask) \o Change(k, ask, Worth(taken) - Asked(ask))
           txn == [by |-> k, ask |-> ask, ins |-> taken, outs |-> outs]
<1>1. /\ NumbersOK /\ MadeOK /\ HeldOK /\ ChainOK
      /\ OnePromisePerCoin /\ OnlyDustIsRefused /\ DiscardedForCause
  BY DEF IInv
<1>2. /\ Admissible(ask) /\ Worth(taken) >= Asked(ask)
      /\ made' = Append(made, txn) /\ held' = [held EXCEPT ![k] = n]
      /\ UNCHANGED <<posted, pending, chain, returned, refused, wronged>>
  BY <1>n DEF Build
<1>3. HasShape(k, ask, Worth(taken) - Asked(ask), outs)
  BY <1>2, OutsHaveShape
<1>4. taken # {} /\ taken \subseteq Available(k, Source(ask))
  <2>1. Asked(ask) \in Nat \ {0}
    BY <1>2, AskType
  <2> QED BY <1>2, <2>1, TakenIsSome
<1>5. taken \in SUBSET Outputs(OnChain) /\ IsFiniteSet(taken) /\ Worth(taken) \in Nat
  <2>1. taken \in SUBSET Outputs(OnChain)
    BY <1>1, <1>4, OfferedCoins
  <2>2. PICK X : X = Outputs(OnChain)
    OBVIOUS
  <2>3. IsFiniteSet(X) /\ \A id \in X : CoinOf(id).amount \in Nat
    BY <1>1, <2>2, ChainIsMade, CoinsAreFinite
  <2>4. IsFiniteSet(taken)
    BY <2>1, <2>2, <2>3, FS_Subset, Zenon
  <2>5. PICK f : f = [id \in X |-> CoinOf(id).amount]
    OBVIOUS
  <2>6. \A id \in X : f[id] = CoinOf(id).amount /\ f[id] \in Nat
    BY <2>3, <2>5
  <2>7. PICK ids : ids = taken
    OBVIOUS
  <2>8. Worth(ids) \in Nat
    BY <2>1, <2>2, <2>3, <2>6, <2>7, WorthIs
  <2> QED BY <2>1, <2>4, <2>7, <2>8
<1>6. \A id \in taken : Backed(id, k, Source(ask)) /\ \A u \in pending : id \notin made[u].ins
  BY <1>1, <1>4, OfferedCoins
<1>7. txn.by = k /\ txn.ask = ask /\ txn.ins = taken /\ txn.outs = outs
  OBVIOUS
<1> HIDE DEF taken, outs, txn
<1>8. /\ Len(made') = n /\ made' = [i \in 1 .. n |-> made'[i]]
      /\ made'[n] = txn /\ \A i \in Txns : made'[i] = made[i]
  <2> DEFINE S == Range(made) \cup {txn}
  <2>1. made \in Seq(S) /\ txn \in S /\ Len(made) \in Nat
    <3>1. Len(made) \in Nat /\ made = [i \in 1 .. Len(made) |-> made[i]]
      BY <1>1 DEF NumbersOK
    <3>2. \A i \in 1 .. Len(made) : made[i] \in S
      BY <3>1 DEF Range
    <3> HIDE DEF S
    <3>3. made \in [1 .. Len(made) -> S]
      BY <3>1, <3>2
    <3>4. made \in Seq(S)
      BY <3>1, <3>3
    <3>5. txn \in S
      BY DEF S
    <3> QED BY <3>1, <3>4, <3>5
  <2> HIDE DEF S
  <2>2. /\ made' \in Seq(S) /\ Len(made') = Len(made) + 1
        /\ \A i \in 1 .. Len(made) : made'[i] = made[i]
        /\ made'[Len(made) + 1] = txn
    BY <1>2, <2>1, AppendProperties
  <2>3. made' = [i \in 1 .. Len(made') |-> made'[i]]
    BY <2>2
  <2> QED BY <1>n, <2>1, <2>2, <2>3 DEF Txns
<1>9. Txns' = Txns \cup {n} /\ n \notin Txns /\ Txns \subseteq Txns' /\ n # 0
  BY <1>n, <1>1, <1>8 DEF NumbersOK, Txns
<1>10. /\ \A i \in {0} \cup Txns : TxnAt(i)' = TxnAt(i)
       /\ \A id : id[1] \in {0} \cup Txns => CoinOf(id)' = CoinOf(id)
       /\ \A i \in Txns : BuiltOK(i) => BuiltOK(i)'
  <2>1. 0 \notin Txns
    BY DEF Txns
  <2> QED BY <1>8, <1>9, <2>1, BuiltStays
<1>11. NumbersOK'
  <2>1. Len(made') \in Nat /\ made' = [i \in 1 .. Len(made') |-> made'[i]]
    BY <1>n, <1>1, <1>8 DEF NumbersOK
  <2>2. held' \in [Key -> {0} \cup Txns']
    BY <1>1, <1>2, <1>9 DEF NumbersOK
  <2>3. chain' \in Seq(Txns')
    BY <1>1, <1>2, <1>9 DEF NumbersOK
  <2> QED BY <1>1, <1>2, <1>9, <2>1, <2>2, <2>3 DEF NumbersOK
<1>12. MadeOK'
  <2>1. \A i \in Txns : BuiltOK(i)'
    BY <1>1, <1>10 DEF MadeOK
  <2>2. BuiltOK(n)'
    <3>1. PICK ids, w, o : ids = taken /\ w = Worth(ids) /\ o = outs
      OBVIOUS
    <3>2. /\ made'[n].by = k /\ made'[n].ask = ask /\ made'[n].ins = ids /\ made'[n].outs = o
      BY <1>7, <1>8, <3>1
    <3>3. \A id \in ids : Backed(id, k, Source(ask))' /\ CoinOf(id)' = CoinOf(id)
      BY <1>6, <1>9, <1>10, <3>1 DEF Backed
    <3>4. Worth(ids)' = w
      BY <3>1, <3>3 DEF Worth
    <3>5. /\ IsFiniteSet(ids) /\ ids # {} /\ w \in Nat /\ w >= Asked(ask)
          /\ HasShape(k, ask, w - Asked(ask), o) /\ Admissible(ask)
      BY <1>2, <1>3, <1>4, <1>5, <3>1
    <3> QED BY <3>2, <3>3, <3>4, <3>5 DEF BuiltOK
  <2> QED BY <1>9, <2>1, <2>2 DEF MadeOK
<1>13. \A u \in pending : u \in Txns /\ made'[u] = made[u]
  BY <1>1, <1>8 DEF NumbersOK
<1>14. HeldOK'
  <2> DEFINE Good(j, h) ==
               /\ made'[h].by = j /\ h \notin posted
               /\ \A u \in pending : made'[h].ins \cap made'[u].ins # {} => u \in returned
  <2>0. SUFFICES \A j \in Key : held'[j] # 0 => Good(j, held'[j])
    BY <1>2 DEF HeldOK, Shares
  <2> SUFFICES ASSUME NEW j \in Key, NEW h, h = held'[j], h # 0 PROVE Good(j, h)
    OBVIOUS
  <2>1. CASE j = k
    <3>1. h = n
      BY <1>1, <1>2, <2>1 DEF NumbersOK
    <3>2. n \notin posted
      BY <1>1, <1>9 DEF NumbersOK
    <3>3. \A u \in pending : made'[n].ins \cap made'[u].ins = {}
      BY <1>6, <1>7, <1>8, <1>13
    <3> QED BY <1>7, <1>8, <2>1, <3>1, <3>2, <3>3
  <2>2. CASE j # k
    <3>1. h = held[j] /\ h \in Txns /\ made'[h] = made[h]
      BY <1>1, <1>2, <1>8, <2>2 DEF NumbersOK
    <3> QED BY <1>1, <1>13, <3>1 DEF HeldOK, Shares
  <2> QED BY <2>1, <2>2
<1>15. OnePromisePerCoin'
  BY <1>1, <1>2, <1>13 DEF OnePromisePerCoin
<1>16. OnlyDustIsRefused'
  BY <1>1, <1>2, <1>8 DEF OnlyDustIsRefused, NumbersOK
<1>17. ChainOK'
  BY <1>1, <1>2, <1>8, <1>9, ChainStays
<1>18. DiscardedForCause'
  BY <1>1, <1>2 DEF DiscardedForCause
<1> QED BY <1>11, <1>12, <1>14, <1>15, <1>16, <1>17, <1>18 DEF IInv

LEMMA PostKeeps ==
    ASSUME IInv, NEW k \in Key, Post(k)
    PROVE  IInv'
<1>t. PICK t : t = held[k]
  OBVIOUS
<1>1. /\ NumbersOK /\ MadeOK /\ HeldOK /\ ChainOK
      /\ OnePromisePerCoin /\ OnlyDustIsRefused /\ DiscardedForCause
  BY DEF IInv
<1>2. /\ t # 0 /\ held' = [held EXCEPT ![k] = 0]
      /\ \/ posted' = posted \cup {t} /\ pending' = pending \cup {t} /\ refused' = refused
         \/ posted' = posted /\ pending' = pending /\ refused' = refused \cup {t}
      /\ made' = made /\ chain' = chain /\ returned' = returned /\ wronged' = wronged
  BY <1>t DEF Post
<1>3. refused' = refused \/ (refused' = refused \cup {t} /\ ~WellFormed(made[t]))
  BY <1>t DEF Post
<1>4. t \in Txns /\ made[t].by = k /\ \A u \in pending : Shares(t, u) => u \in returned
  BY <1>t, <1>1, <1>2 DEF NumbersOK, HeldOK
<1>5. /\ Txns' = Txns /\ MadeOK' /\ \A x, y : Shares(x, y)' = Shares(x, y)
  BY <1>1, <1>2, MadeStays
<1>6. NumbersOK'
  <2>1. Len(made') \in Nat /\ made' = [i \in 1 .. Len(made') |-> made'[i]]
    BY <1>1, <1>2 DEF NumbersOK
  <2>2. held' \in [Key -> {0} \cup Txns]
    BY <1>1, <1>2 DEF NumbersOK
  <2>3. posted' \subseteq Txns /\ pending' \subseteq posted' /\ refused' \subseteq Txns
    BY <1>1, <1>2, <1>4 DEF NumbersOK
  <2> QED BY <1>1, <1>2, <1>5, <2>1, <2>2, <2>3 DEF NumbersOK
<1>7. HeldOK'
  <2> SUFFICES ASSUME NEW j \in Key, held'[j] # 0
               PROVE  /\ made[held'[j]].by = j /\ held'[j] \notin posted'
                      /\ \A u \in pending' : Shares(held'[j], u) => u \in returned
    BY <1>2, <1>5 DEF HeldOK
  <2>1. j # k /\ held'[j] = held[j] /\ held[j] \in Txns
    BY <1>1, <1>2 DEF NumbersOK
  <2>2. /\ made[held[j]].by = j /\ held[j] \notin posted
        /\ \A u \in pending : Shares(held[j], u) => u \in returned
    BY <1>1, <2>1 DEF HeldOK, NumbersOK, Txns
  <2>3. ~Shares(held[j], t)
    <3>1. \A id \in made[held[j]].ins : CoinOf(id).owner = j
      BY <1>1, <2>1, <2>2 DEF MadeOK, BuiltOK, Backed
    <3>2. \A id \in made[t].ins : CoinOf(id).owner = k
      BY <1>1, <1>4 DEF MadeOK, BuiltOK, Backed
    <3> QED BY <2>1, <3>1, <3>2 DEF Shares
  <2>4. held[j] # t
    BY <1>4, <2>1, <2>2
  <2> QED BY <1>2, <2>1, <2>2, <2>3, <2>4
<1>8. OnePromisePerCoin'
  <2> SUFFICES ASSUME NEW x \in pending', NEW y \in pending', x # y, Shares(x, y)
               PROVE  {x, y} \cap returned # {}
    BY <1>2 DEF OnePromisePerCoin, Shares
  <2>1. Shares(y, x)
    BY DEF Shares
  <2>2. CASE x \in pending /\ y \in pending
    BY <1>1, <2>2 DEF OnePromisePerCoin, Shares
  <2>3. CASE x = t
    BY <1>2, <1>4, <2>3
  <2>4. CASE y = t
    BY <1>2, <1>4, <2>1, <2>4
  <2> QED BY <1>2, <2>2, <2>3, <2>4
<1>9. OnlyDustIsRefused'
  <2>1. CASE refused' = refused
    BY <1>1, <1>2, <2>1 DEF OnlyDustIsRefused
  <2>2. CASE refused' = refused \cup {t} /\ ~WellFormed(made[t])
    <3>1. Cardinality(made[t].ins) \in Nat /\ Cardinality(made[t].ins) # 0
      <4>1. IsFiniteSet(made[t].ins) /\ made[t].ins # {}
        BY <1>1, <1>4 DEF MadeOK, BuiltOK
      <4>2. Cardinality(made[t].ins) \in Nat
        BY <4>1, FS_CardinalityType, Zenon
      <4>3. Cardinality(made[t].ins) # 0
        BY <4>1, FS_EmptySet, Zenon
      <4> QED BY <4>2, <4>3
    <3>2. Len(made[t].outs) \in 1 .. MaxFlows
      BY <1>1, <1>4 DEF MadeOK, BuiltOK, HasShape
    <3>3. Cardinality(made[t].ins) \notin 1 .. MaxFlows
      BY <2>2, <3>2 DEF WellFormed
    <3>4. MaxFlows \in Nat
      BY RulesAssumption
    <3>5. Cardinality(made[t].ins) > MaxFlows
      BY <3>1, <3>3, <3>4
    <3> QED BY <1>1, <1>2, <2>2, <3>5 DEF OnlyDustIsRefused
  <2> QED BY <1>3, <2>1, <2>2
<1>10. ChainOK'
  BY <1>1, <1>2, <1>5, ChainStays
<1>11. DiscardedForCause'
  BY <1>1, <1>2 DEF DiscardedForCause
<1> QED BY <1>5, <1>6, <1>7, <1>8, <1>9, <1>10, <1>11 DEF IInv

LEMMA ReturnKeeps ==
    ASSUME IInv, NEW t \in Txns, Return(t)
    PROVE  IInv'
<1>1. /\ NumbersOK /\ MadeOK /\ HeldOK /\ ChainOK
      /\ OnePromisePerCoin /\ OnlyDustIsRefused /\ DiscardedForCause
  BY DEF IInv
<1>2. /\ t \in posted /\ pending' = pending \cup {t} /\ returned' = returned \cup {t}
      /\ UNCHANGED <<made, held, posted, chain, refused, wronged>>
  BY DEF Return
<1>3. Txns' = Txns /\ MadeOK' /\ \A x, y : Shares(x, y)' = Shares(x, y)
  BY <1>1, <1>2, MadeStays
<1>4. NumbersOK'
  BY <1>1, <1>2, <1>3 DEF NumbersOK
<1>5. HeldOK'
  BY <1>1, <1>2, <1>3 DEF HeldOK
<1>6. OnePromisePerCoin'
  BY <1>1, <1>2 DEF OnePromisePerCoin
<1>7. OnlyDustIsRefused'
  BY <1>1, <1>2 DEF OnlyDustIsRefused
<1>8. ChainOK'
  BY <1>1, <1>2, <1>3, ChainStays
<1>9. DiscardedForCause'
  BY <1>1, <1>2 DEF DiscardedForCause
<1> QED BY <1>3, <1>4, <1>5, <1>6, <1>7, <1>8, <1>9 DEF IInv

(* The chain loses its last transactions, or is extended with one.                  *)
LEMMA ReorgShrinks ==
    ASSUME IInv, NEW n \in 0 .. Len(chain) - 1, Reorg(n)
    PROVE  Shrinks
<1>1. NumbersOK /\ MadeOK /\ ChainOK /\ wronged = {}
  BY DEF IInv, DiscardedForCause
<1>2. /\ chain' = SubSeq(chain, 1, n) /\ chain \in Seq(Txns) /\ Len(chain) \in Nat
      /\ UNCHANGED <<made, held, posted, pending, returned, refused, wronged>>
  BY <1>1 DEF Reorg, NumbersOK
<1>3. /\ chain' \in Seq(Txns) /\ Len(chain') = n /\ n <= Len(chain)
      /\ \A i \in 1 .. n : chain'[i] = chain[i]
  BY <1>2
<1>4. Range(chain') \subseteq Txns
  BY <1>3 DEF Range
<1>5. ChainOK'
  <2> SUFFICES ASSUME NEW m \in 0 .. Len(chain)' PROVE Books(First(chain, m))'
    BY DEF ChainOK
  <2>1. PICK T : T = First(chain, m)
    OBVIOUS
  <2>2. m \in 0 .. Len(chain) /\ T = First(chain, m)'
    BY <1>2, <1>3, <2>1 DEF First
  <2>3. Books(T) /\ T \in SUBSET Txns
    BY <1>1, <2>1, <2>2, FirstAreMade DEF ChainOK
  <2>4. Books(T)'
    BY <1>1, <1>2, <2>3, MadeStays
  <2> QED BY <2>2, <2>4
<1> QED BY <1>1, <1>2, <1>3, <1>4, <1>5 DEF Shrinks, NumbersOK

LEMMA ConfirmShrinks ==
    ASSUME IInv, NEW t \in Txns, NEW live \in BOOLEAN, Confirm(t, live)
    PROVE  Shrinks
<1>1. NumbersOK /\ MadeOK /\ ChainOK /\ wronged = {}
  BY DEF IInv, DiscardedForCause
<1>2. /\ chain' = Append(chain, t) /\ chain \in Seq(Txns) /\ pending' \subseteq pending
      /\ UNCHANGED <<made, held, posted, returned, refused, wronged>>
      /\ t \notin OnChain /\ made[t].ins \subseteq Unspent(OnChain)
  BY <1>1 DEF Confirm, NumbersOK, ValidOn
<1>n. PICK n : n = Len(chain)
  OBVIOUS
<1>3. /\ chain' \in Seq(Txns) /\ Len(chain') = n + 1 /\ n \in Nat
      /\ chain'[n + 1] = t /\ \A i \in 1 .. n : chain'[i] = chain[i]
  BY <1>n, <1>2
<1>4. Range(chain') \subseteq Txns
  BY <1>3 DEF Range
<1>5. PICK T, more : T = First(chain, n) /\ more = T \cup {t}
  OBVIOUS
<1>6. /\ T \in SUBSET Txns /\ Books(T) /\ {0} \cup T = OnChain
  <2>1. n \in 0 .. Len(chain)
    BY <1>n, <1>3
  <2>2. T = Range(chain)
    BY <1>n, <1>2, <1>5 DEF First, Range
  <2> QED BY <1>1, <1>5, <2>1, <2>2, FirstAreMade DEF ChainOK, OnChain
<1>7. Books(more)
  <2>1. t \in Txns \ T /\ made[t].ins \subseteq Unspent({0} \cup T)
    BY <1>2, <1>6
  <2> QED BY <1>1, <1>5, <1>6, <2>1, BooksGrow
<1>8. ChainOK'
  <2> SUFFICES ASSUME NEW m \in 0 .. Len(chain)' PROVE Books(First(chain, m))'
    BY DEF ChainOK
  <2>1. PICK R : R = First(chain, m)'
    OBVIOUS
  <2>2. CASE m = n + 1
    <3>1. R = more
      <4>1. \A i \in 1 .. n + 1 : i \in 1 .. n \/ i = n + 1
        BY <1>3
      <4>2. \A i \in 1 .. n : i \in 1 .. n + 1
        BY <1>3
      <4>3. n + 1 \in 1 .. n + 1
        BY <1>3
      <4> QED BY <1>3, <1>5, <2>1, <2>2, <4>1, <4>2, <4>3 DEF First
    <3>2. R \in SUBSET Txns /\ Books(R)
      BY <1>5, <1>6, <1>7, <3>1
    <3>3. Books(R)'
      BY <1>1, <1>2, <3>2, MadeStays
    <3> QED BY <2>1, <3>3
  <2>3. CASE m \in 0 .. n
    <3>1. R = First(chain, m)
      BY <1>3, <2>1, <2>3 DEF First
    <3>2. R \in SUBSET Txns /\ Books(R)
      BY <1>n, <1>1, <2>3, <3>1, FirstAreMade DEF ChainOK
    <3>3. Books(R)'
      BY <1>1, <1>2, <3>2, MadeStays
    <3> QED BY <2>1, <3>3
  <2> QED BY <1>3, <2>2, <2>3
<1> QED BY <1>1, <1>2, <1>3, <1>4, <1>8 DEF Shrinks, NumbersOK

(* Only the pool changes, and what clients hold.                                    *)
LEMMA PoolShrinks ==
    ASSUME IInv, made' = made, posted' = posted, refused' = refused, returned' = returned,
           pending' \subseteq pending, chain' = chain, wronged' = {},
           held' = held \/ \E k \in Key : held' = [held EXCEPT ![k] = 0]
    PROVE  Shrinks
<1>1. NumbersOK /\ ChainOK
  BY DEF IInv
<1>2. Txns' = Txns /\ ChainOK'
  <2>1. Txns' = Txns
    BY DEF Txns
  <2> QED BY <1>1, <2>1, ChainStays
<1>3. held' \in [Key -> {0} \cup Txns] /\ \A k \in Key : held'[k] \in {0, held[k]}
  BY <1>1 DEF NumbersOK
<1>4. chain' \in Seq(Txns) /\ Range(chain') \subseteq Txns
  BY <1>1 DEF NumbersOK
<1> QED BY <1>2, <1>3, <1>4 DEF Shrinks

(* What is discarded could not be used: what a builder made is valid while its coins are  *)
(* unspent.                                                                  *)
LEMMA DiscardKeeps ==
    ASSUME IInv, NEW t \in Txns, Discard(t) PROVE IInv'
<1>1. MadeOK /\ wronged = {}
  BY DEF IInv, DiscardedForCause
<1>2. ~(made[t].ins \subseteq Unspent(OnChain))
  BY <1>1, UnspentIsValid DEF Discard
<1>3. wronged' = {}
  BY <1>1, <1>2 DEF Discard
<1>4. Shrinks
  BY <1>3, PoolShrinks DEF Discard
<1> QED BY <1>4, ShrinkingKeeps

LEMMA NextKeeps ==
    ASSUME IInv, [Next]_vars PROVE IInv'
<1>0. wronged = {}
  BY DEF IInv, DiscardedForCause
<1>1. ASSUME NEW k \in Key, NEW ask \in Asks[k], NEW relayed \in BOOLEAN, Build(k, ask, relayed)
      PROVE  IInv'
  BY <1>1, BuildKeeps
<1>2. ASSUME NEW k \in Key, Abort(k) PROVE IInv'
  <2>1. Shrinks
    BY <1>0, <1>2, PoolShrinks DEF Abort
  <2> QED BY <2>1, ShrinkingKeeps
<1>3. ASSUME NEW k \in Key, Post(k) PROVE IInv'
  BY <1>3, PostKeeps
<1>4. ASSUME NEW t \in Txns, Return(t) PROVE IInv'
  BY <1>4, ReturnKeeps
<1>5. ASSUME NEW t \in Txns, NEW live \in BOOLEAN, Confirm(t, live) PROVE IInv'
  BY <1>5, ConfirmShrinks, ShrinkingKeeps
<1>6. ASSUME NEW t \in Txns, Discard(t) PROVE IInv'
  BY <1>6, DiscardKeeps
<1>7. ASSUME NEW t \in Txns, Expire(t) PROVE IInv'
  <2>1. Shrinks
    BY <1>0, <1>7, PoolShrinks DEF Expire
  <2> QED BY <2>1, ShrinkingKeeps
<1>8. ASSUME NEW n \in 0 .. Len(chain) - 1, Reorg(n) PROVE IInv'
  BY <1>8, ReorgShrinks, ShrinkingKeeps
<1>9. CASE UNCHANGED vars
  <2>1. Shrinks
    BY <1>0, <1>9, PoolShrinks DEF vars
  <2> QED BY <2>1, ShrinkingKeeps
<1> QED BY <1>1, <1>2, <1>3, <1>4, <1>5, <1>6, <1>7, <1>8, <1>9 DEF Next

(* Before the first transaction an address owns what the genesis gave it.             *)
LEMMA BooksOpen ==
    ASSUME NumbersOK, MadeOK, NEW T, T = {} PROVE Books(T)
<1>1. PICK S : S = {0} \cup T
  OBVIOUS
<1>2. S = {0} /\ TxnAt(0) = Genesis
  BY <1>1 DEF TxnAt
<1>3. Inputs(S) = {} /\ Outputs(S) = Outputs({0})
  BY <1>2, WalletAssumption DEF Inputs, Outputs
<1>4. \A id \in Outputs({0}) : ~CoinOf(id).rescind
  <2>1. \A id \in Outputs({0}) : id[1] = 0 /\ id[2] \in DOMAIN Genesis.outs
    BY <1>2 DEF Outputs
  <2>2. \A i \in DOMAIN Genesis.outs : ~Genesis.outs[i].rescind
    BY WalletAssumption
  <2> QED BY <1>2, <2>1, <2>2 DEF CoinOf
<1>5. ASSUME NEW k \in Key
      PROVE  Worth(OwnedBy(S, k)) = Given0(k) - Moved(Paid(T, k)) + Moved(Got(T, k))
  <2>1. PICK ids, none : ids = {id \in Outputs({0}) : CoinOf(id).owner = k} /\ none = {}
    OBVIOUS
  <2>2. OwnedBy(S, k) = ids
    BY <1>3, <1>4, <2>1 DEF OwnedBy, Unspent
  <2>3. Given0(k) = Worth(ids)
    BY <2>1 DEF Given0
  <2>4. Worth(ids) \in Nat
    <3>1. ids \in SUBSET AllCoins /\ none \in SUBSET AllCoins /\ ids \cap none = {}
      BY <2>1 DEF AllCoins, Outputs
    <3> QED BY <3>1, WorthAdds
  <2>5. Paid(T, k) = none /\ Got(T, k) = none
    BY <2>1 DEF Paid, Got
  <2>6. Moved(none) = 0
    <3>1. PICK f : f = [t \in none |-> Asked(made[t].ask)]
      OBVIOUS
    <3>2. DOMAIN f = {} /\ Moved(none) = SumFunctionOnSet(f, DOMAIN f)
      BY <2>1, <3>1 DEF Moved, SumFunction
    <3> QED BY <3>2, SumOfNone
  <2>7. Moved(Paid(T, k)) = 0 /\ Moved(Got(T, k)) = 0
    BY <2>5, <2>6
  <2> QED BY <2>2, <2>3, <2>4, <2>7
<1> QED BY <1>1, <1>3, <1>5 DEF Books

LEMMA StartIsGood == Init => IInv
<1> SUFFICES ASSUME Init PROVE IInv
  OBVIOUS
<1>1. Txns = {} /\ made = <<>> /\ chain = <<>> /\ Len(chain) = 0
  BY DEF Init, Txns
<1>2. NumbersOK
  <2>1. Len(made) \in Nat /\ made = [n \in 1 .. Len(made) |-> made[n]]
    BY <1>1
  <2>2. chain \in Seq(Txns) /\ Range(chain) \subseteq Txns
    BY <1>1 DEF Range
  <2> QED BY <2>1, <2>2 DEF NumbersOK, Init
<1>3. MadeOK
  BY <1>1 DEF MadeOK
<1>4. ChainOK
  <2> SUFFICES ASSUME NEW n \in 0 .. Len(chain) PROVE Books(First(chain, n))
    BY DEF ChainOK
  <2>1. PICK T : T = First(chain, n)
    OBVIOUS
  <2>2. T = {}
    BY <1>1, <2>1 DEF First
  <2> QED BY <1>2, <1>3, <2>1, <2>2, BooksOpen
<1>5. HeldOK /\ OnePromisePerCoin /\ OnlyDustIsRefused /\ DiscardedForCause
  BY DEF Init, HeldOK, OnePromisePerCoin, OnlyDustIsRefused, DiscardedForCause
<1> QED BY <1>2, <1>3, <1>4, <1>5 DEF IInv

-----------------------------------------------------------------------------
(* IInv is inductive: what a builder returns (chain.py:637-796) has its shape and is      *)
(* backed by coins of its address, a client shares a coin with no pending transaction    *)
(* until a peer gives one back, and the books are right after every transaction of the    *)
(* chain.                                                                     *)
THEOREM WalletIsInductive == Spec => []IInv
<1>1. Init => IInv
  BY StartIsGood
<1>2. IInv /\ [Next]_vars => IInv'
  BY NextKeeps
<1> QED BY <1>1, <1>2, PTL DEF Spec

(* No two pending transactions of a node spend the same coin (models.py:830-839),    *)
(* unless a peer gave one of them back.                                        *)
THEOREM CoinsArePromisedOnce == Spec => []OnePromisePerCoin
<1>1. IInv => OnePromisePerCoin
  BY DEF IInv
<1> QED BY <1>1, WalletIsInductive, PTL

(* A node refuses what its builders make only when the coins are too many for a     *)
(* transaction (transaction.py:222-244).                                       *)
THEOREM RefusalsAreDust == Spec => []OnlyDustIsRefused
<1>1. IInv => OnlyDustIsRefused
  BY DEF IInv
<1> QED BY <1>1, WalletIsInductive, PTL

(* A miller discards what a builder made only because something it consumes is gone  *)
(* (miller.py:89-100): while its coins are unspent, what the builders return          *)
(* (chain.py:637-796) comes out even by the rules that validate it                   *)
(* (chain.py:266-366), whatever was asked for, and in however many coins.            *)
THEOREM DiscardsHaveCause == Spec => []DiscardedForCause
<1>1. IInv => DiscardedForCause
  BY DEF IInv
<1> QED BY <1>1, WalletIsInductive, PTL

(* An address owns what the genesis gave it, less what it asked to pay and to rescind,  *)
(* plus what others asked to pay it (chain.py:637-796), on every chain that blocks and    *)
(* reorganisations bring about: change never goes astray.                         *)
THEOREM AddressesLoseOnlyWhatTheyAsked == Spec => []LosesOnlyWhatItAsked
<1>1. ASSUME IInv PROVE LosesOnlyWhatItAsked
  <2>1. NumbersOK /\ ChainOK
    BY <1>1 DEF IInv
  <2>2. PICK T, S : T = Range(chain) /\ S = OnChain
    OBVIOUS
  <2>3. {0} \cup T = S /\ First(chain, Len(chain)) = T /\ Len(chain) \in 0 .. Len(chain)
    BY <2>1, <2>2 DEF OnChain, First, Range, NumbersOK
  <2>4. Books(T)
    BY <2>1, <2>3 DEF ChainOK
  <2> SUFFICES ASSUME NEW k \in Key
               PROVE  Owned(k) = Given0(k) - Moved(Paid(T, k)) + Moved(Got(T, k))
    BY <2>2 DEF LosesOnlyWhatItAsked, Paid, Got
  <2>5. Worth(OwnedBy({0} \cup T, k)) = Given0(k) - Moved(Paid(T, k)) + Moved(Got(T, k))
    BY <2>4 DEF Books
  <2>6. Owned(k) = Worth(OwnedBy(S, k))
    BY <2>2 DEF Owned, OwnedBy
  <2> QED BY <2>3, <2>5, <2>6
<1> QED BY <1>1, WalletIsInductive, PTL
=============================================================================
