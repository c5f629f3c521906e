---------------------------- MODULE GossipProofs -----------------------------
(***************************************************************************)
(* Proofs about Gossip, for any nodes, peers and block tree, and any faults.  *)
(***************************************************************************)
EXTENDS Gossip, Lemmas, SequenceTheorems

-----------------------------------------------------------------------------
(* The block tree.                                                           *)

(* Heights are bounded.                                                       *)
LEMMA HighestExists ==
    ASSUME Block # {}
    PROVE  \E top \in Nat : \A b \in Block : Idx[b] <= top
<1> DEFINE R == {p \in Block \X Block : Idx[p[1]] >= Idx[p[2]]}
<1>1. \A a, b \in Block : <<a, b>> \in R <=> Idx[a] >= Idx[b]
  OBVIOUS
<1>2. Idx \in [Block -> Nat]
  BY TreeAssumption
<1> HIDE DEF R
<1>3. /\ \A a, b \in Block : a = b \/ <<a, b>> \in R \/ <<b, a>> \in R
      /\ \A a, b, c \in Block : <<a, b>> \in R /\ <<b, c>> \in R => <<a, c>> \in R
  BY <1>1, <1>2
<1>4. PICK a \in Block : \A b \in Block : a = b \/ <<a, b>> \in R
  <2>1. IsFiniteSet(Block)
    BY TreeAssumption
  <2> QED BY <1>3, <2>1, FirstExists
<1>5. ASSUME NEW b \in Block PROVE Idx[b] <= Idx[a]
  <2>1. CASE a = b
    BY <1>2, <2>1
  <2>2. CASE <<a, b>> \in R
    BY <1>1, <1>2, <2>2
  <2> QED BY <1>4, <2>1, <2>2
<1> QED BY <1>2, <1>5

(* The walk to the genesis ends, so the ancestry of a block is what its           *)
(* definition says.                                                          *)
LEMMA LineageIs ==
    ASSUME NEW b \in Block
    PROVE  Lineage[b] = IF Prev[b] = NoBlock THEN <<b>> ELSE Append(Lineage[Prev[b]], b)
<1> DEFINE UpTo(m) == {c \in Block : Idx[c] <= m}
           Step(f, c) == IF Prev[c] = NoBlock THEN <<c>> ELSE Append(f[Prev[c]], c)
           Is(f, m) == \A c \in UpTo(m) : f[c] = Step(f, c)
<1>1. PICK top \in Nat : \A c \in Block : Idx[c] <= top
  BY HighestExists
<1>2. UpTo(top) = Block
  BY <1>1
<1>3. \A c \in Block : /\ Idx[c] \in Nat
                       /\ Prev[c] = NoBlock => Idx[c] = 0
                       /\ Prev[c] # NoBlock => Prev[c] \in Block /\ Idx[c] = Idx[Prev[c]] + 1
  BY TreeAssumption
<1> DEFINE D == {m \in 0 .. top : \E f : Is(f, m) /\ f = [c \in UpTo(m) |-> f[c]]}
<1>4. 0 \in D
  <2> DEFINE f == [c \in UpTo(0) |-> <<c>>]
  <2>1. Is(f, 0) /\ f = [c \in UpTo(0) |-> f[c]]
    BY <1>3
  <2> HIDE DEF Is, f
  <2>2. \E h : Is(h, 0) /\ h = [c \in UpTo(0) |-> h[c]]
    BY <2>1
  <2> QED BY <1>1, <2>2
<1>5. ASSUME NEW m \in 1 .. top, m - 1 \in D PROVE m \in D
  <2>1. PICK f : Is(f, m - 1) /\ f = [c \in UpTo(m - 1) |-> f[c]]
    <3> HIDE DEF Is
    <3> QED BY <1>5
  <2> DEFINE g == [c \in UpTo(m) |-> Step(f, c)]
  <2>2. ASSUME NEW c \in UpTo(m - 1) PROVE c \in UpTo(m) /\ g[c] = f[c]
    <3>1. c \in UpTo(m)
      BY <1>3
    <3> QED BY <2>1, <3>1
  <2>3. ASSUME NEW c \in UpTo(m) PROVE g[c] = Step(g, c)
    <3>1. CASE Prev[c] = NoBlock
      BY <3>1
    <3>2. CASE Prev[c] # NoBlock
      <4>1. Prev[c] \in UpTo(m - 1)
        BY <1>3, <3>2
      <4>2. g[Prev[c]] = f[Prev[c]]
        BY <2>2, <4>1
      <4>3. g[c] = Step(f, c)
        OBVIOUS
      <4> HIDE DEF g
      <4> QED BY <3>2, <4>2, <4>3
    <3> QED BY <3>1, <3>2
  <2>4. g = [c \in UpTo(m) |-> g[c]]
    OBVIOUS
  <2> HIDE DEF g
  <2>5. Is(g, m)
    BY <2>3
  <2> HIDE DEF Is
  <2>6. \E h : Is(h, m) /\ h = [c \in UpTo(m) |-> h[c]]
    BY <2>4, <2>5, Zenon
  <2> QED BY <2>6
<1>6. 0 .. top \subseteq D
  <2> HIDE DEF D
  <2> QED BY <1>1, <1>4, <1>5, InductionUpTo
<1>7. PICK f : Is(f, top) /\ f = [c \in UpTo(top) |-> f[c]]
  <2>1. top \in 0 .. top
    BY <1>1
  <2> HIDE DEF Is
  <2> QED BY <1>6, <2>1, Zenon
<1>8. f = [c \in Block |-> IF Prev[c] = NoBlock THEN <<c>> ELSE Append(f[Prev[c]], c)]
  <2> HIDE DEF UpTo
  <2>1. f = [c \in Block |-> f[c]] /\ \A c \in Block : f[c] = Step(f, c)
    BY <1>2, <1>7
  <2>2. [c \in Block |-> f[c]] = [c \in Block |-> Step(f, c)]
    <3> HIDE DEF Step
    <3> QED BY <2>1, Zenon
  <2> QED BY <2>1, <2>2, Zenon
<1>9. Lineage = [c \in Block |->
                    IF Prev[c] = NoBlock THEN <<c>> ELSE Append(Lineage[Prev[c]], c)]
  BY <1>8, Zenon DEF Lineage
<1> QED BY <1>9

(* What a lineage is: it begins with a genesis and ends with the block, each       *)
(* block at its height, after its parent.                                      *)
LineageOK(b, s) ==
    /\ s \in Seq(Block) /\ Len(s) = Idx[b] + 1 /\ s[Len(s)] = b
    /\ Prev[s[1]] = NoBlock
    /\ \A i \in 1 .. Len(s) : Idx[s[i]] = i - 1
    /\ \A i \in 1 .. Len(s) - 1 : Prev[s[i + 1]] = s[i]

LEMMA LineageFacts ==
    ASSUME NEW b \in Block
    PROVE  LineageOK(b, Lineage[b])
<1> DEFINE D == {m \in 0 .. Idx[b] : \A c \in Block : Idx[c] = m => LineageOK(c, Lineage[c])}
<1>1. \A c \in Block : /\ Idx[c] \in Nat
                       /\ Prev[c] = NoBlock => Idx[c] = 0
                       /\ Prev[c] # NoBlock => Prev[c] \in Block /\ Idx[c] = Idx[Prev[c]] + 1
  BY TreeAssumption
<1>2. ASSUME NEW c \in Block, Prev[c] = NoBlock PROVE LineageOK(c, Lineage[c])
  <2>1. Lineage[c] = <<c>> /\ Idx[c] = 0
    BY <1>1, <1>2, LineageIs
  <2> QED BY <1>2, <2>1 DEF LineageOK
<1>3. ASSUME NEW c \in Block, Prev[c] # NoBlock, LineageOK(Prev[c], Lineage[Prev[c]])
      PROVE  LineageOK(c, Lineage[c])
  <2> PICK q : q = Lineage[Prev[c]]
    OBVIOUS
  <2> PICK s : s = Append(q, c)
    OBVIOUS
  <2>1. Lineage[c] = s
    BY <1>3, LineageIs
  <2>2. Prev[c] \in Block /\ Idx[c] = Idx[Prev[c]] + 1 /\ Idx[Prev[c]] \in Nat
    BY <1>1, <1>3
  <2>3. /\ q \in Seq(Block) /\ Len(q) = Idx[c] /\ Len(q) \in Nat \ {0} /\ q[Len(q)] = Prev[c]
        /\ Prev[q[1]] = NoBlock
        /\ \A i \in 1 .. Len(q) : Idx[q[i]] = i - 1
        /\ \A i \in 1 .. Len(q) - 1 : Prev[q[i + 1]] = q[i]
    BY <1>3, <2>2 DEF LineageOK
  <2>4. /\ s \in Seq(Block) /\ Len(s) = Len(q) + 1 /\ s[Len(q) + 1] = c
        /\ \A i \in 1 .. Len(q) : s[i] = q[i]
    BY <2>3, AppendProperties
  <2>5. Prev[s[1]] = NoBlock
    BY <2>3, <2>4
  <2>6. ASSUME NEW i \in 1 .. Len(s) PROVE Idx[s[i]] = i - 1
    <3>1. CASE i = Len(q) + 1
      BY <2>3, <2>4, <3>1
    <3>2. CASE i # Len(q) + 1
      <4>1. i \in 1 .. Len(q)
        BY <2>3, <2>4, <3>2
      <4> QED BY <2>3, <2>4, <4>1
    <3> QED BY <3>1, <3>2
  <2>7. ASSUME NEW i \in 1 .. Len(s) - 1 PROVE Prev[s[i + 1]] = s[i]
    <3>0. i \in 1 .. Len(q) /\ s[i] = q[i]
      BY <2>3, <2>4
    <3>1. CASE i = Len(q)
      BY <2>3, <2>4, <3>0, <3>1
    <3>2. CASE i # Len(q)
      <4>1. i \in 1 .. Len(q) - 1 /\ i + 1 \in 1 .. Len(q)
        BY <2>3, <3>0, <3>2
      <4>2. s[i + 1] = q[i + 1]
        BY <2>4, <4>1
      <4> QED BY <2>3, <3>0, <4>1, <4>2
    <3> QED BY <3>1, <3>2
  <2>8. Len(s) = Idx[c] + 1 /\ s[Len(s)] = c
    BY <2>3, <2>4
  <2> QED BY <2>1, <2>4, <2>5, <2>6, <2>7, <2>8 DEF LineageOK
<1>4. ASSUME NEW c \in Block, Prev[c] # NoBlock => LineageOK(Prev[c], Lineage[Prev[c]])
      PROVE  LineageOK(c, Lineage[c])
  BY <1>2, <1>3, <1>4
<1>5. 0 \in D
  <2>1. ASSUME NEW c \in Block, Idx[c] = 0 PROVE LineageOK(c, Lineage[c])
    <3>1. Prev[c] = NoBlock
      BY <1>1, <2>1
    <3> QED BY <1>2, <3>1
  <2> QED BY <1>1, <2>1
<1>6. ASSUME NEW m \in 1 .. Idx[b], m - 1 \in D PROVE m \in D
  <2>1. ASSUME NEW c \in Block, Idx[c] = m PROVE LineageOK(c, Lineage[c])
    <3>1. ASSUME Prev[c] # NoBlock PROVE LineageOK(Prev[c], Lineage[Prev[c]])
      <4>1. Prev[c] \in Block /\ Idx[Prev[c]] = m - 1
        BY <1>1, <2>1, <3>1
      <4> QED BY <1>6, <4>1
    <3> QED BY <1>4, <3>1
  <2> QED BY <2>1
<1>7. 0 .. Idx[b] \subseteq D
  <2> HIDE DEF D
  <2> QED BY <1>1, <1>5, <1>6, InductionUpTo
<1>8. Idx[b] \in D
  BY <1>1, <1>7
<1> QED BY <1>8

(* The canonical tip is a block the node stores, if it stores one.              *)
LEMMA TipFacts ==
    ASSUME NEW S
    PROVE  /\ S \cap Block = {} => Tip(S) = NoBlock /\ Height(S) = -1
           /\ S \cap Block # {} => /\ Tip(S) \in S \cap Block /\ Tip(S) # NoBlock
                                  /\ Height(S) = Idx[Tip(S)]
<1>0. NoBlock \notin Block
  BY GossipAssumption DEF Item
<1>1. CASE S \cap Block = {}
  BY <1>1 DEF Tip, Height
<1>2. CASE S \cap Block # {}
  <2> DEFINE B == S \cap Block
             R == {p \in Block \X Block : Better(p[1], p[2])}
  <2>1. \A a, b \in B : <<a, b>> \in R <=> Better(a, b)
    OBVIOUS
  <2>2. \A b \in B : b \in Block /\ Idx[b] \in Nat /\ Rank[b] \in Nat
    BY TreeAssumption
  <2>3. ASSUME NEW a \in B, NEW b \in B PROVE a = b \/ Better(a, b) \/ Better(b, a)
    <3>1. a # b /\ Idx[a] = Idx[b] => Rank[a] # Rank[b]
      BY TreeAssumption
    <3>2. Idx[a] \in Nat /\ Idx[b] \in Nat /\ Rank[a] \in Nat /\ Rank[b] \in Nat
      BY <2>2
    <3> QED BY <3>1, <3>2 DEF Better
  <2>4. ASSUME NEW a \in B, NEW b \in B, NEW c \in B, Better(a, b), Better(b, c)
        PROVE  Better(a, c)
    <3>1. /\ Idx[a] \in Nat /\ Idx[b] \in Nat /\ Idx[c] \in Nat
          /\ Rank[a] \in Nat /\ Rank[b] \in Nat /\ Rank[c] \in Nat
      BY <2>2
    <3> QED BY <2>4, <3>1 DEF Better
  <2>5. IsFiniteSet(B) /\ B # {}
    BY <1>2, TreeAssumption, FS_Subset
  <2> HIDE DEF B, R
  <2>6. PICK a \in B : \A b \in B : a = b \/ <<a, b>> \in R
    <3>1. \A a, b \in B : a = b \/ <<a, b>> \in R \/ <<b, a>> \in R
      BY <2>1, <2>3
    <3>2. \A a, b, c \in B : <<a, b>> \in R /\ <<b, c>> \in R => <<a, c>> \in R
      BY <2>1, <2>4
    <3> QED BY <2>5, <3>1, <3>2, FirstExists
  <2>7. \A b \in B : b = a \/ Better(a, b)
    BY <2>1, <2>6
  <2>8. Tip(S) \in B
    <3>1. Tip(S) = CHOOSE b \in B : \A c \in B : c = b \/ Better(b, c)
      BY <1>2 DEF Tip, B
    <3> HIDE DEF Better
    <3> QED BY <2>6, <2>7, <3>1
  <2> QED BY <1>0, <1>2, <2>2, <2>8 DEF Height, B
<1> QED BY <1>1, <1>2

(* A set of blocks that holds every parent holds every ancestry.                *)
LEMMA ParentsAreAncestors ==
    ASSUME NEW S, \A b \in S \cap Block : Prev[b] # NoBlock => Prev[b] \in S,
           NEW b \in S \cap Block
    PROVE  Range(Branch(b)) \subseteq S
<1> PICK s : s = Lineage[b]
  OBVIOUS
<1>1. /\ s \in Seq(Block) /\ Len(s) = Idx[b] + 1 /\ s[Len(s)] = b
      /\ \A i \in 1 .. Len(s) - 1 : Prev[s[i + 1]] = s[i]
  BY LineageFacts DEF LineageOK
<1>2. Len(s) \in Nat \ {0} /\ NoBlock \notin Block
  BY <1>1, TreeAssumption, GossipAssumption DEF Item
<1> DEFINE n == Len(s) - 1
           D == {k \in 0 .. n : s[Len(s) - k] \in S}
<1>3. 0 \in D
  BY <1>1, <1>2
<1>4. ASSUME NEW k \in 1 .. n, k - 1 \in D PROVE k \in D
  <2> PICK i : i = Len(s) - k
    OBVIOUS
  <2>0. i \in 1 .. n /\ k = Len(s) - i
    BY <1>2
  <2>1. s[i + 1] \in S /\ s[i + 1] \in Block /\ s[i] \in Block /\ Prev[s[i + 1]] = s[i]
    <3>1. i + 1 = Len(s) - (k - 1) /\ i + 1 \in 1 .. Len(s) /\ i \in 1 .. Len(s)
      BY <1>2, <2>0
    <3>2. s[i + 1] \in S
      BY <1>4, <3>1
    <3>3. s[i + 1] \in Block /\ s[i] \in Block
      BY <1>1, <3>1, ElementOfSeq
    <3>4. Prev[s[i + 1]] = s[i]
      BY <1>1, <2>0
    <3> QED BY <3>2, <3>3, <3>4
  <2>2. s[i] \in S
    BY <1>2, <2>1
  <2> QED BY <1>2, <2>0, <2>2
<1>5. 0 .. n \subseteq D
  <2>1. n \in Nat
    BY <1>2
  <2> HIDE DEF D, n
  <2> QED BY <1>3, <1>4, <2>1, InductionUpTo
<1>6. ASSUME NEW i \in 1 .. Len(s) PROVE s[i] \in S
  <2>1. Len(s) - i \in 0 .. n /\ Len(s) - (Len(s) - i) = i
    BY <1>2
  <2> QED BY <1>5, <2>1
<1>7. Branch(b) = s
  BY <1>2 DEF Branch
<1> QED BY <1>1, <1>6, <1>7 DEF Range

(* The other way around: an ancestry holds the parent of each of its blocks.     *)
LEMMA AncestryHoldsParents ==
    ASSUME NEW b \in Block
    PROVE  /\ Range(Branch(b)) \subseteq Block /\ b \in Range(Branch(b))
           /\ \A c \in Range(Branch(b)) : Prev[c] # NoBlock => Prev[c] \in Range(Branch(b))
<1> PICK s : s = Lineage[b]
  OBVIOUS
<1>1. LineageOK(b, s) /\ Len(s) \in Nat \ {0}
  <2>1. LineageOK(b, s) /\ Idx[b] \in Nat
    BY LineageFacts, TreeAssumption
  <2> QED BY <2>1 DEF LineageOK
<1>2. Branch(b) = s
  BY GossipAssumption DEF Branch, Item
<1>3. Range(s) = {s[i] : i \in 1 .. Len(s)}
  BY <1>1 DEF LineageOK, Range
<1>4. Range(s) \subseteq Block /\ b \in Range(s)
  BY <1>1, <1>3 DEF LineageOK
<1>5. ASSUME NEW c \in Range(s), Prev[c] # NoBlock PROVE Prev[c] \in Range(s)
  <2>1. PICK i \in 1 .. Len(s) : c = s[i]
    BY <1>3
  <2>2. i # 1
    BY <1>1, <1>5, <2>1 DEF LineageOK
  <2>3. i - 1 \in 1 .. Len(s) - 1 /\ i - 1 \in 1 .. Len(s) /\ (i - 1) + 1 = i
    BY <1>1, <2>2
  <2>4. Prev[c] = s[i - 1]
    BY <1>1, <2>1, <2>3 DEF LineageOK
  <2> QED BY <1>3, <2>3, <2>4
<1> QED BY <1>2, <1>4, <1>5

(* A batch of an ancestry links, and begins above the block before it.            *)
BatchOK(s, next, bs) ==
    /\ bs \in Seq(Block)
    /\ \A i \in 1 .. Len(bs) - 1 : Prev[bs[i + 1]] = bs[i]
    /\ bs # <<>> => Prev[bs[1]] = IF next = 0 THEN NoBlock ELSE s[next]

LEMMA BatchFacts ==
    ASSUME NEW b \in Block, NEW next \in Nat
    PROVE  BatchOK(Branch(b), next, BatchOf(Branch(b), next))
<1>s. PICK s : s = Lineage[b]
  OBVIOUS
<1>2. Branch(b) = s
  BY <1>s, GossipAssumption DEF Branch, Item
<1>l. PICK len : len = Len(s)
  OBVIOUS
<1>1. /\ s \in Seq(Block) /\ len \in Nat \ {0} /\ Prev[s[1]] = NoBlock
      /\ \A i \in 1 .. len : s[i] \in Block /\ Idx[s[i]] = i - 1
      /\ \A i \in 1 .. len - 1 : Prev[s[i + 1]] = s[i]
  <2>1. LineageOK(b, s) /\ Idx[b] \in Nat
    BY <1>s, LineageFacts, TreeAssumption
  <2> QED BY <1>l, <2>1 DEF LineageOK
<1>m. PICK last : last = Min({next + Batch, len})
  OBVIOUS
<1>3. last \in Nat /\ last <= len
  <2>m. PICK most \in Nat : most = next + Batch
    BY GossipAssumption
  <2>1. last = CHOOSE x \in {most, len} : \A y \in {most, len} : x <= y
    BY <1>m, <2>m DEF Min
  <2>2. \E x \in {most, len} : \A y \in {most, len} : x <= y
    BY <1>1
  <2>3. last \in {most, len} /\ \A y \in {most, len} : last <= y
    BY <2>1, <2>2
  <2> QED BY <1>1, <2>3
<1>b. PICK bs : bs = SubSeq(s, next + 1, last)
  OBVIOUS
<1>z. PICK size : size = IF next + 1 <= last THEN last - next ELSE 0
  OBVIOUS
<1>4. bs \in Seq(Block) /\ Len(bs) = size /\ \A i \in 1 .. size : bs[i] = s[next + i]
  <2>1. ASSUME NEW i \in next + 1 .. last PROVE s[i] \in Block
    <3>1. i \in 1 .. len
      BY <1>1, <1>3
    <3> QED BY <1>1, <3>1
  <2>2. /\ bs \in Seq(Block)
        /\ Len(bs) = IF next + 1 <= last THEN last - (next + 1) + 1 ELSE 0
        /\ \A i \in 1 .. last - (next + 1) + 1 : bs[i] = s[(next + 1) + i - 1]
    <3>1. next + 1 \in Int /\ last \in Int
      BY <1>3
    <3> QED BY <1>b, <2>1, <3>1, SubSeqProperties
  <2>3. Len(bs) = size
    BY <1>3, <1>z, <2>2
  <2>4. ASSUME NEW i \in 1 .. size PROVE bs[i] = s[next + i]
    <3>1. i \in 1 .. last - (next + 1) + 1 /\ (next + 1) + i - 1 = next + i
      BY <1>3, <1>z
    <3> QED BY <2>2, <3>1
  <2> QED BY <2>2, <2>3, <2>4
<1>5. size \in Nat /\ len \in Nat /\ \A i \in 1 .. size : next + i \in 1 .. len
  <2>1. len \in Nat
    BY <1>1
  <2> QED BY <1>3, <1>z, <2>1
<1>7. ASSUME NEW i \in 1 .. size - 1 PROVE Prev[bs[i + 1]] = bs[i]
  <2>1. i \in 1 .. size /\ i + 1 \in 1 .. size /\ next + (i + 1) = (next + i) + 1
    BY <1>5
  <2>2. bs[i] = s[next + i] /\ bs[i + 1] = s[(next + i) + 1]
    BY <1>4, <2>1
  <2>3. next + i \in 1 .. len /\ next + i \in 1 .. len - 1
    <3>1. next + (i + 1) \in 1 .. len
      BY <1>5, <2>1
    <3> QED BY <1>5, <2>1, <3>1
  <2>4. Prev[s[(next + i) + 1]] = s[next + i]
    BY <1>1, <2>3
  <2> QED BY <2>2, <2>4
<1>8. ASSUME bs # <<>>
      PROVE  Prev[bs[1]] = IF next = 0 THEN NoBlock ELSE s[next]
  <2>1. 1 \in 1 .. size
    <3>1. size # 0
      BY <1>4, <1>8, EmptySeq
    <3> QED BY <1>5, <3>1
  <2>2. bs[1] = s[next + 1] /\ next + 1 \in 1 .. len
    BY <1>4, <1>5, <2>1
  <2>3. CASE next = 0
    BY <1>1, <2>2, <2>3
  <2>4. CASE next # 0
    <3>1. next \in 1 .. len - 1 /\ next \in 1 .. len
      BY <1>5, <2>2, <2>4
    <3>2. Prev[s[next + 1]] = s[next]
      BY <1>1, <3>1
    <3> QED BY <2>2, <2>4, <3>1, <3>2
  <2> QED BY <2>3, <2>4
<1>9. BatchOK(s, next, bs)
  BY <1>4, <1>7, <1>8 DEF BatchOK
<1>10. bs = BatchOf(s, next)
  BY <1>b, <1>l, <1>m DEF BatchOf
<1> QED BY <1>2, <1>9, <1>10

(* A batch that is fetched above a tip goes on from it, when the peer's chain has   *)
(* that tip.                                                                 *)
Above(x) == IF x = NoBlock THEN 0 ELSE Idx[x] + 1

LEMMA BatchGoesOn ==
    ASSUME NEW b \in Block, NEW tip \in Range(Branch(b)) \cup {NoBlock}, NEW bs,
           BatchOK(Branch(b), Above(tip), bs), bs # <<>>
    PROVE  Prev[bs[1]] = tip
<1>s. PICK s : s = Lineage[b]
  OBVIOUS
<1>0. NoBlock \notin Block
  BY GossipAssumption DEF Item
<1>1. Branch(b) = s
  BY <1>s, <1>0 DEF Branch
<1>2. LineageOK(b, s) /\ Len(s) \in Nat
  <2>1. LineageOK(b, s) /\ Idx[b] \in Nat
    BY <1>s, LineageFacts, TreeAssumption
  <2> QED BY <2>1 DEF LineageOK
<1>3. CASE tip = NoBlock
  BY <1>3 DEF Above, BatchOK
<1>4. CASE tip # NoBlock
  <2>1. PICK k \in 1 .. Len(s) : tip = s[k]
    BY <1>1, <1>2, <1>4 DEF Range, LineageOK
  <2>2. Idx[tip] = k - 1
    BY <1>2, <2>1 DEF LineageOK
  <2>3. Above(tip) = k /\ k # 0
    BY <1>2, <1>4, <2>1, <2>2 DEF Above
  <2>4. Prev[bs[1]] = s[k]
    BY <1>1, <2>3 DEF BatchOK
  <2> QED BY <2>1, <2>4
<1> QED BY <1>3, <1>4


-----------------------------------------------------------------------------
(* The inductive invariant.                                                   *)
ThreadId == [at : Node, item : Item, by : {"post", "job", "mine", "poll"}]
Request == [id : ThreadId, to : Node, item : Item, visited : SUBSET Node]
Fill == [op : {"walk", "push"}, peer : Node, blocks : Seq(Item), tries : Nat]
Thread == [todo : Seq(Node), visited : SUBSET Node, fill : {None} \cup Fill,
           call : {None} \cup Request, reply : {None} \cup Request]
Job == [at : Node, item : Item, visited : SUBSET Node]
Poll == [op : {"tip"}, peer : Node, block : Block]
Sync == [op : {"fetch"}, peer : Node, last : Int, todo : Seq(Block),
         onto : Block \cup {NoBlock}, ahead : BOOLEAN]

(* A block is stored after its parent.                                        *)
StoreInv ==
    /\ stored \in [Node -> SUBSET Item]
    /\ \A n \in Node : \A b \in stored[n] \cap Block :
          Prev[b] # NoBlock => Prev[b] \in stored[n]

(* A host that is named as visited has the item, or has announced it in vain.   *)
Has(n, x) == x \in stored[n] \/ <<n, x>> \in vain
Promise(x, hosts) == \A n \in hosts : Has(n, x)

(* A thread may name its own node as visited, and whoever it was told has the     *)
(* item; what it feeds a peer its own node has, and when it waits for an answer    *)
(* to a parent, that parent is there.                                          *)
ThreadOK(id, th) ==
    /\ id.at \in th.visited /\ Promise(id.item, th.visited)
    /\ th.fill # None =>
          /\ \A i \in 1 .. Len(th.fill.blocks) : Has(id.at, th.fill.blocks[i])
          /\ th.fill.op = "walk" \/ th.call # None => th.fill.blocks # <<>>
          /\ th.fill.op = "walk" /\ th.call # None =>
                 Prev[Head(th.fill.blocks)] \in stored[id.at]

ThreadInv ==
    /\ DOMAIN threads \subseteq ThreadId /\ threads \in [DOMAIN threads -> Thread]
    /\ \A id \in DOMAIN threads : ThreadOK(id, threads[id])

RequestInv == requests \subseteq Request /\ \A r \in requests : Promise(r.item, r.visited)
AnswerInv == \A a \in answers : a.req # None
JobInv == jobs \subseteq Job /\ \A j \in jobs : Promise(j.item, j.visited)

(* What a poll found is where it was found.                                    *)
PollInv ==
    /\ poll \in [Node -> {None} \cup Poll]
    /\ \A n \in Node : poll[n] # None => poll[n].block \in stored[poll[n].peer]

(* What is left of a batch links; while the peer is ahead, it goes on from where   *)
(* the sync is, which is beyond where the batch began once a block is taken.      *)
SyncOK(s) ==
    /\ \A i \in 1 .. Len(s.todo) - 1 : Prev[s.todo[i + 1]] = s.todo[i]
    /\ s.ahead => IF s.todo = <<>> THEN Above(s.onto) > s.last
                  ELSE Above(s.onto) >= s.last /\ Prev[s.todo[1]] = s.onto
SyncInv ==
    /\ sync \in [Node -> {None} \cup Sync]
    /\ \A n \in Node : sync[n] # None => SyncOK(sync[n])

IInv == /\ StoreInv /\ ThreadInv /\ RequestInv /\ AnswerInv /\ JobInv /\ PollInv
        /\ SyncInv /\ OnlyForksDiverge

-----------------------------------------------------------------------------
(* No database forgets, and an announcement in vain stays one.                 *)
StoreGrows == (\A n \in Node : stored[n] \subseteq stored'[n]) /\ vain \subseteq vain'

LEMMA GrowthKeeps ==
    ASSUME StoreGrows
    PROVE  /\ \A n \in Node : \A x : Has(n, x) => Has(n, x)'
           /\ \A hosts \in SUBSET Node : \A x : Promise(x, hosts) => Promise(x, hosts)'
           /\ \A id \in ThreadId : \A th \in Thread : ThreadOK(id, th) => ThreadOK(id, th)'
<1>1. \A n \in Node : \A x : Has(n, x) => Has(n, x)'
  BY DEF StoreGrows, Has
<1>2. \A hosts \in SUBSET Node : \A x : Promise(x, hosts) => Promise(x, hosts)'
  BY <1>1 DEF Promise
<1>3. ASSUME NEW id \in ThreadId, NEW th \in Thread, ThreadOK(id, th) PROVE ThreadOK(id, th)'
  <2>1. id.at \in Node /\ th.visited \in SUBSET Node
    BY DEF ThreadId, Thread
  <2>2. id.at \in th.visited /\ Promise(id.item, th.visited)'
    BY <1>2, <1>3, <2>1 DEF ThreadOK
  <2>3. ASSUME th.fill # None
        PROVE  /\ \A i \in 1 .. Len(th.fill.blocks) : Has(id.at, th.fill.blocks[i])'
               /\ th.fill.op = "walk" \/ th.call # None => th.fill.blocks # <<>>
               /\ th.fill.op = "walk" /\ th.call # None =>
                      Prev[Head(th.fill.blocks)] \in stored'[id.at]
    <3>1. stored[id.at] \subseteq stored'[id.at]
      BY <2>1 DEF StoreGrows
    <3> HIDE DEF Has
    <3> QED BY <1>1, <1>3, <2>1, <2>3, <3>1 DEF ThreadOK
  <2> QED BY <2>2, <2>3 DEF ThreadOK
<1> QED BY <1>1, <1>2, <1>3

(* What a step leaves alone, or only takes from, stays as it should be.          *)
LEMMA RestKept ==
    ASSUME IInv, StoreGrows
    PROVE  /\ threads' = threads => ThreadInv'
           /\ requests' \subseteq requests => RequestInv'
           /\ jobs' \subseteq jobs => JobInv'
           /\ poll' = poll => PollInv'
           /\ sync' = sync => SyncInv'
           /\ stored' = stored => StoreInv'
           /\ answers' = answers => AnswerInv'
<1>1. ASSUME threads' = threads PROVE ThreadInv'
  <2>1. ASSUME NEW id \in DOMAIN threads PROVE ThreadOK(id, threads[id])'
    <3> PICK th : th = threads[id]
      OBVIOUS
    <3>1. id \in ThreadId /\ th \in Thread /\ ThreadOK(id, th)
      BY DEF IInv, ThreadInv
    <3>2. ThreadOK(id, th)'
      BY <3>1, GrowthKeeps
    <3>3. th = threads'[id]
      BY <1>1
    <3> QED BY <3>2, <3>3 DEF ThreadOK
  <2> QED BY <1>1, <2>1 DEF IInv, ThreadInv
<1>2. ASSUME requests' \subseteq requests PROVE RequestInv'
  <2>1. ASSUME NEW r \in requests' PROVE Promise(r.item, r.visited)'
    <3>1. r \in Request /\ Promise(r.item, r.visited)
      BY <1>2 DEF IInv, RequestInv
    <3>2. r.visited \in SUBSET Node
      BY <3>1 DEF Request
    <3> QED BY <3>1, <3>2, GrowthKeeps
  <2> QED BY <1>2, <2>1 DEF IInv, RequestInv
<1>3. ASSUME jobs' \subseteq jobs PROVE JobInv'
  <2>1. ASSUME NEW j \in jobs' PROVE Promise(j.item, j.visited)'
    <3>1. j \in Job /\ Promise(j.item, j.visited)
      BY <1>3 DEF IInv, JobInv
    <3>2. j.visited \in SUBSET Node
      BY <3>1 DEF Job
    <3> QED BY <3>1, <3>2, GrowthKeeps
  <2> QED BY <1>3, <2>1 DEF IInv, JobInv
<1>4. ASSUME poll' = poll PROVE PollInv'
  <2>1. ASSUME NEW n \in Node, poll[n] # None PROVE poll[n].block \in stored'[poll[n].peer]
    <3>1. poll[n] \in Poll /\ poll[n].block \in stored[poll[n].peer]
      BY <2>1 DEF IInv, PollInv
    <3>2. poll[n].peer \in Node
      BY <3>1 DEF Poll
    <3> QED BY <3>1, <3>2 DEF StoreGrows
  <2> QED BY <1>4, <2>1 DEF IInv, PollInv
<1>5. ASSUME sync' = sync PROVE SyncInv'
  BY <1>5 DEF IInv, SyncInv
<1>6. ASSUME stored' = stored PROVE StoreInv'
  BY <1>6 DEF IInv, StoreInv
<1>7. ASSUME answers' = answers PROVE AnswerInv'
  BY <1>7 DEF IInv, AnswerInv
<1> QED BY <1>1, <1>2, <1>3, <1>4, <1>5, <1>6, <1>7

-----------------------------------------------------------------------------
(* The three ways in which a step changes the threads.                         *)

(* A thread starts, in place of one with its id if there is one.                *)
LEMMA StartKeeps ==
    ASSUME IInv, StoreGrows, NEW n \in Node, NEW x \in Item, NEW hosts \in SUBSET Node,
           NEW reply \in {None} \cup Request,
           NEW by \in {"post", "job", "mine", "poll"},
           Promise(x, hosts \cup {n})',
           Start(Id(n, x, by), Sender(n, hosts, reply))
    PROVE  ThreadInv'
<1> PICK id : id = Id(n, x, by)
  OBVIOUS
<1> PICK th : th = Sender(n, hosts, reply)
  OBVIOUS
<1>1. id \in ThreadId /\ id.at = n /\ id.item = x
  BY DEF Id, ThreadId
<1>2. Peers[n] \in Seq(Node)
  BY GossipAssumption
<1>3. th \in Thread /\ th.visited = hosts \cup {n} /\ th.fill = None
  BY <1>2 DEF Sender, Thread
<1>4. ThreadOK(id, th)'
  BY <1>1, <1>3 DEF ThreadOK
<1>5. threads' = [i \in DOMAIN threads \cup {id} |-> IF i = id THEN th ELSE threads[i]]
  BY DEF Start
<1>6. ASSUME NEW i \in DOMAIN threads' PROVE i \in ThreadId /\ (threads[i] \in Thread /\ ThreadOK(i, threads[i]))'
  <2>1. CASE i = id
    <3>1. threads'[i] = th
      BY <1>5, <2>1
    <3> QED BY <1>1, <1>3, <1>4, <2>1, <3>1 DEF ThreadOK
  <2>2. CASE i # id
    <3>1. i \in DOMAIN threads /\ threads'[i] = threads[i]
      BY <1>5, <2>2
    <3> PICK old : old = threads[i]
      OBVIOUS
    <3>2. i \in ThreadId /\ old \in Thread /\ ThreadOK(i, old)
      BY <3>1 DEF IInv, ThreadInv
    <3>3. ThreadOK(i, old)'
      BY <3>2, GrowthKeeps
    <3> QED BY <3>1, <3>2, <3>3 DEF ThreadOK
  <2> QED BY <2>1, <2>2
<1>7. threads' = [i \in DOMAIN threads' |-> threads'[i]]
  BY <1>5
<1> QED BY <1>6, <1>7 DEF ThreadInv

(* A thread takes a step.                                                    *)
LEMMA UpdateKeeps ==
    ASSUME IInv, StoreGrows, NEW id \in DOMAIN threads, NEW th \in Thread,
           ThreadOK(id, th)', Update(id, th)
    PROVE  ThreadInv'
<1>1. /\ DOMAIN threads' = DOMAIN threads /\ threads'[id] = th
      /\ \A i \in DOMAIN threads : i # id => threads'[i] = threads[i]
      /\ threads' = [i \in DOMAIN threads' |-> threads'[i]]
  BY DEF Update, IInv, ThreadInv
<1>2. ASSUME NEW i \in DOMAIN threads' PROVE i \in ThreadId /\ (threads[i] \in Thread /\ ThreadOK(i, threads[i]))'
  <2> PICK old : old = threads[i]
    OBVIOUS
  <2>1. i \in ThreadId /\ old \in Thread /\ ThreadOK(i, old)
    BY <1>1 DEF IInv, ThreadInv
  <2>2. CASE i = id
    BY <1>1, <2>1, <2>2 DEF ThreadOK
  <2>3. CASE i # id
    <3>1. ThreadOK(i, old)' /\ threads'[i] = old
      BY <1>1, <2>1, <2>3, GrowthKeeps
    <3> QED BY <2>1, <3>1 DEF ThreadOK
  <2> QED BY <2>2, <2>3
<1> QED BY <1>1, <1>2 DEF ThreadInv

(* Threads end.                                                              *)
LEMMA EndKeeps ==
    ASSUME IInv, StoreGrows, NEW ids, threads' = [id \in DOMAIN threads \ ids |-> threads[id]]
    PROVE  ThreadInv'
<1>1. ASSUME NEW i \in DOMAIN threads' PROVE i \in ThreadId /\ (threads[i] \in Thread /\ ThreadOK(i, threads[i]))'
  <2> PICK old : old = threads[i]
    OBVIOUS
  <2>1. i \in ThreadId /\ old \in Thread /\ ThreadOK(i, old) /\ threads'[i] = old
    BY DEF IInv, ThreadInv
  <2>2. ThreadOK(i, old)'
    BY <2>1, GrowthKeeps
  <2> QED BY <2>1, <2>2 DEF ThreadOK
<1>2. threads' = [i \in DOMAIN threads' |-> threads'[i]]
  OBVIOUS
<1> QED BY <1>1, <1>2 DEF ThreadInv

-----------------------------------------------------------------------------
(* What the steps add to the traffic.                                          *)
LEMMA PostKeeps ==
    ASSUME IInv, StoreGrows, NEW r \in Request, Promise(r.item, r.visited),
           requests' = requests \cup {r}
    PROVE  RequestInv'
<1>1. ASSUME NEW q \in requests' PROVE q \in Request /\ Promise(q.item, q.visited)'
  <2>1. q \in Request /\ Promise(q.item, q.visited)
    BY DEF IInv, RequestInv
  <2>2. q.visited \in SUBSET Node
    BY <2>1 DEF Request
  <2> QED BY <2>1, <2>2, GrowthKeeps
<1> QED BY <1>1 DEF RequestInv

LEMMA TaskKeeps ==
    ASSUME IInv, StoreGrows, NEW n \in Node, NEW x \in Item, NEW hosts \in SUBSET Node,
           Promise(x, hosts),
           jobs' = jobs \cup {[at |-> n, item |-> x, visited |-> hosts]}
    PROVE  JobInv'
<1>1. ASSUME NEW j \in jobs' PROVE j \in Job /\ Promise(j.item, j.visited)'
  <2>1. j \in Job /\ Promise(j.item, j.visited)
    BY DEF IInv, JobInv, Job
  <2>2. j.visited \in SUBSET Node
    BY <2>1 DEF Job
  <2> QED BY <2>1, <2>2, GrowthKeeps
<1> QED BY <1>1 DEF JobInv

LEMMA AnswerKeeps ==
    ASSUME IInv, NEW r, NEW status, answers' = answers \cup Answer(r, status)
    PROVE  AnswerInv'
<1>1. \A a \in Answer(r, status) : a.req # None
  BY DEF Answer
<1> QED BY <1>1 DEF IInv, AnswerInv

(* What a thread makes of an answer.                                          *)
LEMMA AnsweredThread ==
    ASSUME IInv, NEW id \in DOMAIN threads, Waiting(id), NEW status,
           NEW th, th = [threads[id] EXCEPT !.call = None, !.fill = AfterAnswer(id, status)]
    PROVE  th \in Thread /\ ThreadOK(id, th)
<1> PICK t : t = threads[id]
  OBVIOUS
<1> PICK f : f = t.fill
  OBVIOUS
<1> PICK g : g = AfterAnswer(id, status)
  OBVIOUS
<1>1. /\ id \in ThreadId /\ id.at \in Node /\ id.item \in Item
      /\ t \in Thread /\ ThreadOK(id, t) /\ t.call \in Request /\ t.call # None
  <2>1. id \in ThreadId /\ t \in Thread /\ ThreadOK(id, t) /\ t.call # None
    BY DEF IInv, ThreadInv, Waiting
  <2>2. id.at \in Node /\ id.item \in Item /\ t.call \in {None} \cup Request
    BY <2>1 DEF ThreadId, Thread
  <2> QED BY <2>1, <2>2
<1>2. f \in {None} \cup Fill
  BY <1>1 DEF Thread
<1> DEFINE Good(h) == h # None =>
              /\ h \in Fill
              /\ \A i \in 1 .. Len(h.blocks) : Has(id.at, h.blocks[i])
              /\ h.op = "walk" => h.blocks # <<>>
<1>3. Good(g)
  <2>1. CASE f = None
    <3>1. Has(id.at, id.item)
      BY <1>1 DEF ThreadOK, Promise
    <3>2. t.call.to \in Node
      BY <1>1 DEF Request
    <3>b. PICK bs : bs = <<id.item>>
      OBVIOUS
    <3>3. g = None \/ g = [op |-> "walk", peer |-> t.call.to, blocks |-> bs, tries |-> 0]
      BY <2>1, <3>b DEF AfterAnswer
    <3>4. bs \in Seq(Item) /\ Len(bs) = 1 /\ bs[1] = id.item /\ bs # <<>>
      BY <1>1, <3>b
    <3>5. CASE g = [op |-> "walk", peer |-> t.call.to, blocks |-> bs, tries |-> 0]
      <4>1. g \in Fill /\ g.blocks = bs
        BY <3>2, <3>4, <3>5 DEF Fill
      <4> HIDE DEF Has
      <4>2. ASSUME NEW i \in 1 .. Len(bs) PROVE Has(id.at, bs[i])
        <5>1. i = 1
          BY <3>4
        <5> QED BY <3>1, <3>4, <5>1
      <4> QED BY <3>4, <4>1, <4>2
    <3>6. CASE g = None
      BY <3>6
    <3> HIDE DEF Good
    <3> QED BY <3>3, <3>5, <3>6
  <2>2. CASE f # None
    <3>1. f \in Fill
      BY <1>2, <2>2
    <3> PICK bs : bs = f.blocks
      OBVIOUS
    <3>f. /\ f.op \in {"walk", "push"} /\ f.peer \in Node /\ f.tries \in Nat
          /\ f = [op |-> f.op, peer |-> f.peer, blocks |-> bs, tries |-> f.tries]
      BY <3>1 DEF Fill
    <3>2. /\ bs \in Seq(Item) /\ bs # <<>>
          /\ \A i \in 1 .. Len(bs) : Has(id.at, bs[i])
          /\ f.op = "walk" => Prev[Head(bs)] \in stored[id.at]
      <4>1. bs \in Seq(Item)
        BY <3>1 DEF Fill
      <4> HIDE DEF Has
      <4> QED BY <1>1, <2>2, <4>1 DEF ThreadOK
    <3>3. \/ g = None
          \/ f.op = "walk" /\ g = [f EXCEPT !.blocks = <<Prev[Head(@)]>> \o @]
          \/ f.op = "walk" /\ g = [f EXCEPT !.op = "push"]
          \/ f.op = "push" /\ g = [f EXCEPT !.blocks = Tail(@), !.tries = 0]
          \/ f.op = "push" /\ g = [f EXCEPT !.tries = @ + 1]
      BY <2>2 DEF AfterAnswer
    <3>4. CASE f.op = "walk" /\ g = [f EXCEPT !.blocks = <<Prev[Head(@)]>> \o @]
      <4> PICK x : x = Prev[Head(bs)]
        OBVIOUS
      <4>1. Has(id.at, x) /\ x \in Item
        BY <1>1, <3>2, <3>4 DEF Has, IInv, StoreInv
      <4> PICK cs : cs = <<x>> \o bs
        OBVIOUS
      <4> HIDE DEF Has
      <4>2. /\ cs \in Seq(Item) /\ Len(cs) = Len(bs) + 1 /\ cs[1] = x
            /\ \A i \in 2 .. Len(cs) : cs[i] = bs[i - 1]
        BY <3>2, <4>1
      <4>3. \A i \in 1 .. Len(cs) : Has(id.at, cs[i])
        <5> TAKE i \in 1 .. Len(cs)
        <5>0. Len(bs) \in Nat
          BY <3>2
        <5>1. CASE i = 1
          BY <4>1, <4>2, <5>1
        <5>2. CASE i # 1
          <6>1. i \in 2 .. Len(cs) /\ i - 1 \in 1 .. Len(bs)
            BY <4>2, <5>0, <5>2
          <6> QED BY <3>2, <4>2, <6>1
        <5> QED BY <5>1, <5>2
      <4>4. g = [op |-> "walk", peer |-> f.peer, blocks |-> cs, tries |-> f.tries]
        BY <3>f, <3>4
      <4>5. cs # <<>>
        BY <3>2, <4>2
      <4>6. g \in Fill /\ g.blocks = cs
        BY <3>f, <4>2, <4>4 DEF Fill
      <4> QED BY <4>3, <4>5, <4>6
    <3>5. CASE f.op = "walk" /\ g = [f EXCEPT !.op = "push"]
      <4>1. g \in Fill /\ g.blocks = bs
        BY <3>1, <3>5 DEF Fill
      <4> HIDE DEF Has
      <4> QED BY <3>2, <4>1
    <3>6. CASE f.op = "push" /\ g = [f EXCEPT !.blocks = Tail(@), !.tries = 0]
      <4> PICK cs : cs = Tail(bs)
        OBVIOUS
      <4>1. /\ cs \in Seq(Item) /\ Len(cs) = Len(bs) - 1
            /\ \A i \in 1 .. Len(cs) : cs[i] = bs[i + 1] /\ i + 1 \in 1 .. Len(bs)
        BY <3>2, HeadTailProperties
      <4>2. g = [op |-> "push", peer |-> f.peer, blocks |-> cs, tries |-> 0]
        BY <3>f, <3>6
      <4> HIDE DEF Has
      <4>3. \A i \in 1 .. Len(cs) : Has(id.at, cs[i])
        BY <3>2, <4>1
      <4>4. g \in Fill /\ g.blocks = cs /\ g.op = "push"
        BY <3>f, <4>1, <4>2 DEF Fill
      <4> QED BY <4>3, <4>4
    <3>7. CASE f.op = "push" /\ g = [f EXCEPT !.tries = @ + 1]
      <4>1. g \in Fill /\ g.blocks = bs /\ g.op = "push"
        BY <3>1, <3>7 DEF Fill
      <4> HIDE DEF Has
      <4> QED BY <3>2, <4>1
    <3> QED BY <3>3, <3>4, <3>5, <3>6, <3>7
  <2> QED BY <2>1, <2>2
<1>4. /\ th \in Thread /\ th.visited = t.visited /\ th.fill = g /\ th.call = None
  <2>1. g \in {None} \cup Fill
    BY <1>3
  <2>2. th = [t EXCEPT !.call = None, !.fill = g]
    OBVIOUS
  <2> QED BY <1>1, <2>1, <2>2 DEF Thread
<1> QED BY <1>1, <1>3, <1>4 DEF ThreadOK

-----------------------------------------------------------------------------
(* The steps of a thread.                                                     *)
LEMMA NothingStored ==
    ASSUME UNCHANGED <<stored, vain>>
    PROVE  StoreGrows
BY DEF StoreGrows

LEMMA SendNextKeeps ==
    ASSUME IInv, NEW id \in DOMAIN threads, SendNext(id)
    PROVE  IInv'
<1>g. StoreGrows
  BY NothingStored DEF SendNext
<1> PICK t : t = threads[id]
  OBVIOUS
<1>1. /\ id \in ThreadId /\ id.item \in Item
      /\ t \in Thread /\ ThreadOK(id, t) /\ t.fill = None
      /\ t.todo \in Seq(Node) /\ t.visited \in SUBSET Node
  <2>1. id \in ThreadId /\ t \in Thread /\ ThreadOK(id, t) /\ t.fill = None
    BY DEF IInv, ThreadInv, SendNext
  <2> QED BY <2>1 DEF ThreadId, Thread
<1>2. PICK k \in DOMAIN t.todo :
         /\ Update(id, [t EXCEPT !.todo = SubSeq(@, k + 1, Len(@)),
                                !.call = Post(id, t.todo[k], id.item, t.visited)])
         /\ requests' = requests \cup {Post(id, t.todo[k], id.item, t.visited)}
  BY DEF SendNext
<1> PICK r : r = Post(id, t.todo[k], id.item, t.visited)
  OBVIOUS
<1> PICK rest : rest = SubSeq(t.todo, k + 1, Len(t.todo))
  OBVIOUS
<1> PICK th : th = [t EXCEPT !.todo = rest, !.call = r]
  OBVIOUS
<1>3. r \in Request /\ Promise(r.item, r.visited)
  <2>1. t.todo[k] \in Node
    BY <1>1, <1>2
  <2>2. r \in Request /\ r.item = id.item /\ r.visited = t.visited
    BY <1>1, <2>1 DEF Post, Request
  <2> QED BY <1>1, <2>2 DEF ThreadOK
<1>4. rest \in Seq(Node)
  <2>1. k + 1 \in Int /\ Len(t.todo) \in Int /\ \A i \in k + 1 .. Len(t.todo) : t.todo[i] \in Node
    BY <1>1, <1>2
  <2> QED BY <2>1, SubSeqProperties
<1>5. th \in Thread /\ th.visited = t.visited /\ th.fill = None
  BY <1>1, <1>3, <1>4 DEF Thread
<1>6. ThreadOK(id, th)
  BY <1>1, <1>5 DEF ThreadOK
<1>7. ThreadOK(id, th)'
  BY <1>g, <1>1, <1>5, <1>6, GrowthKeeps
<1>8. Update(id, th) /\ requests' = requests \cup {r}
  BY <1>2
<1>9. ThreadInv'
  BY <1>g, <1>5, <1>7, <1>8, UpdateKeeps
<1>10. RequestInv'
  BY <1>g, <1>3, <1>8, PostKeeps
<1>11. StoreInv' /\ JobInv' /\ AnswerInv' /\ PollInv' /\ SyncInv' /\ OnlyForksDiverge'
  BY <1>g, RestKept DEF SendNext, IInv, OnlyForksDiverge
<1> QED BY <1>9, <1>10, <1>11 DEF IInv

LEMMA FinishKeeps ==
    ASSUME IInv, NEW id \in DOMAIN threads, Finish(id)
    PROVE  IInv'
<1>g. StoreGrows
  BY NothingStored DEF Finish
<1>1. ThreadInv'
  BY <1>g, EndKeeps DEF Finish
<1>2. AnswerInv'
  BY AnswerKeeps DEF Finish
<1>3. StoreInv' /\ RequestInv' /\ JobInv' /\ PollInv' /\ SyncInv' /\ OnlyForksDiverge'
  BY <1>g, RestKept DEF Finish, IInv, OnlyForksDiverge
<1> QED BY <1>1, <1>2, <1>3 DEF IInv

(* A thread that feeds a peer posts an item that its node has.                  *)
LEMMA FeedKeeps ==
    ASSUME IInv, StoreGrows, UNCHANGED <<stored, answers, jobs, poll, sync, vain, falseFork>>,
           NEW id \in DOMAIN threads, threads[id].fill # None,
           NEW th, NEW x \in Item, Has(id.at, x),
           threads[id].fill.op = "walk" => Prev[Head(threads[id].fill.blocks)] \in stored[id.at],
           threads[id].fill.blocks # <<>>,
           NEW r, r = Post(id, threads[id].fill.peer, x, {id.at}),
           th = [threads[id] EXCEPT !.call = r],
           Update(id, th), requests' = requests \cup {r}
    PROVE  IInv'
<1> PICK t : t = threads[id]
  OBVIOUS
<1>1. id \in ThreadId /\ t \in Thread /\ ThreadOK(id, t)
  BY DEF IInv, ThreadInv
<1>2. id.at \in Node /\ t.fill \in Fill
  BY <1>1 DEF ThreadId, Thread
<1>3. r \in Request /\ Promise(r.item, r.visited)
  <2>1. t.fill.peer \in Node
    BY <1>2 DEF Fill
  <2>2. r \in Request /\ r.item = x /\ r.visited = {id.at}
    BY <1>1, <1>2, <2>1 DEF Post, Request
  <2> QED BY <2>2 DEF Promise
<1>4. th \in Thread /\ th.visited = t.visited /\ th.fill = t.fill
  BY <1>1, <1>3 DEF Thread
<1>5. ThreadOK(id, th)
  <2> HIDE DEF Has
  <2> QED BY <1>1, <1>4 DEF ThreadOK
<1>6. ThreadOK(id, th)'
  BY <1>1, <1>4, <1>5, GrowthKeeps
<1>7. ThreadInv'
  BY <1>4, <1>6, UpdateKeeps
<1>8. RequestInv'
  BY <1>3, PostKeeps
<1>9. StoreInv' /\ JobInv' /\ AnswerInv' /\ PollInv' /\ SyncInv' /\ OnlyForksDiverge'
  BY RestKept DEF IInv, OnlyForksDiverge
<1> QED BY <1>7, <1>8, <1>9 DEF IInv

(* A thread goes on with another fill, or none, and posts nothing.              *)
LEMMA RefillKeeps ==
    ASSUME IInv, StoreGrows, UNCHANGED <<stored, jobs, poll, sync, vain, falseFork>>,
           AnswerInv', requests' \subseteq requests,
           NEW id \in DOMAIN threads, NEW th \in Thread, ThreadOK(id, th), Update(id, th)
    PROVE  IInv'
<1>1. id \in ThreadId
  BY DEF IInv, ThreadInv
<1>2. ThreadOK(id, th)'
  BY <1>1, GrowthKeeps
<1>3. ThreadInv'
  BY <1>2, UpdateKeeps
<1>4. StoreInv' /\ RequestInv' /\ JobInv' /\ PollInv' /\ SyncInv' /\ OnlyForksDiverge'
  BY RestKept DEF IInv, OnlyForksDiverge
<1> QED BY <1>3, <1>4 DEF IInv

LEMMA WalkKeeps ==
    ASSUME IInv, NEW id \in DOMAIN threads, Walk(id)
    PROVE  IInv'
<1>g. StoreGrows
  BY NothingStored DEF Walk
<1> PICK t : t = threads[id]
  OBVIOUS
<1>1. /\ id \in ThreadId /\ t \in Thread /\ ThreadOK(id, t)
      /\ t.fill # None /\ t.fill.op = "walk" /\ t.call = None
  BY DEF IInv, ThreadInv, Walk, Ready, Waiting
<1>2. id.at \in Node /\ t.fill \in Fill
  BY <1>1 DEF ThreadId, Thread
<1>3. t.fill.blocks # <<>>
  BY <1>1 DEF ThreadOK
<1> PICK x : x = Prev[Head(t.fill.blocks)]
  OBVIOUS
<1>4. CASE Update(id, [t EXCEPT !.fill.op = "push"]) /\ UNCHANGED requests
  <2> PICK th : th = [t EXCEPT !.fill.op = "push"]
    OBVIOUS
  <2> PICK f : f = [t.fill EXCEPT !.op = "push"]
    OBVIOUS
  <2>1. f \in Fill /\ f.op = "push" /\ f.blocks = t.fill.blocks
    BY <1>2 DEF Fill
  <2>2. th = [t EXCEPT !.fill = f]
    BY <1>1 DEF Thread
  <2>3. th \in Thread /\ th.visited = t.visited /\ th.fill = f /\ th.call = None
    BY <1>1, <2>1, <2>2 DEF Thread
  <2>4. ThreadOK(id, th)
    <3> HIDE DEF Has
    <3> QED BY <1>1, <2>1, <2>3 DEF ThreadOK
  <2>5. AnswerInv'
    BY <1>g, RestKept DEF Walk
  <2> QED BY <1>g, <1>4, <2>3, <2>4, <2>5, RefillKeeps DEF Walk
<1>5. CASE Update(id, [t EXCEPT !.fill = None]) /\ UNCHANGED requests
  <2> PICK th : th = [t EXCEPT !.fill = None]
    OBVIOUS
  <2>1. th \in Thread /\ th.visited = t.visited /\ th.fill = None
    BY <1>1, SMTT(20) DEF Thread
  <2>2. ThreadOK(id, th)
    BY <1>1, <2>1 DEF ThreadOK
  <2>3. AnswerInv'
    BY <1>g, RestKept, SMTT(20) DEF Walk
  <2> QED BY <1>g, <1>5, <2>1, <2>2, <2>3, RefillKeeps DEF Walk
<1>6. CASE /\ x \in stored[id.at]
           /\ Update(id, [t EXCEPT !.call = Post(id, t.fill.peer, x, {id.at})])
           /\ requests' = requests \cup {Post(id, t.fill.peer, x, {id.at})}
  <2> PICK r : r = Post(id, t.fill.peer, x, {id.at})
    OBVIOUS
  <2> PICK th : th = [t EXCEPT !.call = r]
    OBVIOUS
  <2>1. x \in Item /\ Has(id.at, x)
    BY <1>2, <1>6 DEF Has, IInv, StoreInv
  <2>2. Update(id, th) /\ requests' = requests \cup {r}
    BY <1>6
  <2> QED BY <1>g, <1>1, <1>3, <1>6, <2>1, <2>2, FeedKeeps DEF Walk
<1> QED BY <1>4, <1>5, <1>6 DEF Walk

LEMMA PushKeeps ==
    ASSUME IInv, NEW id \in DOMAIN threads, Push(id)
    PROVE  IInv'
<1>g. StoreGrows
  BY NothingStored DEF Push
<1> PICK t : t = threads[id]
  OBVIOUS
<1>1. /\ id \in ThreadId /\ t \in Thread /\ ThreadOK(id, t)
      /\ t.fill # None /\ t.fill.op = "push"
  BY DEF IInv, ThreadInv, Push
<1> PICK bs : bs = t.fill.blocks
  OBVIOUS
<1>2. bs \in Seq(Item)
  <2>1. t.fill \in Fill
    BY <1>1 DEF Thread
  <2> QED BY <2>1 DEF Fill
<1>3. CASE bs = <<>>
  <2> PICK th : th = [t EXCEPT !.fill = None]
    OBVIOUS
  <2>1. th \in Thread /\ th.visited = t.visited /\ th.fill = None
    BY <1>1 DEF Thread
  <2>2. ThreadOK(id, th)
    BY <1>1, <2>1 DEF ThreadOK
  <2>3. AnswerInv'
    BY <1>g, RestKept DEF Push
  <2>4. Update(id, th) /\ UNCHANGED requests
    BY <1>3 DEF Push
  <2> QED BY <1>g, <2>1, <2>2, <2>3, <2>4, RefillKeeps DEF Push
<1>4. CASE bs # <<>>
  <2> PICK x : x = Head(bs)
    OBVIOUS
  <2> PICK r : r = Post(id, t.fill.peer, x, {id.at})
    OBVIOUS
  <2> PICK th : th = [t EXCEPT !.call = r]
    OBVIOUS
  <2>1. x \in Item /\ 1 \in 1 .. Len(bs) /\ x = bs[1]
    BY <1>2, <1>4
  <2>2. Has(id.at, x)
    <3> HIDE DEF Has
    <3> QED BY <1>1, <2>1 DEF ThreadOK
  <2>3. Update(id, th) /\ requests' = requests \cup {r}
    BY <1>4 DEF Push
  <2> QED BY <1>g, <1>1, <1>4, <2>1, <2>2, <2>3, FeedKeeps DEF Push
<1> QED BY <1>3, <1>4

LEMMA ReturnKeeps ==
    ASSUME IInv, NEW a \in answers, Return(a)
    PROVE  IInv'
<1>g. StoreGrows
  BY NothingStored DEF Return
<1>1. AnswerInv'
  BY DEF Return, IInv, AnswerInv
<1> PICK id : id = a.req.id
  OBVIOUS
<1>2. CASE id \in DOMAIN threads /\ threads[id].call = a.req
  <2>1. Waiting(id)
    BY <1>2 DEF IInv, AnswerInv, Waiting
  <2> PICK th : th = [threads[id] EXCEPT !.call = None, !.fill = AfterAnswer(id, a.status)]
    OBVIOUS
  <2>2. th \in Thread /\ ThreadOK(id, th)
    BY <1>2, <2>1, AnsweredThread
  <2>3. Update(id, th)
    BY <1>2 DEF Return
  <2> QED BY <1>g, <1>1, <1>2, <2>2, <2>3, RefillKeeps DEF Return
<1>3. CASE ~(id \in DOMAIN threads /\ threads[id].call = a.req)
  <2>1. UNCHANGED threads
    BY <1>3 DEF Return
  <2> QED BY <1>g, <1>1, <2>1, RestKept DEF Return, IInv, OnlyForksDiverge
<1> QED BY <1>2, <1>3

LEMMA TimeOutKeeps ==
    ASSUME IInv, NEW id \in DOMAIN threads, TimeOut(id)
    PROVE  IInv'
<1>g. StoreGrows
  BY NothingStored DEF TimeOut
<1> PICK t : t = threads[id]
  OBVIOUS
<1> PICK th : th = [t EXCEPT !.call = None, !.fill = None]
  OBVIOUS
<1>1. id \in ThreadId /\ t \in Thread /\ ThreadOK(id, t)
  BY DEF IInv, ThreadInv
<1>2. th \in Thread /\ th.visited = t.visited /\ th.fill = None
  BY <1>1 DEF Thread
<1>3. ThreadOK(id, th)
  BY <1>1, <1>2 DEF ThreadOK
<1>4. AnswerInv' /\ Update(id, th)
  BY <1>g, RestKept DEF TimeOut
<1> QED BY <1>g, <1>2, <1>3, <1>4, RefillKeeps DEF TimeOut

-----------------------------------------------------------------------------
(* The steps that store an item.                                               *)

(* A database stays closed under parents when an item is added to it whose parent   *)
(* it has.                                                                   *)
LEMMA StoringKeeps ==
    ASSUME IInv, NEW n \in Node, NEW x \in Item, vain' = vain,
           x \in Block => Prev[x] = NoBlock \/ Prev[x] \in stored[n],
           stored' = [stored EXCEPT ![n] = @ \cup {x}]
    PROVE  StoreInv' /\ StoreGrows /\ x \in stored'[n]
<1>1. stored \in [Node -> SUBSET Item]
  BY DEF IInv, StoreInv
<1>2. /\ stored' \in [Node -> SUBSET Item] /\ stored'[n] = stored[n] \cup {x}
      /\ \A m \in Node : m # n => stored'[m] = stored[m]
  BY <1>1
<1>3. ASSUME NEW m \in Node, NEW b \in stored'[m] \cap Block, Prev[b] # NoBlock
      PROVE  Prev[b] \in stored'[m]
  <2>1. CASE b \in stored[m]
    <3>1. Prev[b] \in stored[m]
      BY <1>3, <2>1 DEF IInv, StoreInv
    <3> QED BY <1>2, <3>1
  <2>2. CASE b \notin stored[m]
    <3>1. m = n /\ b = x
      BY <1>2, <2>2
    <3> QED BY <1>2, <1>3, <3>1
  <2> QED BY <2>1, <2>2
<1> QED BY <1>2, <1>3 DEF StoreInv, StoreGrows

(* A thread starts where the item now is, with the hosts that have it.           *)
LEMMA ReceiveKeeps ==
    ASSUME IInv, NEW r \in requests, Receive(r)
    PROVE  IInv'
<1>1. r \in Request /\ Promise(r.item, r.visited)
  BY DEF IInv, RequestInv
<1>2. r.to \in Node /\ r.item \in Item /\ r.visited \in SUBSET Node
  BY <1>1 DEF Request
<1>3. StoreInv' /\ StoreGrows /\ r.item \in stored'[r.to]
  BY <1>2, StoringKeeps DEF Receive, Lacks
<1>4. Promise(r.item, r.visited \cup {r.to})'
  <2>1. Promise(r.item, r.visited)'
    BY <1>1, <1>2, <1>3, GrowthKeeps
  <2> QED BY <1>3, <2>1 DEF Promise, Has
<1>5. ThreadInv'
  BY <1>1, <1>2, <1>3, <1>4, StartKeeps DEF Receive
<1>6. RequestInv' /\ JobInv' /\ AnswerInv' /\ PollInv' /\ SyncInv' /\ OnlyForksDiverge'
  BY <1>3, RestKept DEF Receive, IInv, OnlyForksDiverge
<1> QED BY <1>3, <1>5, <1>6 DEF IInv

LEMMA ReceiveLaterKeeps ==
    ASSUME IInv, NEW r \in requests, ReceiveLater(r)
    PROVE  IInv'
<1>1. r \in Request /\ Promise(r.item, r.visited)
  BY DEF IInv, RequestInv
<1>2. r.to \in Node /\ r.item \in Item /\ r.visited \in SUBSET Node
  BY <1>1 DEF Request
<1>3. StoreInv' /\ StoreGrows
  <2>1. CASE r.item \in Txn
    <3>1. r.item \notin Block
      BY <2>1, GossipAssumption
    <3>2. stored' = [stored EXCEPT ![r.to] = @ \cup {r.item}]
      <4>1. {r.item} \cap Txn = {r.item}
        BY <2>1
      <4> QED BY <4>1 DEF ReceiveLater
    <3> QED BY <1>2, <3>1, <3>2, StoringKeeps DEF ReceiveLater
  <2>2. CASE r.item \notin Txn
    <3>1. stored' = stored
      <4>1. {r.item} \cap Txn = {} /\ stored = [stored EXCEPT ![r.to] = @]
        BY <1>2, <2>2 DEF IInv, StoreInv
      <4> QED BY <1>2, <4>1 DEF ReceiveLater, IInv, StoreInv
    <3>2. StoreGrows
      BY <3>1, NothingStored DEF ReceiveLater
    <3> QED BY <3>1, <3>2, RestKept
  <2> QED BY <2>1, <2>2
<1>4. JobInv'
  BY <1>1, <1>2, <1>3, TaskKeeps DEF ReceiveLater
<1>5. AnswerInv'
  BY AnswerKeeps DEF ReceiveLater, Serve
<1>6. ThreadInv' /\ RequestInv' /\ PollInv' /\ SyncInv' /\ OnlyForksDiverge'
  BY <1>3, RestKept DEF ReceiveLater, Serve, IInv, OnlyForksDiverge
<1> QED BY <1>3, <1>4, <1>5, <1>6 DEF IInv

(* Requests that are answered at once, and those that are lost.                 *)
LEMMA ServeKeeps ==
    ASSUME IInv, NEW r \in requests, NEW status, Serve(r, status),
           UNCHANGED <<stored, threads, jobs, poll, sync, vain, falseFork>>
    PROVE  IInv'
<1>1. StoreGrows
  BY NothingStored
<1>2. AnswerInv'
  BY AnswerKeeps DEF Serve
<1> QED BY <1>1, <1>2, RestKept DEF Serve, IInv, OnlyForksDiverge

LEMMA RunJobKeeps ==
    ASSUME IInv, NEW j \in jobs, RunJob(j)
    PROVE  IInv'
<1>1. j \in Job /\ Promise(j.item, j.visited)
  BY DEF IInv, JobInv
<1>2. j.at \in Node /\ j.item \in Item /\ j.visited \in SUBSET Node
  BY <1>1 DEF Job
<1>3. CASE UNCHANGED <<stored, threads>>
  <2>1. StoreGrows
    BY <1>3, NothingStored DEF RunJob
  <2> QED BY <1>3, <2>1, RestKept DEF RunJob, IInv, OnlyForksDiverge
<1>4. CASE /\ ~Lacks(j.at, j.item)
           /\ stored' = [stored EXCEPT ![j.at] = @ \cup {j.item}]
           /\ Start(Id(j.at, j.item, "job"), Sender(j.at, j.visited, None))
  <2>1. StoreInv' /\ StoreGrows /\ j.item \in stored'[j.at]
    BY <1>2, <1>4, StoringKeeps DEF RunJob, Lacks
  <2>2. Promise(j.item, j.visited \cup {j.at})'
    <3>1. Promise(j.item, j.visited)'
      BY <1>1, <1>2, <2>1, GrowthKeeps
    <3> QED BY <2>1, <3>1 DEF Promise, Has
  <2>3. ThreadInv'
    BY <1>2, <1>4, <2>1, <2>2, StartKeeps
  <2>4. RequestInv' /\ JobInv' /\ AnswerInv' /\ PollInv' /\ SyncInv' /\ OnlyForksDiverge'
    BY <2>1, RestKept DEF RunJob, IInv, OnlyForksDiverge
  <2> QED BY <2>1, <2>3, <2>4 DEF IInv
<1> QED BY <1>3, <1>4 DEF RunJob

LEMMA LoseJobKeeps ==
    ASSUME IInv, NEW j \in jobs, LoseJob(j)
    PROVE  IInv'
<1>1. StoreGrows
  BY NothingStored DEF LoseJob
<1> QED BY <1>1, RestKept DEF LoseJob, IInv, OnlyForksDiverge

LEMMA MineKeeps ==
    ASSUME IInv, NEW n \in Node, NEW b \in Block, Mine(n, b)
    PROVE  IInv'
<1>1. b \in Item
  BY DEF Item
<1>2. Prev[b] = NoBlock \/ Prev[b] \in stored[n]
  BY TipFacts DEF Mine
<1>3. StoreInv' /\ StoreGrows /\ b \in stored'[n]
  BY <1>1, <1>2, StoringKeeps DEF Mine
<1>4. Promise(b, {} \cup {n})'
  BY <1>3 DEF Promise, Has
<1>5. ThreadInv'
  <2>1. {} \in SUBSET Node
    OBVIOUS
  <2> QED BY <1>1, <1>3, <1>4, <2>1, StartKeeps DEF Mine
<1>6. RequestInv' /\ JobInv' /\ AnswerInv' /\ PollInv' /\ SyncInv' /\ OnlyForksDiverge'
  BY <1>3, RestKept DEF Mine, IInv, OnlyForksDiverge
<1> QED BY <1>3, <1>5, <1>6 DEF IInv

LEMMA SubmitKeeps ==
    ASSUME IInv, NEW n \in Node, NEW x \in Txn, Submit(n, x)
    PROVE  IInv'
<1>1. x \in Item /\ x \notin Block /\ {} \in SUBSET Node
  BY GossipAssumption DEF Item
<1>2. StoreInv' /\ StoreGrows /\ x \in stored'[n]
  BY <1>1, StoringKeeps DEF Submit
<1>3. ThreadInv' /\ JobInv'
  <2>1. CASE n \in Async
    <3>1. Promise(x, {})
      BY DEF Promise
    <3>2. JobInv'
      BY <1>1, <1>2, <2>1, <3>1, TaskKeeps DEF Submit
    <3> QED BY <1>2, <2>1, <3>2, RestKept DEF Submit
  <2>2. CASE n \notin Async
    <3>1. Promise(x, {} \cup {n})'
      BY <1>2 DEF Promise, Has
    <3>2. ThreadInv'
      BY <1>1, <1>2, <2>2, <3>1, StartKeeps DEF Submit
    <3> QED BY <1>2, <2>2, <3>2, RestKept DEF Submit
  <2> QED BY <2>1, <2>2
<1>4. RequestInv' /\ AnswerInv' /\ PollInv' /\ SyncInv' /\ OnlyForksDiverge'
  BY <1>2, RestKept DEF Submit, IInv, OnlyForksDiverge
<1> QED BY <1>2, <1>3, <1>4 DEF IInv

-----------------------------------------------------------------------------
(* Polls and syncs.                                                          *)
LEMMA PeerIsNode ==
    ASSUME NEW n \in Node, NEW p \in Range(Peers[n])
    PROVE  p \in Node
<1>1. Peers[n] \in Seq(Node)
  BY GossipAssumption
<1> QED BY <1>1 DEF Range

LEMMA PollReadKeeps ==
    ASSUME IInv, NEW n \in Node, NEW p \in Range(Peers[n]), PollRead(n, p)
    PROVE  IInv'
<1>g. StoreGrows
  BY NothingStored DEF PollRead
<1> PICK tip : tip = Tip(stored[p])
  OBVIOUS
<1>1. p \in Node /\ tip # NoBlock
  BY PeerIsNode DEF PollRead
<1>2. tip \in stored[p] /\ tip \in Block
  BY <1>1, TipFacts
<1> PICK found : found = [op |-> "tip", peer |-> p, block |-> tip]
  OBVIOUS
<1>3. poll' = [poll EXCEPT ![n] = found] /\ stored' = stored
  BY DEF PollRead
<1>4. found \in Poll
  BY <1>1, <1>2 DEF Poll
<1>5. PollInv'
  <2>1. poll' \in [Node -> {None} \cup Poll]
    BY <1>3, <1>4 DEF IInv, PollInv
  <2>2. ASSUME NEW m \in Node, poll'[m] # None PROVE poll'[m].block \in stored'[poll'[m].peer]
    <3>1. CASE m = n
      BY <1>2, <1>3, <3>1 DEF IInv, PollInv
    <3>2. CASE m # n
      BY <1>3, <2>2, <3>2 DEF IInv, PollInv
    <3> QED BY <3>1, <3>2
  <2> QED BY <2>1, <2>2 DEF PollInv
<1> QED BY <1>g, <1>5, RestKept DEF PollRead, IInv, OnlyForksDiverge

(* A poll that ends.                                                         *)
LEMMA PollEnds ==
    ASSUME IInv, StoreGrows, NEW n \in Node, poll' = [poll EXCEPT ![n] = None]
    PROVE  PollInv'
<1>1. poll' \in [Node -> {None} \cup Poll]
  BY DEF IInv, PollInv
<1>2. ASSUME NEW m \in Node, poll'[m] # None PROVE poll'[m].block \in stored'[poll'[m].peer]
  <2>1. poll'[m] = poll[m]
    BY <1>2 DEF IInv, PollInv
  <2>2. poll[m] \in Poll /\ poll[m].block \in stored[poll[m].peer]
    BY <1>2, <2>1 DEF IInv, PollInv
  <2>3. poll[m].peer \in Node
    BY <2>2 DEF Poll
  <2> QED BY <2>1, <2>2, <2>3 DEF StoreGrows
<1> QED BY <1>1, <1>2 DEF PollInv

LEMMA PollFillKeeps ==
    ASSUME IInv, NEW n \in Node, PollFill(n)
    PROVE  IInv'
<1> PICK b : b = poll[n].block
  OBVIOUS
<1> PICK p : p = poll[n].peer
  OBVIOUS
<1>1. p \in Node /\ b \in Block /\ b \in stored[p]
  <2>1. poll[n] \in Poll /\ b \in stored[p]
    BY DEF PollFill, IInv, PollInv
  <2> QED BY <2>1 DEF Poll
<1>2. b \in Item
  BY <1>1 DEF Item
<1>3. StoreInv' /\ StoreGrows /\ Has(n, b)'
  <2>1. CASE stored' = [stored EXCEPT ![n] = @ \cup Range(Branch(b))] /\ UNCHANGED vain
    <3> PICK branch : branch = Range(Branch(b))
      OBVIOUS
    <3>1. /\ branch \subseteq Block /\ b \in branch
          /\ \A c \in branch : Prev[c] # NoBlock => Prev[c] \in branch
      BY <1>1, AncestryHoldsParents
    <3>2. /\ stored' \in [Node -> SUBSET Item] /\ stored'[n] = stored[n] \cup branch
          /\ \A m \in Node : m # n => stored'[m] = stored[m]
      BY <2>1, <3>1 DEF IInv, StoreInv, Item
    <3>3. ASSUME NEW m \in Node, NEW c \in stored'[m] \cap Block, Prev[c] # NoBlock
          PROVE  Prev[c] \in stored'[m]
      <4>1. CASE c \in stored[m]
        <5>1. Prev[c] \in stored[m]
          BY <3>3, <4>1 DEF IInv, StoreInv
        <5> QED BY <3>2, <5>1
      <4>2. CASE c \notin stored[m]
        <5>1. m = n /\ c \in branch
          BY <3>2, <4>2
        <5> QED BY <3>1, <3>2, <3>3, <5>1
      <4> QED BY <4>1, <4>2
    <3>4. StoreGrows
      BY <2>1, <3>2 DEF StoreGrows
    <3> QED BY <3>1, <3>2, <3>3, <3>4 DEF StoreInv, Has
  <2>2. CASE UNCHANGED stored /\ vain' = IF b \in stored[n] THEN vain ELSE vain \cup {<<n, b>>}
    <3>1. StoreGrows
      BY <2>2 DEF StoreGrows
    <3>2. Has(n, b)'
      BY <2>2 DEF Has
    <3> QED BY <2>2, <3>1, <3>2, RestKept
  <2> QED BY <2>1, <2>2 DEF PollFill
<1>4. Promise(b, {p} \cup {n})'
  <2>1. Has(p, b)'
    BY <1>1, <1>3 DEF StoreGrows, Has
  <2> QED BY <1>3, <2>1 DEF Promise
<1>5. ThreadInv'
  <2>1. Start(Id(n, b, "poll"), Sender(n, {p}, None)) /\ {p} \in SUBSET Node
    BY <1>1 DEF PollFill
  <2> QED BY <1>2, <1>3, <1>4, <2>1, StartKeeps
<1>6. PollInv'
  BY <1>3, PollEnds DEF PollFill
<1>7. RequestInv' /\ JobInv' /\ AnswerInv' /\ SyncInv' /\ OnlyForksDiverge'
  BY <1>3, RestKept DEF PollFill, IInv, OnlyForksDiverge
<1> QED BY <1>3, <1>5, <1>6, <1>7 DEF IInv

(* The sync of one node changes.                                              *)
LEMMA SyncSet ==
    ASSUME IInv, NEW n \in Node, NEW s \in {None} \cup Sync, s # None => SyncOK(s),
           sync' = [sync EXCEPT ![n] = s]
    PROVE  SyncInv'
<1>1. sync' \in [Node -> {None} \cup Sync]
  BY DEF IInv, SyncInv
<1>2. ASSUME NEW m \in Node, sync'[m] # None PROVE SyncOK(sync[m])'
  <2>1. CASE m = n
    <3>1. sync'[m] = s
      BY <2>1 DEF IInv, SyncInv
    <3> QED BY <1>2, <3>1 DEF SyncOK
  <2>2. CASE m # n
    <3>1. sync'[m] = sync[m]
      BY <2>2 DEF IInv, SyncInv
    <3> QED BY <1>2, <3>1 DEF IInv, SyncInv, SyncOK
  <2> QED BY <2>1, <2>2
<1> QED BY <1>1, <1>2 DEF SyncInv

LEMMA SyncStartKeeps ==
    ASSUME IInv, NEW n \in Node, NEW p \in Range(Peers[n]), SyncStart(n, p)
    PROVE  IInv'
<1>g. StoreGrows
  BY NothingStored DEF SyncStart
<1> PICK tip : tip = Tip(stored[n])
  OBVIOUS
<1>1. tip \in Block \cup {NoBlock}
  BY TipFacts
<1> PICK s : s = [op |-> "fetch", peer |-> p, last |-> -1, todo |-> <<>>,
                  onto |-> tip, ahead |-> FALSE]
  OBVIOUS
<1>2. s \in Sync
  BY <1>1, PeerIsNode DEF Sync
<1>3. SyncOK(s)
  BY DEF SyncOK
<1>4. SyncInv'
  BY <1>2, <1>3, SyncSet DEF SyncStart
<1> QED BY <1>g, <1>4, RestKept DEF SyncStart, IInv, OnlyForksDiverge

(* A sync that ends as diverged from a tip that nothing else has moved: it was not    *)
(* ahead.                                                                    *)
LEMMA DivergedKeeps ==
    ASSUME IInv, NEW n \in Node, Diverged(n), sync[n] # None,
           ~(sync[n].ahead /\ sync[n].onto = Tip(stored[n]))
    PROVE  SyncInv' /\ OnlyForksDiverge'
<1>1. SyncInv'
  BY SyncSet DEF Diverged
<1>2. {m \in {n} : sync[m].ahead /\ sync[m].onto = Tip(stored[m])} = {}
  <2> HIDE DEF Tip
  <2> QED OBVIOUS
<1>3. OnlyForksDiverge'
  BY <1>2 DEF Diverged, IInv, OnlyForksDiverge
<1> QED BY <1>1, <1>3

LEMMA AboveTip ==
    ASSUME NEW S
    PROVE  /\ Tip(S) \in Block \cup {NoBlock}
           /\ Above(Tip(S)) \in Nat /\ Above(Tip(S)) = Height(S) + 1
<1>1. CASE S \cap Block = {}
  BY <1>1, TipFacts DEF Above
<1>2. CASE S \cap Block # {}
  <2> PICK tip : tip = Tip(S)
    OBVIOUS
  <2>1. tip \in Block /\ tip # NoBlock /\ Height(S) = Idx[tip]
    BY <1>2, TipFacts
  <2>2. Idx[tip] \in Nat
    BY <2>1, TreeAssumption
  <2> QED BY <2>1, <2>2 DEF Above
<1> QED BY <1>1, <1>2

LEMMA SyncFetchKeeps ==
    ASSUME IInv, NEW n \in Node, SyncFetch(n)
    PROVE  IInv'
<1>g. StoreGrows
  BY NothingStored DEF SyncFetch, FetchFrom
<1>s. PICK s : s = sync[n]
  OBVIOUS
<1>1. s \in Sync /\ SyncOK(s) /\ s.todo = <<>> /\ s # None
  BY <1>s DEF SyncFetch, FetchFrom, IInv, SyncInv
<1>t. PICK tip : tip = Tip(stored[n])
  OBVIOUS
<1>n. PICK next : next = Above(tip)
  OBVIOUS
<1>2. tip \in Block \cup {NoBlock} /\ next \in Nat /\ next = Height(stored[n]) + 1
  BY <1>t, <1>n, AboveTip
<1>b. PICK b : b = Tip(stored[s.peer])
  OBVIOUS
<1>3. b \in Block \cup {NoBlock}
  BY <1>b, AboveTip
<1>k. PICK bs : bs = BatchOf(Branch(b), next)
  OBVIOUS
<1>4. FetchFrom(n, next)
  BY <1>2 DEF SyncFetch
<1>5. CASE next = s.last /\ Diverged(n)
  <2>1. ~(s.ahead /\ s.onto = tip)
    <3>1. ASSUME s.ahead, s.onto = tip PROVE FALSE
      <4>1. next > s.last
        BY <1>1, <1>n, <3>1 DEF SyncOK
      <4> QED BY <1>2, <1>5, <4>1
    <3> QED BY <3>1
  <2>2. SyncInv' /\ OnlyForksDiverge'
    BY <1>1, <1>5, <1>s, <1>t, <2>1, DivergedKeeps
  <2> QED BY <1>g, <2>2, RestKept DEF SyncFetch, FetchFrom, IInv
<1>6. CASE /\ sync' = [sync EXCEPT ![n] = IF bs = <<>> THEN None
                             ELSE [s EXCEPT !.last = next, !.todo = bs, !.onto = tip,
                                            !.ahead = tip \in Range(Branch(b)) \cup {NoBlock}]]
           /\ UNCHANGED falseFork
  <2>1. SyncInv'
    <3>1. CASE bs = <<>>
      <4>1. sync' = [sync EXCEPT ![n] = None]
        BY <1>6, <3>1
      <4> QED BY <4>1, SyncSet
    <3>2. CASE bs # <<>>
      <4>a. PICK ahead : ahead = (tip \in Range(Branch(b)) \cup {NoBlock})
        OBVIOUS
      <4>w. PICK new : new = [s EXCEPT !.last = next, !.todo = bs, !.onto = tip, !.ahead = ahead]
        OBVIOUS
      <4>1. b \in Block
        <5>1. ASSUME b = NoBlock PROVE FALSE
          <6>1. Branch(b) = <<>>
            BY <5>1 DEF Branch
          <6>2. bs = SubSeq(<<>>, next + 1, Min({next + Batch, 0}))
            BY <1>k, <6>1 DEF BatchOf
          <6> PICK last : last = Min({next + Batch, 0})
            OBVIOUS
          <6>3. last = 0
            <7>1. next + Batch \in Nat
              BY <1>2, GossipAssumption
            <7> QED BY <7>1 DEF Min
          <6> QED BY <1>2, <3>2, <6>2, <6>3, SubSeqEmpty
        <5> QED BY <1>3, <5>1
      <4>k. BatchOK(Branch(b), next, bs)
        BY <1>2, <1>k, <4>1, BatchFacts
      <4>2. bs \in Seq(Block) /\ \A i \in 1 .. Len(bs) - 1 : Prev[bs[i + 1]] = bs[i]
        BY <4>k DEF BatchOK
      <4>3. ASSUME ahead PROVE Prev[bs[1]] = tip
        <5>1. tip \in Range(Branch(b)) \cup {NoBlock}
          BY <4>3, <4>a
        <5> QED BY <1>n, <3>2, <4>1, <4>k, <5>1, BatchGoesOn
      <4>4. ahead \in BOOLEAN
        BY <4>a
      <4>5. new \in Sync
        <5>u. PICK u : u = [s EXCEPT !.last = next, !.todo = bs]
          OBVIOUS
        <5>0. s \in Sync /\ bs \in Seq(Block) /\ next \in Int
          BY <1>1, <1>2, <4>2
        <5>1. u \in Sync
          BY <5>0, <5>u DEF Sync
        <5>2. new = [u EXCEPT !.onto = tip, !.ahead = ahead]
          BY <4>w, <5>u, Zenon
        <5> QED BY <1>2, <4>4, <5>1, <5>2 DEF Sync
      <4>6. SyncOK(new)
        <5>1. new.todo = bs /\ new.onto = tip /\ new.last = next /\ new.ahead = ahead
          BY <1>1, <4>w DEF Sync
        <5>2. next >= next
          BY <1>2
        <5>3. ASSUME ahead
              PROVE  IF bs = <<>> THEN Above(tip) > next
                     ELSE Above(tip) >= next /\ Prev[bs[1]] = tip
          BY <1>n, <3>2, <4>3, <5>2, <5>3
        <5>4. \A i \in 1 .. Len(bs) - 1 : Prev[bs[i + 1]] = bs[i]
          BY <4>2
        <5> HIDE DEF Above
        <5> QED BY <5>1, <5>3, <5>4 DEF SyncOK
      <4>7. sync' = [sync EXCEPT ![n] = new]
        BY <1>6, <3>2, <4>a, <4>w
      <4> QED BY <4>5, <4>6, <4>7, SyncSet
    <3> QED BY <3>1, <3>2
  <2> QED BY <1>g, <1>6, <2>1, RestKept DEF SyncFetch, FetchFrom, IInv, OnlyForksDiverge
<1> QED BY <1>s, <1>t, <1>b, <1>k, <1>4, <1>5, <1>6 DEF FetchFrom

LEMMA SyncBlockKeeps ==
    ASSUME IInv, NEW n \in Node, SyncBlock(n)
    PROVE  IInv'
<1> PICK s : s = sync[n]
  OBVIOUS
<1> PICK b : b = Head(s.todo)
  OBVIOUS
<1>1. s \in Sync /\ SyncOK(s) /\ s.todo # <<>> /\ s # None
  BY DEF SyncBlock, IInv, SyncInv
<1>2. s.todo \in Seq(Block) /\ b \in Block /\ b = s.todo[1]
  <2>1. s.todo \in Seq(Block)
    BY <1>1 DEF Sync
  <2> QED BY <1>1, <2>1
<1>3. CASE /\ Linked(n, b)
           /\ stored' = [stored EXCEPT ![n] = @ \cup {b}]
           /\ sync' = [sync EXCEPT ![n].todo = Tail(@), ![n].onto = b]
           /\ UNCHANGED falseFork
  <2>1. Prev[b] = NoBlock \/ Prev[b] \in stored[n]
    BY <1>3, TipFacts DEF Linked
  <2>2. b \in Item
    BY <1>2 DEF Item
  <2>3. StoreInv' /\ StoreGrows
    BY <1>2, <1>3, <2>1, <2>2, StoringKeeps DEF SyncBlock
  <2> PICK rest : rest = Tail(s.todo)
    OBVIOUS
  <2> PICK new : new = [s EXCEPT !.todo = rest, !.onto = b]
    OBVIOUS
  <2>4. /\ rest \in Seq(Block) /\ Len(rest) = Len(s.todo) - 1 /\ Len(s.todo) \in Nat \ {0}
        /\ \A i \in 1 .. Len(rest) : rest[i] = s.todo[i + 1]
    BY <1>1, <1>2, HeadTailProperties
  <2>5. /\ new \in Sync /\ new.todo = rest /\ new.onto = b
        /\ new.last = s.last /\ new.ahead = s.ahead /\ s.last \in Int
    BY <1>1, <1>2, <2>4 DEF Sync
  <2>6. sync' = [sync EXCEPT ![n] = new]
    BY <1>1, <1>3 DEF IInv, SyncInv
  <2>7. ASSUME NEW i \in 1 .. Len(rest) - 1 PROVE Prev[rest[i + 1]] = rest[i]
    <3>1. i \in 1 .. Len(rest) /\ i + 1 \in 1 .. Len(rest) /\ i + 1 \in 1 .. Len(s.todo) - 1
      BY <2>4
    <3>2. Prev[s.todo[(i + 1) + 1]] = s.todo[i + 1]
      BY <1>1, <3>1 DEF SyncOK
    <3> QED BY <2>4, <3>1, <3>2
  <2>8. ASSUME s.ahead PROVE Above(b) > s.last /\ (rest # <<>> => Prev[rest[1]] = b)
    <3>1. Above(s.onto) >= s.last /\ Prev[b] = s.onto
      BY <1>1, <1>2, <2>8 DEF SyncOK
    <3>2. Above(b) = Above(s.onto) + 1 /\ Above(s.onto) \in Nat
      <4>1. b # NoBlock
        BY <1>2, GossipAssumption DEF Item
      <4>2. /\ Idx[b] \in Nat
            /\ Prev[b] = NoBlock => Idx[b] = 0
            /\ Prev[b] # NoBlock => Idx[b] = Idx[Prev[b]] + 1 /\ Idx[Prev[b]] \in Nat
        BY <1>2, TreeAssumption
      <4> QED BY <3>1, <4>1, <4>2 DEF Above
    <3>3. ASSUME rest # <<>> PROVE Prev[rest[1]] = b
      <4>1. 1 \in 1 .. Len(rest) /\ 1 \in 1 .. Len(s.todo) - 1
        BY <2>4, <3>3
      <4>2. Prev[s.todo[1 + 1]] = s.todo[1]
        BY <1>1, <4>1 DEF SyncOK
      <4> QED BY <1>2, <2>4, <4>1, <4>2
    <3>4. Above(b) > s.last
      BY <2>5, <3>1, <3>2
    <3> QED BY <3>3, <3>4
  <2>9. SyncOK(new)
    <3>1. ASSUME s.ahead
          PROVE  IF rest = <<>> THEN Above(b) > s.last
                 ELSE Above(b) >= s.last /\ Prev[rest[1]] = b
      <4>1. Above(b) \in Nat /\ s.last \in Int
        BY <1>2, <2>5, TreeAssumption DEF Above
      <4>2. Above(b) > s.last /\ (rest # <<>> => Prev[rest[1]] = b)
        BY <2>8, <3>1
      <4>3. Above(b) >= s.last
        BY <4>1, <4>2
      <4> QED BY <4>2, <4>3
    <3>2. new.todo = rest /\ new.onto = b /\ new.last = s.last /\ new.ahead = s.ahead
      BY <2>5
    <3>3. SyncOK(new) <=>
             /\ \A i \in 1 .. Len(rest) - 1 : Prev[rest[i + 1]] = rest[i]
             /\ s.ahead => IF rest = <<>> THEN Above(b) > s.last
                           ELSE Above(b) >= s.last /\ Prev[rest[1]] = b
      BY <3>2, SMTT(20) DEF SyncOK
    <3> QED BY <2>7, <3>1, <3>3
  <2>10. SyncInv'
    BY <1>1, <2>5, <2>6, <2>9, SyncSet
  <2> QED BY <1>3, <2>3, <2>10, RestKept DEF SyncBlock, IInv, OnlyForksDiverge
<1>4. CASE ~Linked(n, b) /\ Diverged(n) /\ UNCHANGED stored
  <2>1. ~(s.ahead /\ s.onto = Tip(stored[n]))
    BY <1>1, <1>2, <1>4 DEF SyncOK, Linked
  <2>2. SyncInv' /\ OnlyForksDiverge'
    BY <1>1, <1>4, <2>1, DivergedKeeps
  <2>3. StoreGrows
    BY <1>4, NothingStored DEF SyncBlock
  <2> QED BY <1>4, <2>2, <2>3, RestKept DEF SyncBlock, IInv
<1> QED BY <1>3, <1>4 DEF SyncBlock

(* A node stops.                                                             *)
LEMMA CrashKeeps ==
    ASSUME IInv, NEW n \in Node, Crash(n)
    PROVE  IInv'
<1> PICK mine : mine = {id \in DOMAIN threads : id.at = n}
  OBVIOUS
<1>g. StoreGrows
  BY NothingStored DEF Crash
<1>1. ThreadInv'
  BY <1>g, EndKeeps DEF Crash
<1>2. AnswerInv'
  <2>1. \A id \in mine : \A a \in Answer(threads[id].reply, Error) : a.req # None
    BY DEF Answer
  <2>2. answers' = answers \cup UNION {Answer(threads[id].reply, Error) : id \in mine}
    BY DEF Crash
  <2> QED BY <2>1, <2>2 DEF IInv, AnswerInv
<1>3. PollInv'
  BY <1>g, PollEnds DEF Crash
<1>4. SyncInv'
  <2>1. sync' = [sync EXCEPT ![n] = None]
    BY DEF Crash
  <2> QED BY <2>1, SyncSet
<1>5. StoreInv' /\ RequestInv' /\ JobInv' /\ OnlyForksDiverge'
  BY <1>g, RestKept DEF Crash, IInv, OnlyForksDiverge
<1> QED BY <1>1, <1>2, <1>3, <1>4, <1>5 DEF IInv

-----------------------------------------------------------------------------
LEMMA NextKeeps == IInv /\ [Next]_vars => IInv'
<1> SUFFICES ASSUME IInv, [Next]_vars PROVE IInv'
  OBVIOUS
<1>1. CASE Forward
  <2>1. CASE \E id \in DOMAIN threads : SendNext(id) \/ Finish(id) \/ Walk(id) \/ Push(id)
    BY <2>1, SendNextKeeps, FinishKeeps, WalkKeeps, PushKeeps
  <2>2. CASE \E a \in answers : Return(a)
    BY <2>2, ReturnKeeps
  <2>3. ASSUME NEW r \in requests,
               ReceiveKnown(r) \/ ReceiveMissing(r) \/ Receive(r) \/ ReceiveLater(r)
        PROVE  IInv'
    <3>1. CASE ReceiveKnown(r)
      BY <3>1, ServeKeeps DEF ReceiveKnown
    <3>2. CASE ReceiveMissing(r)
      BY <3>2, ServeKeeps DEF ReceiveMissing
    <3> QED BY <2>3, <3>1, <3>2, ReceiveKeeps, ReceiveLaterKeeps
  <2>4. CASE \E j \in jobs : RunJob(j)
    BY <2>4, RunJobKeeps
  <2> QED BY <1>1, <2>1, <2>2, <2>3, <2>4 DEF Forward
<1>2. CASE Polling
  BY <1>2, PollReadKeeps, PollFillKeeps DEF Polling
<1>3. CASE Syncing
  BY <1>3, SyncFetchKeeps, SyncBlockKeeps DEF Syncing
<1>4. CASE \/ \E n \in Node, b \in Block : Mine(n, b)
           \/ \E n \in Node, x \in Txn : Submit(n, x)
           \/ \E n \in Node : \E p \in Range(Peers[n]) : SyncStart(n, p)
  BY <1>4, MineKeeps, SubmitKeeps, SyncStartKeeps
<1>5. ASSUME NEW r \in requests, Lose(r) PROVE IInv'
  BY <1>5, ServeKeeps DEF Lose
<1>6. CASE \/ \E id \in DOMAIN threads : TimeOut(id)
           \/ \E j \in jobs : LoseJob(j)
           \/ \E n \in Node : Crash(n)
  BY <1>6, TimeOutKeeps, LoseJobKeeps, CrashKeeps
<1>7. CASE UNCHANGED vars
  <2>1. StoreGrows
    BY <1>7, NothingStored DEF vars
  <2> QED BY <1>7, <2>1, RestKept DEF vars, IInv, OnlyForksDiverge
<1> QED BY <1>1, <1>2, <1>3, <1>4, <1>5, <1>6, <1>7 DEF Next

LEMMA InitHolds == Init => IInv
<1> SUFFICES ASSUME Init PROVE IInv
  OBVIOUS
<1>1. StoreInv
  BY DEF Init, StoreInv
<1>2. ThreadInv
  BY DEF Init, ThreadInv
<1>3. RequestInv /\ AnswerInv /\ JobInv /\ OnlyForksDiverge
  BY DEF Init, RequestInv, AnswerInv, JobInv, OnlyForksDiverge
<1>4. PollInv /\ SyncInv
  BY DEF Init, PollInv, SyncInv
<1> QED BY <1>1, <1>2, <1>3, <1>4 DEF IInv

(* The invariant of the flood, the fills, the tasks, the polls and the syncs:      *)
(* from it follows what they promise each other.                               *)
THEOREM GossipIsInductive == Spec => []IInv
<1>1. Init => IInv
  BY InitHolds
<1>2. IInv /\ [Next]_vars => IInv'
  BY NextKeeps
<1> QED BY <1>1, <1>2, PTL DEF Spec

(* No node stores a block without all of its ancestors, whatever was posted to it,   *)
(* polled, synced, delayed in a task or lost, for any tree and any peers.          *)
THEOREM AncestorsAreStored == Spec => []AncestorsStored
<1>1. IInv => AncestorsStored
  <2> SUFFICES ASSUME IInv, NEW n \in Node, NEW b \in stored[n] \cap Block
               PROVE  Range(Branch(b)) \subseteq stored[n]
    BY DEF AncestorsStored
  <2>1. \A c \in stored[n] \cap Block : Prev[c] # NoBlock => Prev[c] \in stored[n]
    BY DEF IInv, StoreInv
  <2> QED BY <2>1, ParentsAreAncestors
<1> QED BY <1>1, GossipIsInductive, PTL

(* A host that a post names as visited has the item, so skipping it loses nothing;    *)
(* or it has announced a polled tip in vain.                                    *)
THEOREM VisitedHostsHaveIt == Spec => []VisitedHaveIt
<1>1. IInv => VisitedHaveIt
  BY DEF IInv, RequestInv, VisitedHaveIt, Promise, Has
<1> QED BY <1>1, GossipIsInductive, PTL

(* A forward sync that was ahead of nothing but itself does not report a fork,        *)
(* however many batches it takes.                                              *)
THEOREM SyncSeesNoFalseFork == Spec => []OnlyForksDiverge
<1>1. IInv => OnlyForksDiverge
  BY DEF IInv
<1> QED BY <1>1, GossipIsInductive, PTL
=============================================================================
