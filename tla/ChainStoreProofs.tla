-------------------------- MODULE ChainStoreProofs --------------------------
(***************************************************************************)
(* Proofs about ChainStore, for any blocks, any number of workers and any   *)
(* bounds.                                                                  *)
(***************************************************************************)
EXTENDS ChainStore, Lemmas, SequenceTheorems, WellFoundedInduction, TLAPS

-----------------------------------------------------------------------------
(* The walk back from the top of p meets m, or the genesis, somewhere.       *)
LEMMA CommonAncestorProperties ==
    ASSUME NEW m \in Seq(Block), NEW p \in Seq(Block)
    PROVE  LET k == CommonAncestor(m, p)
           IN  /\ k \in 0 .. Len(p)
               /\ k > 0 => p[k] \in Elements(m)
               /\ \A j \in k + 1 .. Len(p) : p[j] \notin Elements(m)
<1> DEFINE K == {k \in 0 .. Len(p) : k > 0 => p[k] \in Elements(m)}
<1>1. Len(p) \in Nat
  OBVIOUS
<1>2. K \subseteq 0 .. Len(p) /\ 0 \in K
  BY <1>1
<1>3. PICK k \in K : \A j \in K : j <= k
  BY <1>1, <1>2, GreatestExists
<1>4. \A j \in k + 1 .. Len(p) : p[j] \notin Elements(m)
  BY <1>1, <1>3
<1> QED BY <1>3, <1>4 DEF CommonAncestor

-----------------------------------------------------------------------------
(* The strengthening: a database, committed or not, whose ancestries are      *)
(* complete, whose rows have distinct stored tips, and whose materialization  *)
(* is one of the ancestries, with no row ahead of it.                         *)
StoreOK(d) ==
    /\ d \in Database
    /\ \A b \in Stored(d) : AncestryOf(d, b)
    /\ RowsOf(d)
    /\ MatOf(d)
    /\ AllBehind(d)

(* The part of Validates that is about the header alone, and stays true.     *)
LinkOK(d, b) ==
    /\ IsGenesis(b) => Idx[b] = 0
    /\ ~IsGenesis(b) => /\ Prev[b] \in Stored(d)
                        /\ Time[b] >= Time[Prev[b]]
                        /\ Idx[b] = Idx[Prev[b]] + 1

LEMMA PathFacts ==
    ASSUME NEW d \in Database, NEW b \in Stored(d), AncestryOf(d, b)
    PROVE  /\ b \in Block
           /\ d.anc[b] \in Seq(Block)
           /\ Len(d.anc[b]) \in Nat \ {0}
           /\ d.anc[b][Len(d.anc[b])] = b
           /\ Idx[b] = Len(d.anc[b]) - 1
           /\ \A i \in 1 .. Len(d.anc[b]) :
                 /\ d.anc[b][i] \in Stored(d)
                 /\ d.anc[d.anc[b][i]] = SubSeq(d.anc[b], 1, i)
<1>1. b \in Block /\ d.anc[b] \in Seq(Block) /\ d.anc[b] # <<>>
  BY DEF Database, Stored
<1> DEFINE p == d.anc[b]
<1>2. Len(p) \in Nat \ {0}
  BY <1>1, EmptySeq
<1>3. p[Len(p)] = b /\ Idx[b] = Len(p) - 1
  BY <1>2 DEF AncestryOf, Top
<1>4. ASSUME NEW i \in 1 .. Len(p)
      PROVE  p[i] \in Stored(d) /\ d.anc[p[i]] = SubSeq(p, 1, i)
  <2>1. d.anc[p[i]] = SubSeq(p, 1, i) /\ p[i] \in Block
    BY <1>1, <1>2, ElementOfSeq DEF AncestryOf
  <2>2. Len(SubSeq(p, 1, i)) = i
    BY <1>1, <1>2, SubSeqProperties, ElementOfSeq
  <2>3. SubSeq(p, 1, i) # <<>>
    BY <2>2, EmptySeq
  <2> QED BY <2>1, <2>3 DEF Stored
<1> QED BY <1>1, <1>2, <1>3, <1>4

(* The smart reorg turns one ancestry into another, never into a mixture.    *)
LEMMA MaterializeOK ==
    ASSUME NEW d \in Database, \A c \in Stored(d) : AncestryOf(d, c), MatOf(d),
           NEW b \in Stored(d)
    PROVE  LET m == Materialize(d.mat, d.anc[b])
           IN  m # <<>> /\ Top(m) \in Stored(d) /\ m = d.anc[Top(m)] /\ Idx[b] < Len(m)
<1> DEFINE p == d.anc[b]
           k == CommonAncestor(d.mat, p)
           pos == IF k = 0 THEN 0
                  ELSE CHOOSE i \in 1 .. Len(d.mat) : d.mat[i] = p[k]
<1>1. /\ p \in Seq(Block) /\ Len(p) \in Nat \ {0} /\ p[Len(p)] = b
      /\ \A i \in 1 .. Len(p) : d.anc[p[i]] = SubSeq(p, 1, i)
  BY PathFacts
<1>2. d.mat \in Seq(Block) /\ Len(d.mat) \in Nat
  BY DEF Database
<1>3. k \in 0 .. Len(p) /\ (k > 0 => p[k] \in Elements(d.mat))
  BY <1>1, <1>2, CommonAncestorProperties
<1>4. p # <<>> /\ Top(p) = b /\ p = d.anc[Top(p)] /\ Idx[b] < Len(p)
  <2>1. Idx[b] = Len(p) - 1
    BY PathFacts
  <2> QED BY <1>1, <2>1, EmptySeq DEF Top
<1>5. Materialize(d.mat, p) = IF k = Len(p) THEN d.mat
                              ELSE SubSeq(d.mat, 1, pos) \o SubSeq(p, k + 1, Len(p))
  BY DEF Materialize
<1> HIDE DEF k, pos
<1>6. CASE k = Len(p)
  <2>1. Materialize(d.mat, p) = d.mat
    BY <1>5, <1>6
  <2>2. d.mat # <<>>
    BY <1>1, <1>2, <1>3, <1>6, EmptySeq DEF Elements
  <2>3. Top(d.mat) \in Stored(d) /\ d.mat = d.anc[Top(d.mat)]
    BY <2>2 DEF MatOf
  <2>4. PICK i \in 1 .. Len(d.mat) : d.mat[i] = b
    BY <1>1, <1>3, <1>6 DEF Elements
  <2>5. AncestryOf(d, Top(d.mat))
    BY <2>3
  <2>6. Idx[d.mat[i]] = i - 1
    BY <2>3, <2>5 DEF AncestryOf
  <2>7. Idx[b] < Len(d.mat)
    BY <1>2, <2>4, <2>6
  <2> QED BY <2>1, <2>2, <2>3, <2>7
<1>7. CASE k = 0
  <2>1. pos = 0
    BY <1>7 DEF pos
  <2>2. SubSeq(d.mat, 1, pos) = <<>>
    BY <2>1, SubSeqEmpty
  <2>3. SubSeq(p, k + 1, Len(p)) = p
    BY <1>1, <1>7, SubSeqFull
  <2>4. Materialize(d.mat, p) = <<>> \o p
    <3>1. k # Len(p)
      BY <1>1, <1>7
    <3> HIDE DEF p
    <3> QED BY <1>5, <2>2, <2>3, <3>1
  <2>5. <<>> \o p = p
    BY <1>1, ConcatEmptySeq
  <2> QED BY <1>4, <2>4, <2>5
<1>8. CASE k > 0 /\ k < Len(p)
  <2>1. k \in 1 .. Len(p) /\ k # Len(p)
    BY <1>1, <1>3, <1>8
  <2>2. pos \in 1 .. Len(d.mat) /\ d.mat[pos] = p[k]
    <3>1. \E i \in 1 .. Len(d.mat) : d.mat[i] = p[k]
      BY <1>3, <1>8 DEF Elements
    <3>2. pos = CHOOSE i \in 1 .. Len(d.mat) : d.mat[i] = p[k]
      BY <1>8 DEF pos
    <3> HIDE DEF p
    <3> QED BY <3>1, <3>2
  <2>3. d.mat # <<>>
    BY <1>2, <2>2, EmptySeq
  <2>4. d.anc[d.mat[pos]] = SubSeq(d.mat, 1, pos)
    <3>1. PICK t \in Stored(d) : d.mat = d.anc[t]
      BY <2>3 DEF MatOf
    <3>2. \A i \in 1 .. Len(d.anc[t]) : d.anc[d.anc[t][i]] = SubSeq(d.anc[t], 1, i)
      BY PathFacts
    <3> QED BY <2>2, <3>1, <3>2
  <2>5. SubSeq(d.mat, 1, pos) = SubSeq(p, 1, k)
    BY <1>1, <2>1, <2>2, <2>4
  <2>6. SubSeq(p, 1, k) \o SubSeq(p, k + 1, Len(p)) = SubSeq(p, 1, Len(p))
    BY <1>1, <2>1, ConcatAdjacentSubSeq
  <2>7. SubSeq(p, 1, Len(p)) = p
    BY <1>1, SubSeqFull
  <2>8. Materialize(d.mat, p) = p
    BY <1>5, <2>1, <2>5, <2>6, <2>7
  <2> QED BY <1>4, <2>8
<1> QED BY <1>1, <1>3, <1>6, <1>7, <1>8

LEMMA ExtendSequence ==
    ASSUME NEW q \in Seq(Block), NEW b \in Block
    PROVE  LET p == Append(q, b)
           IN  /\ p \in Seq(Block)
               /\ Len(p) = Len(q) + 1
               /\ p[Len(p)] = b
               /\ SubSeq(p, 1, Len(p)) = p
               /\ \A i \in 1 .. Len(q) : p[i] = q[i] /\ SubSeq(p, 1, i) = SubSeq(q, 1, i)
<1> DEFINE p == Append(q, b)
<1>1. p \in Seq(Block) /\ Len(p) = Len(q) + 1 /\ p[Len(p)] = b
      /\ \A i \in 1 .. Len(q) : p[i] = q[i]
  OBVIOUS
<1>2. SubSeq(p, 1, Len(p)) = p
  BY <1>1, SubSeqFull
<1>3. p = q \o <<b>>
  OBVIOUS
<1>4. ASSUME NEW i \in 1 .. Len(q) PROVE SubSeq(p, 1, i) = SubSeq(q, 1, i)
  <2>1. <<b>> \in Seq(Block) /\ 1 \in 1 .. Len(q)
    OBVIOUS
  <2>2. SubSeq(q \o <<b>>, 1, i) = SubSeq(q, 1, i)
    BY <2>1, SubSeqOfConcat1
  <2> QED BY <1>3, <2>2
<1> HIDE DEF p
<1>5. /\ p \in Seq(Block) /\ Len(p) = Len(q) + 1 /\ p[Len(p)] = b
      /\ SubSeq(p, 1, Len(p)) = p
      /\ \A i \in 1 .. Len(q) : p[i] = q[i] /\ SubSeq(p, 1, i) = SubSeq(q, 1, i)
  BY <1>1, <1>2, <1>4
<1> QED BY <1>5 DEF p

LEMMA StoreBlockAnc ==
    ASSUME NEW d \in Database, NEW b \in Block \ Stored(d)
    PROVE  LET e == StoreBlock(d, b)
               p == IF Prev[b] \in Stored(d) THEN Append(d.anc[Prev[b]], b) ELSE <<b>>
           IN  /\ e \in Database
               /\ e.row = d.row
               /\ e.mat = d.mat
               /\ e.anc[b] = p
               /\ \A c \in Block \ {b} : e.anc[c] = d.anc[c]
               /\ Stored(e) = Stored(d) \cup {b}
<1> DEFINE e == StoreBlock(d, b)
           p == IF Prev[b] \in Stored(d) THEN Append(d.anc[Prev[b]], b) ELSE <<b>>
<1>1. p \in Seq(Block) /\ p # <<>>
  <2>1. CASE Prev[b] \in Stored(d)
    <3>1. d.anc[Prev[b]] \in Seq(Block)
      BY <2>1 DEF Stored, Database
    <3> QED BY <2>1, <3>1
  <2>2. CASE Prev[b] \notin Stored(d)
    BY <2>2
  <2> QED BY <2>1, <2>2
<1>2. e = [d EXCEPT !.anc = [d.anc EXCEPT ![b] = p]]
  BY DEF StoreBlock
<1> HIDE DEF e, p
<1>3. e \in Database /\ e.row = d.row /\ e.mat = d.mat
      /\ e.anc = [d.anc EXCEPT ![b] = p]
  BY <1>1, <1>2 DEF Database
<1>4. e.anc[b] = p /\ \A c \in Block \ {b} : e.anc[c] = d.anc[c]
  BY <1>3 DEF Database
<1>5. Stored(e) = Stored(d) \cup {b}
  BY <1>1, <1>4 DEF Stored
<1> QED BY <1>3, <1>4, <1>5 DEF e, p

(* A block whose parent is stored keeps every ancestry complete.             *)
LEMMA StoreBlockOK ==
    ASSUME NEW d, StoreOK(d), NEW b \in Block, LinkOK(d, b)
    PROVE  /\ StoreOK(StoreBlock(d, b))
           /\ Stored(StoreBlock(d, b)) = Stored(d) \cup {b}
<1> USE HeaderAssumption
<1>0. /\ d \in Database /\ (\A c \in Stored(d) : AncestryOf(d, c)) /\ RowsOf(d) /\ MatOf(d)
      /\ AllBehind(d)
  BY DEF StoreOK
<1>1. CASE b \in Stored(d)
  BY <1>0, <1>1 DEF StoreBlock, StoreOK
<1>2. CASE b \notin Stored(d)
  <2> DEFINE e == StoreBlock(d, b)
             p == IF Prev[b] \in Stored(d) THEN Append(d.anc[Prev[b]], b) ELSE <<b>>
  <2>1. /\ e \in Database /\ e.row = d.row /\ e.mat = d.mat
        /\ e.anc[b] = p /\ \A c \in Block \ {b} : e.anc[c] = d.anc[c]
        /\ Stored(e) = Stored(d) \cup {b}
    BY <1>0, <1>2, StoreBlockAnc
  <2> HIDE DEF e
  <2>2. ASSUME NEW c \in Stored(d) PROVE AncestryOf(e, c)
    <3>1. c # b /\ c \in Block /\ e.anc[c] = d.anc[c]
      BY <1>2, <2>1 DEF Stored
    <3>2. ASSUME NEW i \in 1 .. Len(d.anc[c])
          PROVE  e.anc[d.anc[c][i]] = d.anc[d.anc[c][i]]
      <4>1. d.anc[c][i] \in Stored(d)
        BY <1>0, PathFacts
      <4> QED BY <1>2, <2>1, <4>1 DEF Stored
    <3>3. AncestryOf(d, c)
      BY <1>0
    <3> QED BY <3>1, <3>2, <3>3 DEF AncestryOf
  <2>3. AncestryOf(e, b)
    <3>1. CASE Prev[b] \in Stored(d)
      <4> DEFINE q == d.anc[Prev[b]]
      <4>1. /\ q \in Seq(Block) /\ Len(q) \in Nat \ {0} /\ q[Len(q)] = Prev[b]
            /\ Idx[Prev[b]] = Len(q) - 1
            /\ \A i \in 1 .. Len(q) : q[i] \in Stored(d) /\ d.anc[q[i]] = SubSeq(q, 1, i)
        BY <1>0, <3>1, PathFacts
      <4>2. /\ IsGenesis(q[1])
            /\ \A i \in 1 .. Len(q) : Idx[q[i]] = i - 1
            /\ \A i \in 1 .. Len(q) - 1 :
                  Prev[q[i + 1]] = q[i] /\ Time[q[i]] <= Time[q[i + 1]]
        <5>1. AncestryOf(d, Prev[b])
          BY <1>0, <3>1
        <5> QED BY <5>1 DEF AncestryOf
      <4>3. Idx[b] = Len(q) /\ Time[Prev[b]] <= Time[b]
        BY <3>1, <4>1, <1>0 DEF LinkOK, IsGenesis, Stored
      <4> HIDE DEF q
      <4>4. p = Append(q, b)
        BY <3>1 DEF q
      <4> HIDE DEF p
      <4>5. /\ Len(p) = Len(q) + 1 /\ p[Len(p)] = b /\ SubSeq(p, 1, Len(p)) = p
            /\ \A i \in 1 .. Len(q) : p[i] = q[i] /\ SubSeq(p, 1, i) = SubSeq(q, 1, i)
        <5>1. q \in Seq(Block)
          BY <4>1
        <5>2. p = Append(q, b)
          BY <4>4
        <5> HIDE DEF q
        <5> DEFINE r == Append(q, b)
        <5>3. /\ Len(r) = Len(q) + 1 /\ r[Len(r)] = b /\ SubSeq(r, 1, Len(r)) = r
              /\ \A i \in 1 .. Len(q) : r[i] = q[i] /\ SubSeq(r, 1, i) = SubSeq(q, 1, i)
          BY <5>1, ExtendSequence, Zenon
        <5>4. p = r
          BY <5>2
        <5> HIDE DEF r
        <5> QED BY <5>3, <5>4, Zenon
      <4>a. Len(q) \in Nat \ {0} /\ Len(p) = Len(q) + 1
        BY <4>1, <4>5
      <4>6. ASSUME NEW i \in 1 .. Len(p)
            PROVE  Idx[p[i]] = i - 1 /\ e.anc[p[i]] = SubSeq(p, 1, i)
        <5>1. CASE i = Len(p)
          <6>1. p[i] = b /\ SubSeq(p, 1, i) = p
            BY <4>5, <5>1
          <6>2. i - 1 = Len(q)
            BY <4>a, <5>1
          <6>3. e.anc[b] = p /\ Idx[b] = Len(q)
            BY <2>1, <4>3
          <6> QED BY <6>1, <6>2, <6>3
        <5>2. CASE i # Len(p)
          <6>1. i \in 1 .. Len(q) /\ p[i] = q[i] /\ SubSeq(p, 1, i) = SubSeq(q, 1, i)
            <7>1. i \in 1 .. Len(q)
              BY <4>a, <5>2
            <7> QED BY <4>5, <7>1
          <6>2. q[i] \in Block \ {b}
            BY <1>2, <4>1, <6>1 DEF Stored
          <6>3. Idx[q[i]] = i - 1
            BY <4>2, <6>1
          <6>4. e.anc[q[i]] = d.anc[q[i]]
            BY <2>1, <6>2
          <6>5. d.anc[q[i]] = SubSeq(q, 1, i)
            BY <4>1, <6>1
          <6> QED BY <6>1, <6>3, <6>4, <6>5
        <5> QED BY <5>1, <5>2
      <4>7. ASSUME NEW i \in 1 .. Len(p) - 1
            PROVE  Prev[p[i + 1]] = p[i] /\ Time[p[i]] <= Time[p[i + 1]]
        <5>1. i \in 1 .. Len(q) /\ p[i] = q[i]
          BY <4>1, <4>5
        <5>2. CASE i = Len(q)
          BY <4>1, <4>3, <4>5, <5>1, <5>2
        <5>3. CASE i # Len(q)
          <6>1. i \in 1 .. Len(q) - 1 /\ i + 1 \in 1 .. Len(q)
            BY <4>1, <5>1, <5>3
          <6> QED BY <4>2, <4>5, <5>1, <6>1
        <5> QED BY <5>2, <5>3
      <4>8. IsGenesis(p[1]) /\ Top(p) = b
        <5>1. 1 \in 1 .. Len(q)
          BY <4>a
        <5>2. p[1] = q[1] /\ p[Len(p)] = b
          BY <4>5, <5>1
        <5> QED BY <4>2, <5>2 DEF Top
      <4> QED BY <2>1, <4>6, <4>7, <4>8 DEF AncestryOf
    <3>2. CASE Prev[b] \notin Stored(d)
      <4>1. IsGenesis(b) /\ Idx[b] = 0 /\ p = <<b>>
        BY <3>2 DEF LinkOK
      <4>2. e.anc[b] = <<b>>
        BY <2>1, <4>1
      <4>3. SubSeq(<<b>>, 1, 1) = <<b>>
        <5>1. <<b>> \in Seq(Block) /\ Len(<<b>>) = 1
          OBVIOUS
        <5> QED BY <5>1, SubSeqFull
      <4> DEFINE r == <<b>>
      <4>4. Len(r) = 1 /\ r[1] = b /\ r # <<>>
        OBVIOUS
      <4>5. SubSeq(r, 1, 1) = r /\ e.anc[b] = r
        BY <4>2, <4>3
      <4> HIDE DEF r
      <4>6. Top(r) = b /\ IsGenesis(r[1])
        BY <4>1, <4>4 DEF Top
      <4>7. ASSUME NEW i \in 1 .. Len(r)
            PROVE  Idx[r[i]] = i - 1 /\ e.anc[r[i]] = SubSeq(r, 1, i)
        <5>1. i = 1
          BY <4>4
        <5> QED BY <4>1, <4>4, <4>5, <5>1
      <4>8. 1 .. Len(r) - 1 = {}
        BY <4>4
      <4> QED BY <4>5, <4>6, <4>7, <4>8 DEF AncestryOf
    <3> QED BY <3>1, <3>2
  <2>4. RowsOf(e)
    BY <1>0, <2>1 DEF RowsOf, Tips, IsRow
  <2>5. MatOf(e)
    BY <1>0, <1>2, <2>1 DEF MatOf, Stored
  <2>6. AllBehind(e)
    BY <1>0, <2>1 DEF AllBehind, IsRow
  <2> QED BY <2>1, <2>2, <2>3, <2>4, <2>5, <2>6 DEF StoreOK, e
<1> QED BY <1>1, <1>2

(* Saving a chain whose tip is stored: the row chosen is the only one with   *)
(* that tip, pruning only removes rows, and the reorg yields an ancestry.    *)
LEMMA SaveChainOK ==
    ASSUME NEW d, StoreOK(d), NEW b \in Stored(d), NEW c,
           ChainRow(d, b, c) \in RowId
    PROVE  /\ StoreOK(SaveChain(d, b, c))
           /\ Stored(SaveChain(d, b, c)) = Stored(d)
<1> USE HeaderAssumption, BoundAssumption
<1>0. /\ d \in Database /\ (\A a \in Stored(d) : AncestryOf(d, a)) /\ RowsOf(d) /\ MatOf(d)
      /\ AllBehind(d) /\ b \in Block
  BY DEF StoreOK, Stored
<1> DEFINE r == ChainRow(d, b, c)
           e == [d EXCEPT !.row = [d.row EXCEPT ![r] = b]]
           f == SyncLongest(e, r)
<1>1. /\ e \in Database /\ e.anc = d.anc /\ e.mat = d.mat
      /\ e.row = [d.row EXCEPT ![r] = b]
  BY <1>0 DEF Database
<1>2. \A q \in RowId : d.row[q] = b => q = r
  <2>1. ASSUME NEW q \in RowId, d.row[q] = b PROVE q = r
    <3>1. b \in Tips(d) /\ IsRow(d, q)
      BY <1>0, <2>1 DEF Tips, IsRow
    <3>2. r = CHOOSE x \in RowId : d.row[x] = b
      BY <3>1 DEF ChainRow, RowWithTip
    <3>3. d.row[r] = b
      BY <2>1, <3>2
    <3> QED BY <1>0, <2>1, <3>1, <3>3 DEF RowsOf
  <2> QED BY <2>1
<1> HIDE DEF r
<1>3. r \in RowId
  BY DEF r
<1>4. SaveChain(d, b, c) = f
  BY DEF SaveChain, r
<1> HIDE DEF e
<1>5. Stored(e) = Stored(d)
  BY <1>1 DEF Stored
<1>6. RowsOf(e)
  <2>1. Tips(e) \subseteq Stored(e)
    BY <1>0, <1>1, <1>3, <1>5 DEF RowsOf, Tips, Database
  <2>2. ASSUME NEW p \in RowId, NEW q \in RowId, IsRow(e, q), e.row[p] = e.row[q]
        PROVE  p = q
    BY <1>0, <1>1, <1>2, <1>3, <2>2 DEF RowsOf, IsRow, Database
  <2> QED BY <2>1, <2>2 DEF RowsOf
<1>7. (\A a \in Stored(e) : AncestryOf(e, a)) /\ MatOf(e)
  <2>1. ASSUME NEW a \in Stored(e) PROVE AncestryOf(e, a)
    <3>1. AncestryOf(d, a)
      BY <1>0, <1>5
    <3> QED BY <1>1, <3>1 DEF AncestryOf
  <2>2. MatOf(e)
    BY <1>0, <1>1, <1>5 DEF MatOf
  <2> QED BY <2>1, <2>2
<1>a. /\ e.row[r] = b /\ IsRow(e, r)
      /\ \A q \in RowId \ {r} : e.row[q] = d.row[q] /\ (IsRow(e, q) => Idx[e.row[q]] < Len(e.mat))
  BY <1>0, <1>1, <1>3 DEF AllBehind, IsRow, Database
<1>b. Len(e.mat) \in Nat /\ \A q \in RowId : IsRow(e, q) => Idx[e.row[q]] \in Nat
  BY <1>1 DEF Database, IsRow
<1>8. CASE ~IsLongest(e, r)
  <2>1. f = e
    BY <1>8 DEF SyncLongest
  <2>2. PICK q \in RowId \ {r} : IsRow(e, q) /\ ~Better(e.row[r], e.row[q])
    BY <1>8, <1>a DEF IsLongest
  <2>3. Idx[e.row[r]] <= Idx[e.row[q]]
    BY <1>3, <1>a, <1>b, <2>2 DEF Better
  <2>4. AllBehind(e)
    BY <1>3, <1>a, <1>b, <2>2, <2>3 DEF AllBehind
  <2> QED BY <1>1, <1>4, <1>5, <1>6, <1>7, <2>1, <2>4 DEF StoreOK
<1>9. CASE IsLongest(e, r)
  <2> DEFINE m == Materialize(e.mat, e.anc[e.row[r]])
             kept == PruneStaleForks(e, r)
  <2>1. f = [e EXCEPT !.mat = m, !.row = kept]
    BY <1>9 DEF SyncLongest
  <2>2. e.row[r] \in Stored(e)
    BY <1>0, <1>1, <1>3, <1>5 DEF Database
  <2>3. m # <<>> /\ Top(m) \in Stored(e) /\ m = e.anc[Top(m)] /\ Idx[b] < Len(m)
    BY <1>1, <1>7, <1>a, <2>2, MaterializeOK
  <2>4. m \in Seq(Block)
    BY <1>1, <2>3 DEF Stored, Database
  <2>5. /\ kept \in [RowId -> Block \cup {NoBlock}]
        /\ \A q \in RowId : kept[q] = e.row[q] \/ kept[q] = NoBlock
    BY <1>1 DEF PruneStaleForks, Database
  <2> HIDE DEF m, kept, f
  <2>6. f \in Database /\ f.anc = e.anc /\ f.mat = m /\ f.row = kept
    BY <1>1, <2>1, <2>4, <2>5 DEF Database
  <2>7. Stored(f) = Stored(e)
    BY <2>6 DEF Stored
  <2>8. RowsOf(f)
    <3>1. Tips(f) \subseteq Tips(e)
      BY <2>5, <2>6 DEF Tips
    <3>2. ASSUME NEW p \in RowId, NEW q \in RowId, IsRow(f, q), f.row[p] = f.row[q]
          PROVE  p = q
      <4>1. IsRow(e, q) /\ e.row[p] = e.row[q]
        BY <2>5, <2>6, <3>2 DEF IsRow
      <4> QED BY <1>6, <4>1 DEF RowsOf
    <3> QED BY <1>6, <2>7, <3>1, <3>2 DEF RowsOf
  <2>9. (\A a \in Stored(f) : AncestryOf(f, a)) /\ MatOf(f)
    <3>1. ASSUME NEW a \in Stored(f) PROVE AncestryOf(f, a)
      <4>1. AncestryOf(e, a)
        BY <1>7, <2>7
      <4> QED BY <2>6, <4>1 DEF AncestryOf
    <3>2. MatOf(f)
      BY <2>3, <2>6, <2>7 DEF MatOf
    <3> QED BY <3>1, <3>2
  <2>10. AllBehind(f)
    <3>1. ASSUME NEW q \in RowId, IsRow(f, q) PROVE Idx[f.row[q]] < Len(f.mat)
      <4>1. IsRow(e, q) /\ f.row[q] = e.row[q]
        BY <2>5, <2>6, <3>1 DEF IsRow
      <4>2. q = r \/ Better(e.row[r], e.row[q])
        BY <1>9, <4>1 DEF IsLongest
      <4>3. Idx[e.row[q]] <= Idx[b]
        BY <1>3, <1>a, <1>b, <4>1, <4>2 DEF Better
      <4>4. Len(m) \in Nat
        BY <2>4
      <4> QED BY <1>3, <1>a, <1>b, <2>3, <2>6, <4>1, <4>3, <4>4
    <3> QED BY <3>1 DEF AllBehind
  <2> QED BY <1>4, <1>5, <2>6, <2>7, <2>8, <2>9, <2>10 DEF StoreOK
<1> QED BY <1>8, <1>9
-----------------------------------------------------------------------------
(* The inductive invariant.  The committed and the uncommitted database are   *)
(* both sound and differ only while one worker, the only one, runs a batch;   *)
(* what a worker has established about the committed database (its block's    *)
(* parent is stored, its block is stored, its new blocks are stored) still    *)
(* holds, because block rows are never removed.                               *)
WorkerOK(w) ==
    /\ pc[w] \in {"loaded", "validated", "stored", "accepted"} => task[w].blk \in Block
    /\ pc[w] = "validated" => LinkOK(db, task[w].blk)
    /\ pc[w] \in {"stored", "accepted"} => task[w].blk \in Stored(db)
    /\ pc[w] = "signalling" => fresh[w] # <<>>
    /\ \A i \in 1 .. Len(fresh[w]) :
          fresh[w][i] \in Stored(IF pc[w] = "applying" THEN tx ELSE db)

StoresOK ==
    /\ StoreOK(db)
    /\ StoreOK(tx)
    /\ Stored(db) \subseteq Stored(tx)
    /\ Unlocked => tx = db

OneWriter ==
    \A v, w \in Worker : pc[v] = "applying" /\ pc[w] = "applying" => v = w

IInv ==
    /\ TypeOK
    /\ StoresOK
    /\ OneWriter
    /\ \A w \in Worker : WorkerOK(w)
    /\ SignalledStored

(* What a worker knows survives the steps of the others.                     *)
LEMMA OthersKeep ==
    ASSUME NEW v \in Worker, WorkerOK(v),
           pc'[v] = pc[v], task'[v] = task[v], fresh'[v] = fresh[v],
           Stored(db) \subseteq Stored(db'),
           pc[v] = "applying" => Stored(tx) \subseteq Stored(tx')
    PROVE  WorkerOK(v)'
<1>1. pc[v] = "validated" => LinkOK(db', task[v].blk)
  BY DEF WorkerOK, LinkOK
<1> QED BY <1>1 DEF WorkerOK

(* Validation establishes the link that committing the block relies on.      *)
LEMMA ValidatesLink ==
    ASSUME NEW d, NEW b, Validates(d, b)
    PROVE  LinkOK(d, b)
BY DEF Validates, LinkOK

LEMMA EmptyOK == StoreOK(EmptyDatabase) /\ Stored(EmptyDatabase) = {}
<1>1. Stored(EmptyDatabase) = {}
  BY DEF Stored, EmptyDatabase
<1>2. EmptyDatabase \in Database
  BY DEF EmptyDatabase, Database
<1>3. RowsOf(EmptyDatabase) /\ MatOf(EmptyDatabase)
  BY DEF RowsOf, Tips, IsRow, MatOf, EmptyDatabase
<1>4. AllBehind(EmptyDatabase)
  BY DEF AllBehind, IsRow, EmptyDatabase
<1> QED BY <1>1, <1>2, <1>3, <1>4 DEF StoreOK

LEMMA IdleIsTask == Idle \in Task
BY DEF Idle, Task, NoRow

LEMMA InitIInv == Init => IInv
<1> SUFFICES ASSUME Init PROVE IInv
  OBVIOUS
<1> USE DEF Init
<1>1. StoresOK
  BY EmptyOK DEF StoresOK
<1>2. TypeOK
  BY EmptyOK DEF TypeOK, StoreOK, Idle, Task, Label
<1>3. OneWriter /\ SignalledStored /\ \A w \in Worker : WorkerOK(w)
  BY DEF OneWriter, SignalledStored, WorkerOK
<1> QED BY <1>1, <1>2, <1>3 DEF IInv

-----------------------------------------------------------------------------
(* The steps that leave both databases, fresh and news alone.                *)
LEMMA ReadStepKeeps ==
    ASSUME IInv, NEW w \in Worker, UNCHANGED <<db, tx, fresh, news>>, TypeOK',
           pc[w] # "applying",
           \A v \in Worker \ {w} : pc'[v] = pc[v] /\ task'[v] = task[v],
           pc'[w] = "applying" => Unlocked,
           pc'[w] # "signalling",
           WorkerOK(w)'
    PROVE  IInv'
<1> USE DEF IInv
<1>1. StoresOK'
  <2>1. Unlocked' => Unlocked
    BY DEF Unlocked
  <2> QED BY <2>1 DEF StoresOK
<1>2. OneWriter'
  BY DEF OneWriter, Unlocked
<1>3. ASSUME NEW v \in Worker PROVE WorkerOK(v)'
  BY <1>3, OthersKeep
<1>4. SignalledStored'
  BY DEF SignalledStored
<1> QED BY <1>1, <1>2, <1>3, <1>4
(* The steps that change no database: what each must show is small.          *)
LEMMA AcceptReadSteps ==
    ASSUME IInv, NEW w \in Worker,
           \/ \E b \in Block, mode \in {"live", "import", "sync"} : Begin(w, b, mode)
           \/ Validate(w)
           \/ Reject(w)
    PROVE  IInv'
<1> USE DEF IInv
<1>1. CASE \E b \in Block, mode \in {"live", "import", "sync"} : Begin(w, b, mode)
  <2>1. PICK b \in Block, mode \in {"live", "import", "sync"} : Begin(w, b, mode)
    BY <1>1
  <2>2. RowWithTip(db, Prev[b]) \in RowId \cup {NoRow}
    BY DEF RowWithTip, Tips
  <2>3. TypeOK'
    BY <2>1, <2>2 DEF TypeOK, Begin, Goto, Task, Label
  <2>4. WorkerOK(w)'
    BY <2>1 DEF TypeOK, WorkerOK, Begin, Goto
  <2> QED BY <2>1, <2>3, <2>4, ReadStepKeeps DEF TypeOK, Begin, Goto
<1>2. CASE Validate(w)
  <2>1. TypeOK'
    BY <1>2 DEF TypeOK, Validate, Goto, Label
  <2>2. LinkOK(db', task'[w].blk)
    BY <1>2, ValidatesLink DEF Validate
  <2>3. WorkerOK(w)'
    BY <1>2, <2>2 DEF TypeOK, WorkerOK, Validate, Goto
  <2> QED BY <1>2, <2>1, <2>3, ReadStepKeeps DEF TypeOK, Validate, Goto
<1>3. CASE Reject(w)
  <2>1. TypeOK'
    BY <1>3 DEF TypeOK, Reject, Finish, Goto, Idle, Task, Label
  <2>2. WorkerOK(w)'
    BY <1>3 DEF TypeOK, WorkerOK, Reject, Finish, Goto
  <2> QED BY <1>3, <2>1, <2>2, ReadStepKeeps DEF TypeOK, Reject, Finish, Goto
<1> QED BY <1>1, <1>2, <1>3

LEMMA FillReadSteps ==
    ASSUME IInv, NEW w \in Worker,
           \/ \E b \in Block : FillStart(w, b)
           \/ FillWalk(w)
           \/ FillTooDeep(w)
           \/ FillBegin(w)
    PROVE  IInv'
<1> USE DEF IInv
<1>1. CASE \E b \in Block : FillStart(w, b)
  <2>1. PICK b \in Block : FillStart(w, b)
    BY <1>1
  <2>2. TypeOK'
    BY <2>1 DEF TypeOK, FillStart, Goto, Label
  <2>3. WorkerOK(w)'
    BY <2>1 DEF TypeOK, WorkerOK, FillStart, Goto
  <2> QED BY <2>1, <2>2, <2>3, ReadStepKeeps DEF TypeOK, FillStart, Goto
<1>2. CASE FillWalk(w)
  <2>1. <<Prev[queue[w][1]]>> \o queue[w] \in Seq(Block)
    <3>1. Prev[queue[w][1]] \in Block /\ queue[w] \in Seq(Block)
      BY <1>2 DEF TypeOK, FillWalk
    <3> DEFINE h == Prev[queue[w][1]]
    <3>2. <<h>> \in Seq(Block)
      BY <3>1
    <3> HIDE DEF h
    <3> QED BY <3>1, <3>2, ConcatProperties
  <2>2. TypeOK'
    BY <1>2, <2>1 DEF TypeOK, FillWalk
  <2>3. WorkerOK(w)'
    BY <1>2 DEF TypeOK, WorkerOK, FillWalk
  <2> QED BY <1>2, <2>2, <2>3, ReadStepKeeps DEF TypeOK, FillWalk
<1>3. CASE FillTooDeep(w)
  <2>1. TypeOK'
    BY <1>3 DEF TypeOK, FillTooDeep, Goto, Label
  <2>2. WorkerOK(w)'
    BY <1>3 DEF TypeOK, WorkerOK, FillTooDeep, Goto
  <2> QED BY <1>3, <2>1, <2>2, ReadStepKeeps DEF TypeOK, FillTooDeep, Goto
<1>4. CASE FillBegin(w)
  <2>1. TypeOK'
    BY <1>4 DEF TypeOK, FillBegin, Goto, Label
  <2>2. WorkerOK(w)'
    BY <1>4 DEF TypeOK, WorkerOK, FillBegin, Goto, StoresOK
  <2> QED BY <1>4, <2>1, <2>2, ReadStepKeeps DEF TypeOK, FillBegin, Goto
<1> QED BY <1>1, <1>2, <1>3, <1>4

-----------------------------------------------------------------------------
(* The steps that write the database outside a batch.                        *)
LEMMA CommitStepKeeps ==
    ASSUME IInv, NEW w \in Worker, Unlocked, TypeOK',
           StoreOK(db'), tx' = db', Stored(db) \subseteq Stored(db'),
           UNCHANGED <<fresh, news>>,
           \A v \in Worker \ {w} : pc'[v] = pc[v] /\ task'[v] = task[v],
           pc'[w] # "applying",
           WorkerOK(w)'
    PROVE  IInv'
<1> USE DEF IInv
<1>1. StoresOK'
  BY DEF StoresOK
<1>2. OneWriter'
  BY DEF OneWriter, Unlocked
<1>3. ASSUME NEW v \in Worker PROVE WorkerOK(v)'
  BY <1>3, OthersKeep DEF Unlocked
<1>4. SignalledStored'
  BY DEF SignalledStored
<1> QED BY <1>1, <1>2, <1>3, <1>4

LEMMA CommitBlockStep ==
    ASSUME IInv, NEW w \in Worker, CommitBlock(w)
    PROVE  IInv'
<1> USE DEF IInv
<1> DEFINE b == task[w].blk
<1>1. b \in Block /\ LinkOK(db, b) /\ StoreOK(db)
  BY DEF CommitBlock, WorkerOK, StoresOK
<1>2. StoreOK(db') /\ Stored(db') = Stored(db) \cup {b}
  BY <1>1, StoreBlockOK DEF CommitBlock
<1>3. TypeOK'
  <2>1. /\ db' \in Database /\ tx' = db'
        /\ pc' = [pc EXCEPT ![w] = "stored"]
        /\ UNCHANGED <<task, queue, fresh, news, lost>>
    BY <1>2 DEF CommitBlock, Goto, StoreOK
  <2>2. db' \in Database /\ tx' \in Database
    BY <2>1
  <2>3. pc' \in [Worker -> Label]
    BY <2>1 DEF TypeOK, Label
  <2> QED BY <2>1, <2>2, <2>3 DEF TypeOK
<1>4. WorkerOK(w)'
  BY <1>1, <1>2 DEF CommitBlock, WorkerOK, Goto, TypeOK
<1> QED BY <1>2, <1>3, <1>4, CommitStepKeeps DEF CommitBlock, Goto, TypeOK

LEMMA CommitChainStep ==
    ASSUME IInv, NEW w \in Worker, CommitChain(w)
    PROVE  IInv'
<1> USE DEF IInv
<1> DEFINE b == task[w].blk
<1>1. b \in Stored(db) /\ StoreOK(db)
  BY DEF CommitChain, WorkerOK, StoresOK
<1>2. StoreOK(db') /\ Stored(db') = Stored(db)
  BY <1>1, SaveChainOK DEF CommitChain
<1>3. TypeOK'
  <2>1. /\ db' \in Database /\ tx' = db'
        /\ \/ pc' = [pc EXCEPT ![w] = "accepted"] /\ UNCHANGED task
           \/ pc' = [pc EXCEPT ![w] = "idle"] /\ task' = [task EXCEPT ![w] = Idle]
        /\ UNCHANGED <<queue, fresh, news, lost>>
    BY <1>2 DEF CommitChain, Finish, Goto, StoreOK
  <2>2. db' \in Database /\ tx' \in Database
    BY <2>1
  <2>3. pc' \in [Worker -> Label]
    BY <2>1 DEF TypeOK, Label
  <2>4. task' \in [Worker -> Task]
    <3>1. task' = task \/ task' = [task EXCEPT ![w] = Idle]
      BY <2>1
    <3> QED BY <3>1, IdleIsTask DEF TypeOK
  <2> QED BY <2>1, <2>2, <2>3, <2>4 DEF TypeOK
<1>4. WorkerOK(w)'
  BY <1>1, <1>2 DEF CommitChain, WorkerOK, Finish, Goto, TypeOK
<1> QED BY <1>2, <1>3, <1>4, CommitStepKeeps DEF CommitChain, Finish, Goto, TypeOK

LEMMA AnnounceStep ==
    ASSUME IInv, NEW w \in Worker, Announce(w)
    PROVE  IInv'
<1> USE DEF IInv
<1>1. TypeOK'
  <2>1. task' \in [Worker -> Task] /\ pc' \in [Worker -> Label]
    BY IdleIsTask DEF TypeOK, Announce, Finish, Goto, Label
  <2>2. news' \in [Block -> Nat]
    <3> DEFINE b == task[w].blk
    <3>1. news' = [news EXCEPT ![b] = news[b] + 1] /\ b \in Block
      BY DEF Announce, WorkerOK
    <3> HIDE DEF b
    <3> QED BY <3>1 DEF TypeOK
  <2> QED BY <2>1, <2>2 DEF TypeOK, Announce
<1>2. StoresOK'
  <2>1. Unlocked' => Unlocked
    BY DEF Unlocked, Announce, Finish, Goto, TypeOK
  <2> QED BY <2>1 DEF StoresOK, Announce
<1>3. OneWriter'
  BY DEF OneWriter, Announce, Finish, Goto, TypeOK
<1>4. ASSUME NEW v \in Worker PROVE WorkerOK(v)'
  <2>1. CASE v = w
    BY <2>1 DEF WorkerOK, Announce, Finish, Goto, TypeOK
  <2>2. CASE v # w
    BY <2>2, OthersKeep DEF Announce, Finish, Goto, TypeOK
  <2> QED BY <2>1, <2>2
<1>5. SignalledStored'
  <2>1. task[w].blk \in Stored(db)
    BY DEF WorkerOK, Announce
  <2> QED BY <2>1 DEF SignalledStored, Announce, TypeOK
<1> QED BY <1>1, <1>2, <1>3, <1>4, <1>5
-----------------------------------------------------------------------------
(* The steps of a batch.  Its worker holds the write lock.                   *)
LEMMA BatchAlone ==
    ASSUME IInv, NEW w \in Worker, pc[w] = "applying"
    PROVE  /\ \A v \in Worker \ {w} : pc[v] # "applying"
           /\ ~Unlocked
           /\ StoreOK(db) /\ StoreOK(tx) /\ Stored(db) \subseteq Stored(tx)
BY DEF IInv, OneWriter, Unlocked, StoresOK

LEMMA FillApplyStep ==
    ASSUME IInv, NEW w \in Worker, FillApply(w)
    PROVE  IInv'
<1> USE DEF IInv
<1> DEFINE b == Head(queue[w])
           d == StoreBlock(tx, b)
           c == RowWithTip(tx, Prev[b])
<1>1. /\ \A v \in Worker \ {w} : pc[v] # "applying"
      /\ StoreOK(db) /\ StoreOK(tx) /\ Stored(db) \subseteq Stored(tx)
  BY BatchAlone DEF FillApply
<1>2. /\ pc[w] = "applying" /\ queue[w] # <<>> /\ Validates(tx, b)
      /\ ChainRow(d, b, c) \in RowId
      /\ tx' = SaveChain(d, b, c)
      /\ fresh' = [fresh EXCEPT ![w] = IF b \in Stored(tx) THEN @ ELSE Append(@, b)]
      /\ queue' = [queue EXCEPT ![w] = Tail(@)]
      /\ UNCHANGED <<db, pc, task, news, lost>>
  BY DEF FillApply
<1>3. b \in Block /\ Tail(queue[w]) \in Seq(Block)
  BY <1>2 DEF TypeOK
<1>4. LinkOK(tx, b)
  BY <1>2, ValidatesLink
<1>5. StoreOK(d) /\ Stored(d) = Stored(tx) \cup {b}
  BY <1>1, <1>3, <1>4, StoreBlockOK
<1>6. StoreOK(tx') /\ Stored(tx') = Stored(tx) \cup {b}
  BY <1>2, <1>5, SaveChainOK
<1> HIDE DEF b, d, c
<1>7. TypeOK'
  <2>1. fresh' \in [Worker -> Seq(Block)]
    BY <1>2, <1>3 DEF TypeOK
  <2>2. queue' \in [Worker -> Seq(Block)]
    BY <1>2, <1>3 DEF TypeOK
  <2>3. tx' \in Database
    BY <1>6 DEF StoreOK
  <2> QED BY <1>2, <2>1, <2>2, <2>3 DEF TypeOK
<1>8. StoresOK'
  BY <1>1, <1>2, <1>6 DEF StoresOK, Unlocked
<1>9. OneWriter'
  BY <1>2 DEF OneWriter
<1>10. ASSUME NEW v \in Worker PROVE WorkerOK(v)'
  <2>1. CASE v = w
    <3>1. fresh[w] \in Seq(Block)
      BY DEF TypeOK
    <3>2. fresh'[w] = fresh[w] \/ fresh'[w] = Append(fresh[w], b)
      BY <1>2 DEF TypeOK
    <3>3. \A i \in 1 .. Len(fresh[w]) : fresh[w][i] \in Stored(tx)
      BY <1>2 DEF WorkerOK
    <3>4. ASSUME NEW i \in 1 .. Len(fresh'[w]) PROVE fresh'[w][i] \in Stored(tx')
      <4>1. CASE fresh'[w] = fresh[w]
        BY <1>6, <3>3, <4>1
      <4>2. CASE fresh'[w] = Append(fresh[w], b)
        <5>1. i \in 1 .. Len(fresh[w]) \/ fresh'[w][i] = b
          BY <3>1, <4>2
        <5>2. i \in 1 .. Len(fresh[w]) => fresh'[w][i] = fresh[w][i]
          BY <3>1, <4>2
        <5> QED BY <1>6, <3>3, <5>1, <5>2
      <4> QED BY <3>2, <4>1, <4>2
    <3> QED BY <1>2, <2>1, <3>4 DEF WorkerOK
  <2>2. CASE v # w
    BY <1>1, <1>2, <2>2, OthersKeep DEF TypeOK
  <2> QED BY <2>1, <2>2
<1>11. SignalledStored'
  BY <1>2 DEF SignalledStored
<1> QED BY <1>7, <1>8, <1>9, <1>10, <1>11

(* A batch that is rolled back leaves the committed database and no trace.    *)
LEMMA RollbackKeeps ==
    ASSUME IInv, NEW w \in Worker, TypeOK',
           pc[w] = "applying", tx' = db, UNCHANGED <<db, news>>,
           pc' = [pc EXCEPT ![w] = "idle"], fresh' = [fresh EXCEPT ![w] = <<>>],
           \A v \in Worker \ {w} : task'[v] = task[v]
    PROVE  IInv'
<1> USE DEF IInv
<1>1. /\ \A v \in Worker \ {w} : pc[v] # "applying"
      /\ StoreOK(db)
  BY BatchAlone
<1>2. StoresOK'
  BY <1>1 DEF StoresOK
<1>3. OneWriter'
  BY DEF OneWriter, TypeOK
<1>4. ASSUME NEW v \in Worker PROVE WorkerOK(v)'
  <2>1. CASE v = w
    BY <2>1 DEF WorkerOK, TypeOK
  <2>2. CASE v # w
    BY <1>1, <2>2, OthersKeep DEF TypeOK
  <2> QED BY <2>1, <2>2
<1>5. SignalledStored'
  BY DEF SignalledStored
<1> QED BY <1>2, <1>3, <1>4, <1>5

LEMMA FillRejectStep ==
    ASSUME IInv, NEW w \in Worker, FillReject(w)
    PROVE  IInv'
<1>1. TypeOK'
  BY DEF IInv, StoresOK, StoreOK, TypeOK, FillReject, Goto, Label
<1> QED BY <1>1, RollbackKeeps DEF FillReject, Goto

LEMMA FillCommitStep ==
    ASSUME IInv, NEW w \in Worker, FillCommit(w)
    PROVE  IInv'
<1> USE DEF IInv
<1>1. /\ \A v \in Worker \ {w} : pc[v] # "applying"
      /\ StoreOK(tx) /\ Stored(db) \subseteq Stored(tx)
  BY BatchAlone DEF FillCommit
<1>2. /\ pc[w] = "applying" /\ db' = tx /\ pc' = [pc EXCEPT ![w] =
            IF fresh[w] = <<>> THEN "idle" ELSE "signalling"]
      /\ UNCHANGED <<tx, task, queue, fresh, news, lost>>
  BY DEF FillCommit, Goto
<1>3. TypeOK'
  BY <1>1, <1>2 DEF TypeOK, Label, StoreOK
<1>4. StoresOK'
  BY <1>1, <1>2 DEF StoresOK
<1>5. OneWriter'
  BY <1>2 DEF OneWriter, TypeOK
<1>6. ASSUME NEW v \in Worker PROVE WorkerOK(v)'
  <2>1. CASE v = w
    BY <1>2, <2>1 DEF WorkerOK, TypeOK
  <2>2. CASE v # w
    BY <1>1, <1>2, <2>2, OthersKeep DEF TypeOK
  <2> QED BY <2>1, <2>2
<1>7. SignalledStored'
  BY <1>1, <1>2 DEF SignalledStored
<1> QED BY <1>3, <1>4, <1>5, <1>6, <1>7

LEMMA FillSignalStep ==
    ASSUME IInv, NEW w \in Worker, FillSignal(w)
    PROVE  IInv'
<1> USE DEF IInv
<1>1. /\ pc[w] = "signalling"
      /\ news' = [news EXCEPT ![Head(fresh[w])] = @ + 1]
      /\ fresh' = [fresh EXCEPT ![w] = Tail(@)]
      /\ pc' = [pc EXCEPT ![w] = IF Len(fresh[w]) = 1 THEN "idle" ELSE "signalling"]
      /\ UNCHANGED <<db, tx, task, queue, lost>>
  BY DEF FillSignal, Goto
<1>2. /\ fresh[w] \in Seq(Block) /\ fresh[w] # <<>>
      /\ \A i \in 1 .. Len(fresh[w]) : fresh[w][i] \in Stored(db)
  BY <1>1 DEF TypeOK, WorkerOK
<1>3. /\ Head(fresh[w]) \in Stored(db)
      /\ Tail(fresh[w]) \in Seq(Block)
      /\ Len(Tail(fresh[w])) = Len(fresh[w]) - 1
      /\ \A i \in 1 .. Len(Tail(fresh[w])) : Tail(fresh[w])[i] = fresh[w][i + 1]
  <2>1. Len(fresh[w]) \in Nat \ {0} /\ Head(fresh[w]) = fresh[w][1]
    BY <1>2, EmptySeq
  <2>2. Head(fresh[w]) \in Stored(db)
    BY <1>2, <2>1
  <2> QED BY <1>2, <2>2, HeadTailProperties
<1>4. \A i \in 1 .. Len(Tail(fresh[w])) : Tail(fresh[w])[i] \in Stored(db)
  BY <1>2, <1>3
<1>5. TypeOK'
  <2>1. news' \in [Block -> Nat]
    <3> DEFINE b == Head(fresh[w])
    <3>1. news' = [news EXCEPT ![b] = news[b] + 1] /\ b \in Block
      BY <1>1, <1>3 DEF Stored
    <3> HIDE DEF b
    <3> QED BY <3>1 DEF TypeOK
  <2>2. fresh' \in [Worker -> Seq(Block)]
    BY <1>1, <1>3 DEF TypeOK
  <2> QED BY <1>1, <2>1, <2>2 DEF TypeOK, Label
<1>6. StoresOK'
  <2>1. Unlocked' => Unlocked
    BY <1>1 DEF Unlocked, TypeOK
  <2> QED BY <1>1, <2>1 DEF StoresOK
<1>7. OneWriter'
  BY <1>1 DEF OneWriter, TypeOK
<1>8. ASSUME NEW v \in Worker PROVE WorkerOK(v)'
  <2>1. CASE v = w
    <3>1. pc'[w] \in {"idle", "signalling"} /\ fresh'[w] = Tail(fresh[w])
      BY <1>1 DEF TypeOK
    <3>2. pc'[w] = "signalling" => fresh'[w] # <<>>
      <4>1. SUFFICES ASSUME pc'[w] = "signalling", fresh'[w] = <<>> PROVE FALSE
        OBVIOUS
      <4>2. Len(fresh[w]) # 1 /\ Len(fresh[w]) \in Nat
        BY <1>1, <1>2, <4>1 DEF TypeOK
      <4>3. Len(<<>>) = 0
        OBVIOUS
      <4>4. Len(Tail(fresh[w])) = 0
        BY <3>1, <4>1, <4>3
      <4> QED BY <1>3, <4>2, <4>4
    <3> QED BY <1>1, <1>4, <2>1, <3>1, <3>2 DEF WorkerOK
  <2>2. CASE v # w
    BY <1>1, <2>2, OthersKeep DEF TypeOK
  <2> QED BY <2>1, <2>2
<1>9. SignalledStored'
  BY <1>1, <1>3 DEF SignalledStored, TypeOK
<1> QED BY <1>5, <1>6, <1>7, <1>8, <1>9

LEMMA FailStep ==
    ASSUME IInv, NEW w \in Worker, Fail(w)
    PROVE  IInv'
<1> USE DEF IInv
<1>1. /\ tx' = IF pc[w] = "applying" THEN db ELSE tx
      /\ queue' = [queue EXCEPT ![w] = <<>>]
      /\ fresh' = [fresh EXCEPT ![w] = <<>>]
      /\ pc' = [pc EXCEPT ![w] = "idle"]
      /\ task' = [task EXCEPT ![w] = Idle]
      /\ lost' = IF pc[w] = "stored" THEN lost \cup {task[w].blk} ELSE lost
      /\ UNCHANGED <<db, news>>
  BY DEF Fail, Finish, Goto
<1>2. TypeOK'
  <2>1. tx' \in Database
    BY <1>1 DEF TypeOK
  <2>2. lost' \subseteq Block
    BY <1>1 DEF TypeOK, WorkerOK
  <2>3. task' \in [Worker -> Task]
    BY <1>1 DEF TypeOK, Idle, Task
  <2> QED BY <1>1, <2>1, <2>2, <2>3 DEF TypeOK, Label
<1>3. CASE pc[w] = "applying"
  BY <1>1, <1>2, <1>3, RollbackKeeps DEF TypeOK
<1>4. CASE pc[w] # "applying"
  <2>1. StoresOK'
    <3>1. Unlocked' => Unlocked
      BY <1>1, <1>4 DEF Unlocked, TypeOK
    <3> QED BY <1>1, <1>4, <3>1 DEF StoresOK
  <2>2. OneWriter'
    BY <1>1 DEF OneWriter, TypeOK
  <2>3. ASSUME NEW v \in Worker PROVE WorkerOK(v)'
    <3>1. CASE v = w
      BY <1>1, <3>1 DEF WorkerOK, TypeOK
    <3>2. CASE v # w
      BY <1>1, <1>4, <3>2, OthersKeep DEF TypeOK
    <3> QED BY <3>1, <3>2
  <2>4. SignalledStored'
    BY <1>1 DEF SignalledStored
  <2> QED BY <1>2, <2>1, <2>2, <2>3, <2>4
<1> QED BY <1>3, <1>4

-----------------------------------------------------------------------------
LEMMA NextIInv == IInv /\ [Next]_vars => IInv'
<1> SUFFICES ASSUME IInv, [Next]_vars PROVE IInv'
  OBVIOUS
<1>1. CASE UNCHANGED vars
  BY <1>1 DEF vars, IInv, TypeOK, StoresOK, OneWriter, WorkerOK, SignalledStored, Unlocked
<1>2. CASE Next
  <2>1. PICK w \in Worker : AcceptStep(w) \/ FillStep(w) \/ Fail(w)
    BY <1>2 DEF Next
  <2>2. CASE AcceptStep(w)
    BY <2>2, AcceptReadSteps, CommitBlockStep, CommitChainStep, AnnounceStep
       DEF AcceptStep
  <2>3. CASE FillStep(w)
    BY <2>3, FillReadSteps, FillApplyStep, FillRejectStep, FillCommitStep,
       FillSignalStep DEF FillStep
  <2>4. CASE Fail(w)
    BY <2>4, FailStep
  <2> QED BY <2>1, <2>2, <2>3, <2>4
<1> QED BY <1>1, <1>2

THEOREM StoreIsInductive == Spec => []IInv
BY InitIInv, NextIInv, PTL DEF Spec

(* Type correctness.                                                         *)
THEOREM TypeCorrect == Spec => []TypeOK
<1>1. IInv => TypeOK
  BY DEF IInv
<1> QED BY <1>1, StoreIsInductive, PTL

(* Whatever the interleaving of the two commits, the fills and the crashes,   *)
(* a stored block has its whole linked ancestry stored.                       *)
THEOREM AncestryIsComplete == Spec => []AncestryComplete
<1>1. IInv => AncestryComplete
  BY DEF IInv, StoresOK, StoreOK, AncestryComplete
<1> QED BY <1>1, StoreIsInductive, PTL

(* Reorgs never leave a mixture of two branches in longest_chain_block.       *)
THEOREM CanonicalChainIsOneAncestry == Spec => []MaterializationIsAncestry
<1>1. IInv => MaterializationIsAncestry
  BY DEF IInv, StoresOK, StoreOK, MaterializationIsAncestry
<1> QED BY <1>1, StoreIsInductive, PTL

(* Two chain rows never share a tip, and no row leads to a missing block.     *)
THEOREM ForkRowsAreDistinct == Spec => []ForkTipsDistinct
<1>1. IInv => ForkTipsDistinct
  BY DEF IInv, StoresOK, StoreOK, ForkTipsDistinct
<1> QED BY <1>1, StoreIsInductive, PTL

(* No chain row's tip is above the materialization, whatever row a worker saves     *)
(* its chain in (chain.py:825-828): a row that has become someone else's, a shorter  *)
(* one, or the longest.                                                      *)
THEOREM NoRowIsAhead == Spec => []NoForkAhead
<1>1. IInv => NoForkAhead
  BY DEF IInv, StoresOK, StoreOK, NoForkAhead
<1> QED BY <1>1, StoreIsInductive, PTL

(* No observer is ever told of a block that a rollback may still take back.   *)
THEOREM SignalsFollowCommits == Spec => []SignalledStored
<1>1. IInv => SignalledStored
  BY DEF IInv
<1> QED BY <1>1, StoreIsInductive, PTL

-----------------------------------------------------------------------------
(***************************************************************************)
(* A single process.  Between the two commits of a block another process     *)
(* may save the chain of the block's parent, so what follows is not true of   *)
(* two (README.md, known divergences); with one worker it is what the store   *)
(* owes its readers.  The inductive invariant is IInv with SoloOK.            *)
(***************************************************************************)

(* The materialization shows the longest chain of a database, if it has one.     *)
LongestShown(d) ==
    IF Tips(d) = {} THEN d.mat = <<>> ELSE d.mat # <<>> /\ Top(d.mat) = LongestTip(d)

(* No block is better than the tip of the longest chain.                         *)
AtMost(d, b) == Tips(d) # {} /\ (b = LongestTip(d) \/ Better(LongestTip(d), b))

(* The block between its two commits.                                           *)
Flying(w) == IF pc[w] = "stored" THEN {task[w].blk} ELSE {}

(* The canonical chain of e is that of d, or a better one.                        *)
Improves(d, e) ==
    \/ e.mat = d.mat
    \/ e.mat # <<>> /\ (d.mat # <<>> => Better(Top(e.mat), Top(d.mat)))

(* A fork tip of d that e has lost was extended, or is too far behind.             *)
Survive(d, e) ==
    \A t \in Tips(d) \ Tips(e) :
        \/ \E c \in Tips(e) : t \in Elements(e.anc[c])
        \/ Idx[t] < Idx[LongestTip(e)] - PruneDepth

Distinct(s) == \A i, j \in 1 .. Len(s) : s[i] = s[j] => i = j

(* The committed database and the uncommitted one: the longest chain is shown, and no *)
(* block is better but those whose second commit failed or is still to come; what    *)
(* a batch has done so far is an improvement that loses no fork.                   *)
Sound(d, e, gone) ==
    /\ LongestShown(d) /\ LongestShown(e)
    /\ \A b \in Stored(d) \ gone : AtMost(d, b)
    /\ \A b \in Stored(e) \ gone : AtMost(e, b)
    /\ Improves(d, e) /\ Survive(d, e)
    /\ \A b \in Stored(d) : e.anc[b] = d.anc[b]

SoloStores(w) == Sound(db, tx, lost \cup Flying(w))

(* The id that add_block kept is still that of the parent's chain.               *)
SoloTask(w) ==
    pc[w] \in {"loaded", "validated", "stored"} => task[w].cid = RowWithTip(db, Prev[task[w].blk])

(* A block that is to be signalled was not stored before, and never signalled.     *)
SoloNews(w) ==
    /\ \A b \in Block : news[b] <= 1
    /\ task[w].mode = "live" =>
          /\ pc[w] \in {"loaded", "validated"} => task[w].blk \notin Stored(db)
          /\ pc[w] \in {"stored", "accepted"} => news[task[w].blk] = 0
    /\ pc[w] = "accepted" => task[w].mode = "live"
    /\ pc[w] = "applying" => \A i \in 1 .. Len(fresh[w]) : fresh[w][i] \notin Stored(db)
    /\ pc[w] = "signalling" => \A i \in 1 .. Len(fresh[w]) : news[fresh[w][i]] = 0
    /\ pc[w] \notin {"applying", "signalling"} => fresh[w] = <<>>
    /\ Distinct(fresh[w])

-----------------------------------------------------------------------------
(* Fork choice: what the rows say about the longest chain.                       *)

Best(T, t) == t \in T /\ \A u \in T \ {t} : Better(t, u)

LEMMA BetterIsAnOrder ==
    /\ \A a, b \in Block : ~(Better(a, b) /\ Better(b, a))
    /\ \A a, b \in Block : a = b \/ Better(a, b) \/ Better(b, a)
    /\ \A a, b, c \in Block : Better(a, b) /\ Better(b, c) => Better(a, c)
    /\ \A a, b \in Block : Better(a, b) => Idx[a] >= Idx[b]
<1>1. \A a \in Block : Idx[a] \in Nat /\ Time[a] \in Nat /\ HashRank[a] \in Nat
  BY HeaderAssumption
<1>2. \A a, b \in Block : ~(Better(a, b) /\ Better(b, a))
  BY <1>1 DEF Better
<1>3. \A a, b \in Block : a = b \/ Better(a, b) \/ Better(b, a)
  BY <1>1, HashAssumption DEF Better
<1>4. \A a, b, c \in Block : Better(a, b) /\ Better(b, c) => Better(a, c)
  BY <1>1 DEF Better
<1>5. \A a, b \in Block : Better(a, b) => Idx[a] >= Idx[b]
  BY <1>1 DEF Better
<1> QED BY <1>2, <1>3, <1>4, <1>5

LEMMA TipsAreBlocks ==
    ASSUME NEW d \in Database
    PROVE  /\ Tips(d) \subseteq Block /\ NoBlock \notin Tips(d)
           /\ \A r \in RowId : IsRow(d, r) <=> d.row[r] \in Tips(d)
           /\ \A t \in Tips(d) : \E r \in RowId : d.row[r] = t
BY HeaderAssumption DEF Tips, IsRow, Database

(* A row is the longest chain when its tip is the best.                         *)
LEMMA LongestByTips ==
    ASSUME NEW d \in Database, RowsOf(d), NEW r \in RowId
    PROVE  IsLongest(d, r) <=> Best(Tips(d), d.row[r])
<1>1. \A q \in RowId : IsRow(d, q) <=> d.row[q] \in Tips(d)
  BY TipsAreBlocks
<1>2. \A t \in Tips(d) : \E q \in RowId : d.row[q] = t
  BY TipsAreBlocks
<1>3. \A q, p \in RowId : IsRow(d, p) /\ d.row[q] = d.row[p] => q = p
  BY DEF RowsOf
<1>4. ASSUME IsLongest(d, r) PROVE Best(Tips(d), d.row[r])
  BY <1>1, <1>2, <1>4 DEF IsLongest, Best
<1>5. ASSUME Best(Tips(d), d.row[r]) PROVE IsLongest(d, r)
  BY <1>1, <1>3, <1>5 DEF IsLongest, Best
<1> QED BY <1>4, <1>5

LEMMA OneIsBest ==
    ASSUME NEW T \in SUBSET Block, NEW t, NEW u, Best(T, t), Best(T, u) PROVE t = u
BY BetterIsAnOrder DEF Best

(* The tip of the longest chain is the best tip, and there is one.               *)
LEMMA LongestTipIsBest ==
    ASSUME NEW d \in Database, RowsOf(d)
    PROVE  /\ Tips(d) # {} => Best(Tips(d), LongestTip(d))
           /\ \A t : Best(Tips(d), t) => LongestTip(d) = t
<1>1. Tips(d) \subseteq Block
  BY TipsAreBlocks
<1>2. ASSUME NEW t, Best(Tips(d), t) PROVE LongestTip(d) = t
  <2>1. PICK r \in RowId : d.row[r] = t
    BY <1>2, TipsAreBlocks DEF Best
  <2>2. IsLongest(d, r)
    BY <1>2, <2>1, LongestByTips
  <2>3. PICK q \in RowId : IsLongest(d, q) /\ LongestTip(d) = d.row[q]
    BY <2>2 DEF LongestTip
  <2>4. Best(Tips(d), d.row[q])
    BY <2>3, LongestByTips
  <2> QED BY <1>1, <1>2, <2>3, <2>4, OneIsBest
<1>3. ASSUME Tips(d) # {} PROVE \E t : Best(Tips(d), t)
  <2> DEFINE R == {ab \in Block \X Block : Better(ab[1], ab[2])}
             S == Tips(d)
  <2>1. \A a, b \in Block : <<a, b>> \in R <=> Better(a, b)
    OBVIOUS
  <2>2. IsFiniteSet(S)
    <3>1. IsFiniteSet(RowId)
      BY BoundAssumption, FS_Interval DEF RowId
    <3>2. DOMAIN d.row = RowId
      BY DEF Database
    <3>3. IsFiniteSet(Range(d.row))
      BY <3>1, <3>2, ImageIsNoLarger
    <3>4. S \in SUBSET Range(d.row)
      BY <3>2 DEF Tips, Range
    <3> QED BY <3>3, <3>4, FS_Subset, Zenon
  <2> HIDE DEF R
  <2>3. \A a, b \in S : a = b \/ <<a, b>> \in R \/ <<b, a>> \in R
    BY <1>1, <2>1, BetterIsAnOrder, Zenon
  <2>4. \A a, b, c \in S : <<a, b>> \in R /\ <<b, c>> \in R => <<a, c>> \in R
    <3> TAKE a \in S, b \in S, c \in S
    <3>1. a \in Block /\ b \in Block /\ c \in Block
      BY <1>1
    <3> QED BY <2>1, <3>1, BetterIsAnOrder
  <2>5. S # {}
    BY <1>3
  <2> HIDE DEF S
  <2>6. \E a \in S : \A b \in S : a = b \/ <<a, b>> \in R
    BY <2>2, <2>3, <2>4, <2>5, FirstExists
  <2>7. PICK t \in S : \A b \in S : t = b \/ <<t, b>> \in R
    BY <2>6
  <2>8. Best(S, t)
    BY <1>1, <2>1, <2>7 DEF Best, S
  <2> QED BY <2>8 DEF S
<1> QED BY <1>2, <1>3

-----------------------------------------------------------------------------
(* Saving a chain, when the id that was kept is that of the parent's chain.       *)

(* Every row id in use is below the next.                                       *)
LEMMA NextRowIsFree ==
    ASSUME NEW d \in Database, NextRow(d) \in RowId
    PROVE  ~IsRow(d, NextRow(d))
<1> DEFINE K == {0} \cup {q \in RowId : IsRow(d, q)}
<1>1. K \subseteq 0 .. MaxRow /\ 0 \in K /\ MaxRow \in Nat
  BY BoundAssumption DEF RowId
<1>2. PICK k \in K : \A j \in K : j <= k
  <2> HIDE DEF K
  <2> QED BY <1>1, GreatestExists
<1>3. k \in 0 .. MaxRow
  BY <1>1
<1>4. /\ \A q \in RowId : IsRow(d, q) => q < k + 1
      /\ k + 1 > 1 => IsRow(d, (k + 1) - 1)
  <2>1. \A q \in RowId : IsRow(d, q) => q <= k
    BY <1>2
  <2>2. \A q \in RowId : IsRow(d, q) => q < k + 1
    BY <1>3, <2>1 DEF RowId
  <2>3. k + 1 > 1 => k # 0
    BY <1>3
  <2>4. k # 0 => IsRow(d, k)
    OBVIOUS
  <2>5. (k + 1) - 1 = k
    BY <1>3
  <2> QED BY <2>2, <2>3, <2>4, <2>5
<1>5. k + 1 \in 1 .. MaxRow + 1
  BY <1>1, <1>3
<1> DEFINE Free(n) == /\ \A q \in RowId : IsRow(d, q) => q < n
                      /\ n > 1 => IsRow(d, n - 1)
<1>6. Free(k + 1)
  BY <1>4
<1>7. \E n \in 1 .. MaxRow + 1 : Free(n)
  <2> HIDE DEF Free
  <2> QED BY <1>5, <1>6
<1>8. Free(CHOOSE n \in 1 .. MaxRow + 1 : Free(n))
  <2> HIDE DEF Free
  <2> QED BY <1>7
<1>9. \A q \in RowId : IsRow(d, q) => q < NextRow(d)
  BY <1>8 DEF NextRow
<1> QED BY <1>9 DEF RowId

(* The parent of a stored block is the block below it in its ancestry.             *)
LEMMA ParentIsBelow ==
    ASSUME NEW d \in Database, NEW b \in Stored(d), AncestryOf(d, b), Prev[b] # NoBlock
    PROVE  Prev[b] \in Elements(d.anc[b]) /\ Idx[b] = Idx[Prev[b]] + 1
<1> DEFINE p == d.anc[b]
<1>1. Len(p) \in Nat \ {0} /\ p[Len(p)] = b /\ Idx[b] = Len(p) - 1
  BY PathFacts
<1>2. Prev[p[1]] = NoBlock
  BY DEF AncestryOf, IsGenesis
<1>3. \A i \in 1 .. Len(p) - 1 : Prev[p[i + 1]] = p[i]
  BY DEF AncestryOf
<1>4. \A i \in 1 .. Len(p) : Idx[p[i]] = i - 1
  BY DEF AncestryOf
<1> HIDE DEF p
<1>5. Len(p) # 1
  BY <1>1, <1>2
<1>6. Len(p) - 1 \in 1 .. Len(p) - 1 /\ Len(p) - 1 \in 1 .. Len(p) /\ (Len(p) - 1) + 1 = Len(p)
  <2>1. \A n \in Nat \ {0} : n # 1 => n - 1 \in 1 .. n - 1 /\ n - 1 \in 1 .. n /\ (n - 1) + 1 = n
    OBVIOUS
  <2> QED BY <1>1, <1>5, <2>1
<1>7. Prev[b] = p[Len(p) - 1]
  BY <1>1, <1>3, <1>6
<1>8. Idx[Prev[b]] = Len(p) - 2
  BY <1>1, <1>4, <1>6, <1>7
<1>9. Prev[b] \in Elements(p)
  BY <1>6, <1>7 DEF Elements
<1> QED BY <1>1, <1>8, <1>9 DEF p

(* A block of an ancestry is no higher than its tip, and is the tip if as high.     *)
LEMMA AncestorsAreLower ==
    ASSUME NEW d \in Database, NEW b \in Stored(d), AncestryOf(d, b), NEW a \in Elements(d.anc[b])
    PROVE  /\ Idx[a] <= Idx[b] /\ (Idx[a] = Idx[b] => a = b)
           /\ a \in Stored(d) /\ Elements(d.anc[a]) \subseteq Elements(d.anc[b])
<1> DEFINE p == d.anc[b]
<1>1. Len(p) \in Nat \ {0} /\ p[Len(p)] = b /\ Idx[b] = Len(p) - 1 /\ p \in Seq(Block)
  BY PathFacts
<1>2. \A i \in 1 .. Len(p) : Idx[p[i]] = i - 1
  BY DEF AncestryOf
<1>3. PICK i \in 1 .. Len(p) : a = p[i]
  BY DEF Elements
<1>4. a \in Stored(d) /\ d.anc[a] = SubSeq(p, 1, i)
  BY <1>3, PathFacts
<1> HIDE DEF p
<1>5. Idx[a] = i - 1
  BY <1>2, <1>3
<1>6. Elements(SubSeq(p, 1, i)) \subseteq Elements(p)
  <2>1. /\ Len(SubSeq(p, 1, i)) = i
        /\ \A j \in 1 .. i : SubSeq(p, 1, i)[j] = p[j]
    BY <1>1
  <2> QED BY <1>1, <2>1 DEF Elements
<1> QED BY <1>1, <1>3, <1>4, <1>5, <1>6 DEF p

(* The reorg yields the ancestry of the block, unless it is already in the chain.    *)
LEMMA MaterializeIs ==
    ASSUME NEW d \in Database, \A c \in Stored(d) : AncestryOf(d, c), MatOf(d),
           NEW b \in Stored(d)
    PROVE  Materialize(d.mat, d.anc[b]) = IF b \in Elements(d.mat) THEN d.mat ELSE d.anc[b]
<1> DEFINE p == d.anc[b]
           k == CommonAncestor(d.mat, p)
           pos == IF k = 0 THEN 0
                  ELSE CHOOSE i \in 1 .. Len(d.mat) : d.mat[i] = p[k]
           m == Materialize(d.mat, p)
<1>1. /\ p \in Seq(Block) /\ Len(p) \in Nat \ {0} /\ p[Len(p)] = b
  BY PathFacts
<1>2. d.mat \in Seq(Block) /\ Len(d.mat) \in Nat
  BY DEF Database
<1>3. /\ k \in 0 .. Len(p) /\ (k > 0 => p[k] \in Elements(d.mat))
      /\ \A j \in k + 1 .. Len(p) : p[j] \notin Elements(d.mat)
  BY <1>1, <1>2, CommonAncestorProperties
<1>4. m = IF k = Len(p) THEN d.mat
          ELSE SubSeq(d.mat, 1, pos) \o SubSeq(p, k + 1, Len(p))
  BY DEF Materialize
<1>5. k = 0 \/ pos \in 1 .. Len(d.mat)
  <2>1. CASE k = 0
    BY <2>1
  <2>2. CASE k # 0
    <3>1. \E i \in 1 .. Len(d.mat) : d.mat[i] = p[k]
      BY <1>1, <1>3, <2>2 DEF Elements
    <3>2. pos = CHOOSE i \in 1 .. Len(d.mat) : d.mat[i] = p[k]
      BY <2>2
    <3> HIDE DEF p, k, pos
    <3> QED BY <3>1, <3>2
  <2> QED BY <2>1, <2>2
<1>6. k = 0 => pos = 0
  OBVIOUS
<1>7. m # <<>> /\ Top(m) \in Stored(d) /\ m = d.anc[Top(m)]
  BY MaterializeOK
<1> HIDE DEF m, pos, k, p
<1>8. CASE k = Len(p)
  <2>1. b \in Elements(d.mat)
    BY <1>1, <1>3, <1>8
  <2> QED BY <1>4, <1>8, <2>1 DEF m, p
<1>9. CASE k # Len(p)
  <2>1. Len(p) \in k + 1 .. Len(p) /\ k + 1 \in 1 .. Len(p)
    BY <1>1, <1>3, <1>9
  <2>2. b \notin Elements(d.mat)
    BY <1>1, <1>3, <2>1
  <2> DEFINE s == SubSeq(d.mat, 1, pos)
             t == SubSeq(p, k + 1, Len(p))
  <2>3. s \in Seq(Block) /\ Len(s) \in Nat
    BY <1>2, <1>5, <1>6
  <2>4. t \in Seq(Block) /\ Len(t) = Len(p) - k /\ t[Len(p) - k] = b
    BY <1>1, <1>3, <2>1
  <2>5. Len(t) \in Nat \ {0}
    BY <1>1, <1>3, <1>9, <2>4
  <2> HIDE DEF s, t
  <2>6. Len(s \o t) = Len(s) + Len(t) /\ (s \o t)[Len(s) + Len(t)] = t[Len(t)]
    BY <2>3, <2>4, <2>5
  <2>7. m = s \o t
    BY <1>4, <1>9 DEF s, t
  <2>8. Top(m) = b
    BY <2>4, <2>6, <2>7 DEF Top
  <2> QED BY <1>7, <2>2, <2>8 DEF m, p
<1> QED BY <1>8, <1>9

(* The row that a chain is saved in has its tip, or its parent's, or is free.      *)
LEMMA RowChosen ==
    ASSUME NEW d \in Database, NEW b \in Block,
           NEW r, r = ChainRow(d, b, RowWithTip(d, Prev[b])), r \in RowId
    PROVE  /\ d.row[r] \in {b, Prev[b], NoBlock}
           /\ b \in Tips(d) => d.row[r] = b
<1>1. \A t \in Tips(d) : RowWithTip(d, t) \in RowId /\ d.row[RowWithTip(d, t)] = t
  BY TipsAreBlocks DEF RowWithTip
<1>2. CASE b \in Tips(d)
  BY <1>1, <1>2 DEF ChainRow
<1>3. CASE b \notin Tips(d) /\ Prev[b] \in Tips(d)
  <2>1. IsRow(d, RowWithTip(d, Prev[b]))
    BY <1>1, <1>3, TipsAreBlocks
  <2>2. r = RowWithTip(d, Prev[b])
    BY <1>1, <1>3, <2>1 DEF ChainRow
  <2> QED BY <1>1, <1>3, <2>2
<1>4. CASE b \notin Tips(d) /\ Prev[b] \notin Tips(d)
  <2>1. RowWithTip(d, Prev[b]) = 0
    BY <1>4 DEF RowWithTip, NoRow
  <2>2. 0 \notin RowId
    BY BoundAssumption DEF RowId
  <2>3. r = NextRow(d)
    BY <1>4, <2>1, <2>2 DEF ChainRow
  <2>4. ~IsRow(d, r)
    BY <2>3, NextRowIsFree
  <2> QED BY <1>4, <2>4 DEF IsRow
<1> QED BY <1>2, <1>3, <1>4

(* Before the forks are pruned: the new tip takes the place of its parent, or is   *)
(* one more; if it is the best the longest chain ends there, else where it did.     *)
Replaces(T, old, b, U) ==
    /\ T \in SUBSET Block /\ b \in Block /\ U = (T \ {old}) \cup {b}
    /\ \/ old = b /\ b \in T
       \/ b \notin T /\ (old \in T => Better(b, old))

LEMMA NewTip ==
    ASSUME NEW T, NEW old, NEW b, NEW U, Replaces(T, old, b, U)
    PROVE  /\ Best(U, b) => \A t \in T : t = b \/ Better(b, t)
           /\ \A t : ~Best(U, b) /\ Best(T, t) => Best(U, t) /\ Better(t, b) /\ t # old
<1> USE DEF Replaces
<1>1. ASSUME Best(U, b), NEW t \in T PROVE t = b \/ Better(b, t)
  BY <1>1 DEF Best
<1>2. ASSUME NEW t, ~Best(U, b), Best(T, t) PROVE Best(U, t) /\ Better(t, b) /\ t # old
  <2>1. t \in Block
    BY <1>2 DEF Best
  <2>2. ~Better(b, t)
    <3> SUFFICES ASSUME Better(b, t) PROVE FALSE
      OBVIOUS
    <3>1. \A u \in T : u = t \/ Better(t, u)
      BY <1>2 DEF Best
    <3>2. \A u \in T : Better(b, u)
      BY <2>1, <3>1, BetterIsAnOrder
    <3>3. Best(U, b)
      BY <3>2 DEF Best
    <3> QED BY <1>2, <3>3
  <2>3. t # b
    <3> SUFFICES ASSUME t = b PROVE FALSE
      OBVIOUS
    <3>1. b \in T /\ U = T
      BY <1>2 DEF Best
    <3> QED BY <1>2, <3>1
  <2>4. Better(t, b)
    BY <2>1, <2>2, <2>3, BetterIsAnOrder
  <2>5. t # old
    BY <1>2, <2>2, <2>3 DEF Best
  <2>6. Best(U, t)
    BY <1>2, <2>4, <2>5 DEF Best
  <2> QED BY <2>4, <2>5, <2>6
<1> QED BY <1>1, <1>2

(* The chain that is saved ends in the longest chain, or next to it: a better one    *)
(* displaces it, nothing else does, and a fork goes away only when it grew or is    *)
(* too far behind.                                                            *)
Extended(d, f, b) ==
    /\ LongestShown(f) /\ Tips(f) # {} /\ b \in Tips(f)
    /\ AtMost(f, b) /\ \A x \in Block : AtMost(d, x) => AtMost(f, x)
    /\ Improves(d, f) /\ Survive(d, f)
    /\ f.anc = d.anc

LEMMA SaveChainExtends ==
    ASSUME NEW d, StoreOK(d), LongestShown(d), NEW b \in Stored(d),
           NEW c, c = RowWithTip(d, Prev[b]), ChainRow(d, b, c) \in RowId
    PROVE  Extended(d, SaveChain(d, b, c), b)
<1> USE HeaderAssumption
<1>0. /\ d \in Database /\ (\A a \in Stored(d) : AncestryOf(d, a)) /\ RowsOf(d) /\ MatOf(d)
      /\ b \in Block
  BY DEF StoreOK, Stored
<1>r. PICK r : r = ChainRow(d, b, c) /\ r \in RowId
  OBVIOUS
<1> DEFINE e == [d EXCEPT !.row = [d.row EXCEPT ![r] = b]]
           f == SyncLongest(e, r)
           T == Tips(d)
           U == Tips(e)
           L == LongestTip(d)
           old == d.row[r]
<1>1. /\ e \in Database /\ e.anc = d.anc /\ e.mat = d.mat
      /\ e.row = [d.row EXCEPT ![r] = b]
  BY <1>0, <1>r DEF Database
<1>2. SaveChain(d, b, c) = f
  BY <1>r DEF SaveChain
<1> HIDE DEF e
<1>3. /\ old \in {b, Prev[b], NoBlock} /\ (b \in T => old = b)
  BY <1>0, <1>r, RowChosen
<1>4. T \subseteq Block /\ U \subseteq Block /\ T \subseteq Stored(d)
  BY <1>0, <1>1, TipsAreBlocks DEF RowsOf
<1>5. U = (T \ {old}) \cup {b}
  <2>1. \A q \in RowId : q # r /\ d.row[q] \in T => d.row[q] # old
    BY <1>0, <1>r, TipsAreBlocks DEF RowsOf
  <2>2. \A q \in RowId : e.row[q] = IF q = r THEN b ELSE d.row[q]
    BY <1>0, <1>1 DEF Database
  <2>3. b # NoBlock
    BY <1>0
  <2> QED BY <1>r, <2>1, <2>2, <2>3 DEF Tips
<1>6. old \in T /\ old # b => Better(b, old) /\ old \in Elements(d.anc[b])
  <2> SUFFICES ASSUME old \in T, old # b PROVE Better(b, old) /\ old \in Elements(d.anc[b])
    OBVIOUS
  <2>1. old = Prev[b] /\ Prev[b] # NoBlock
    BY <1>3, <1>4
  <2>2. Prev[b] \in Elements(d.anc[b]) /\ Idx[b] = Idx[Prev[b]] + 1
    BY <1>0, <2>1, ParentIsBelow
  <2>3. Idx[old] \in Nat
    BY <1>4
  <2>4. Idx[b] > Idx[old]
    BY <2>1, <2>2, <2>3
  <2> QED BY <2>1, <2>2, <2>4 DEF Better
<1>7. \/ old = b /\ b \in T
      \/ b \notin T /\ (old \in T => Better(b, old))
  BY <1>3, <1>6
<1>8. /\ Best(U, b) => \A t \in T : t = b \/ Better(b, t)
      /\ \A t : ~Best(U, b) /\ Best(T, t) => Best(U, t) /\ Better(t, b) /\ t # old
  <2>1. Replaces(T, old, b, U)
    BY <1>0, <1>4, <1>5, <1>7 DEF Replaces
  <2> HIDE DEF T, U, old, L
  <2> QED BY <2>1, NewTip
<1>9. RowsOf(e) /\ e.row[r] = b
  <2>1. \A q \in RowId : e.row[q] = IF q = r THEN b ELSE d.row[q]
    BY <1>0, <1>1 DEF Database
  <2>2. Tips(e) \subseteq Stored(e)
    BY <1>1, <1>4, <1>5 DEF Stored
  <2>3. \A q \in RowId : q # r => d.row[q] # b
    <3> SUFFICES ASSUME NEW q \in RowId, d.row[q] = b PROVE q = r
      OBVIOUS
    <3>1. b \in T
      BY <1>0 DEF Tips
    <3>2. d.row[q] = d.row[r] /\ IsRow(d, r)
      BY <1>0, <1>3, <3>1 DEF IsRow
    <3> QED BY <1>0, <1>r, <3>2 DEF RowsOf
  <2>4. \A p, q \in RowId : IsRow(e, q) /\ e.row[p] = e.row[q] => p = q
    BY <1>0, <2>1, <2>3 DEF RowsOf, IsRow
  <2> QED BY <1>r, <2>1, <2>2, <2>4 DEF RowsOf
<1>10. IsLongest(e, r) <=> Best(U, b)
  BY <1>1, <1>9, <1>r, LongestByTips
<1>11. T # {} => Best(T, L) /\ L \in T /\ L \in Block
  BY <1>0, <1>4, LongestTipIsBest DEF Best
<1>12. CASE ~Best(U, b)
  <2>1. f = e
    BY <1>10, <1>12 DEF SyncLongest
  <2>2. T # {}
    BY <1>5, <1>12 DEF Best
  <2>3. Best(U, L) /\ Better(L, b)
    BY <1>8, <1>11, <1>12, <2>2
  <2>4. LongestTip(e) = L
    BY <1>1, <1>9, <2>3, LongestTipIsBest
  <2>5. LongestShown(e) /\ AtMost(e, b) /\ U # {} /\ b \in U
    BY <1>1, <1>5, <2>2, <2>3, <2>4 DEF LongestShown, AtMost
  <2>6. \A x \in Block : AtMost(d, x) => AtMost(e, x)
    BY <2>4, <2>5 DEF AtMost
  <2>7. Improves(d, e)
    BY <1>1 DEF Improves
  <2>8. Survive(d, e)
    BY <1>1, <1>5, <1>6 DEF Survive
  <2> QED BY <1>1, <1>2, <2>1, <2>5, <2>6, <2>7, <2>8 DEF Extended
<1>13. CASE Best(U, b)
  <2> DEFINE m == Materialize(e.mat, e.anc[b])
             kept == PruneStaleForks(e, r)
  <2>1. f = [e EXCEPT !.mat = m, !.row = kept]
    BY <1>9, <1>10, <1>13 DEF SyncLongest
  <2>2. m = IF b \in Elements(d.mat) THEN d.mat ELSE d.anc[b]
    BY <1>0, <1>1, MaterializeIs
  <2>3. b \in Elements(d.mat) => T # {} /\ L = b
    <3> SUFFICES ASSUME b \in Elements(d.mat) PROVE T # {} /\ L = b
      OBVIOUS
    <3>1. d.mat # <<>>
      BY <1>0, EmptySeq DEF Elements, Database
    <3>2. T # {} /\ Top(d.mat) = L /\ d.mat = d.anc[L] /\ L \in Stored(d)
      BY <1>0, <3>1 DEF LongestShown, MatOf
    <3>3. Idx[b] <= Idx[L] /\ (Idx[b] = Idx[L] => b = L)
      BY <1>0, <3>2, AncestorsAreLower
    <3>4. L = b \/ Better(b, L)
      BY <1>8, <1>11, <1>13, <3>2
    <3>5. L = b \/ Idx[b] >= Idx[L]
      BY <1>0, <1>11, <3>2, <3>4, BetterIsAnOrder
    <3>6. Idx[b] \in Nat /\ Idx[L] \in Nat
      BY <1>0, <1>11, <3>2
    <3> QED BY <3>2, <3>3, <3>5, <3>6
  <2>4. m = d.anc[b] /\ m # <<>> /\ m \in Seq(Block) /\ Top(m) = b
    <3>1. d.anc[b] # <<>> /\ d.anc[b] \in Seq(Block) /\ Top(d.anc[b]) = b
      BY <1>0 DEF Stored, Database, AncestryOf
    <3>2. b \in Elements(d.mat) => d.mat = d.anc[b]
      <4>1. b \in Elements(d.mat) => d.mat # <<>>
        BY <1>0, EmptySeq DEF Elements, Database
      <4> QED BY <1>0, <2>3, <4>1 DEF LongestShown, MatOf
    <3> QED BY <2>2, <3>1, <3>2
  <2>5. /\ kept \in [RowId -> Block \cup {NoBlock}]
        /\ kept[r] = b
        /\ \A q \in RowId : \/ kept[q] = e.row[q]
                            \/ kept[q] = NoBlock /\ Idx[e.row[q]] < Idx[b] - PruneDepth
    BY <1>1, <1>9, <1>r DEF PruneStaleForks, Database
  <2> HIDE DEF m, kept, f
  <2>6. f \in Database /\ f.anc = e.anc /\ f.mat = m /\ f.row = kept
    BY <1>1, <2>1, <2>4, <2>5 DEF Database
  <2>7. /\ Tips(f) \subseteq U /\ b \in Tips(f)
        /\ \A u \in U \ Tips(f) : Idx[u] < Idx[b] - PruneDepth
    <3>1. Tips(f) \subseteq U
      BY <2>5, <2>6 DEF Tips
    <3>2. b \in Tips(f)
      BY <1>0, <1>r, <2>5, <2>6 DEF Tips
    <3>3. ASSUME NEW u \in U \ Tips(f) PROVE Idx[u] < Idx[b] - PruneDepth
      <4>1. PICK q \in RowId : e.row[q] = u
        BY <1>1, TipsAreBlocks
      <4>2. kept[q] # u
        BY <2>6, <3>3, <4>1 DEF Tips
      <4> QED BY <2>5, <4>1, <4>2
    <3> QED BY <3>1, <3>2, <3>3
  <2>8. RowsOf(f)
    <3>1. StoreOK(SaveChain(d, b, c))
      BY SaveChainOK
    <3> QED BY <1>2, <3>1 DEF StoreOK
  <2>9. Best(Tips(f), b)
    BY <1>13, <2>7 DEF Best
  <2>10. LongestTip(f) = b
    BY <2>6, <2>8, <2>9, LongestTipIsBest
  <2>11. LongestShown(f) /\ AtMost(f, b)
    BY <2>4, <2>6, <2>7, <2>10 DEF LongestShown, AtMost
  <2>12. \A x \in Block : AtMost(d, x) => AtMost(f, x)
    <3> SUFFICES ASSUME NEW x \in Block, AtMost(d, x) PROVE x = b \/ Better(b, x)
      BY <2>7, <2>10 DEF AtMost
    <3>1. T # {} /\ (x = L \/ Better(L, x)) /\ L \in T /\ L \in Block
      BY <1>11 DEF AtMost
    <3>2. L = b \/ Better(b, L)
      BY <1>8, <1>13, <3>1
    <3> QED BY <1>0, <3>1, <3>2, BetterIsAnOrder
  <2>13. Improves(d, f)
    <3>1. CASE d.mat = <<>>
      BY <2>4, <2>6, <3>1 DEF Improves
    <3>2. CASE d.mat # <<>>
      <4>1. T # {} /\ Top(d.mat) = L /\ d.mat = d.anc[L]
        BY <1>0, <3>2 DEF LongestShown, MatOf
      <4>2. L = b \/ Better(b, L)
        BY <1>8, <1>11, <1>13, <4>1
      <4> QED BY <2>4, <2>6, <4>1, <4>2 DEF Improves
    <3> QED BY <3>1, <3>2
  <2>14. Survive(d, f)
    <3> SUFFICES ASSUME NEW t \in T \ Tips(f)
                 PROVE  \/ \E a \in Tips(f) : t \in Elements(f.anc[a])
                        \/ Idx[t] < Idx[b] - PruneDepth
      BY <2>10 DEF Survive
    <3>1. CASE t \in U
      BY <2>7, <3>1
    <3>2. CASE t \notin U
      <4>1. t = old /\ old # b
        BY <1>5, <3>2
      <4> QED BY <1>1, <1>6, <2>6, <2>7, <4>1
    <3> QED BY <3>1, <3>2
  <2> QED BY <1>1, <1>2, <2>6, <2>7, <2>11, <2>12, <2>13, <2>14 DEF Extended
<1> QED BY <1>12, <1>13

-----------------------------------------------------------------------------
(* The inductive invariant of a single process.                                 *)

SoloOK(w) == SoloStores(w) /\ SoloTask(w) /\ SoloNews(w)

(* Storing a block adds no tip and leaves the chains alone.                        *)
LEMMA StoringKeepsTips ==
    ASSUME NEW d, StoreOK(d), NEW b \in Block, LinkOK(d, b), NEW e, e = StoreBlock(d, b)
    PROVE  /\ e.row = d.row /\ e.mat = d.mat /\ Tips(e) = Tips(d)
           /\ LongestTip(e) = LongestTip(d)
           /\ \A t : RowWithTip(e, t) = RowWithTip(d, t)
           /\ \A t : AtMost(e, t) = AtMost(d, t)
           /\ LongestShown(e) = LongestShown(d)
           /\ \A c \in Stored(d) : e.anc[c] = d.anc[c]
           /\ StoreOK(e) /\ Stored(e) = Stored(d) \cup {b}
<1>1. d \in Database
  BY DEF StoreOK
<1>2. e.row = d.row /\ e.mat = d.mat /\ \A c \in Stored(d) : e.anc[c] = d.anc[c]
  <2>1. CASE b \in Stored(d)
    BY <2>1 DEF StoreBlock
  <2>2. CASE b \notin Stored(d)
    <3>1. /\ e.row = d.row /\ e.mat = d.mat
          /\ \A c \in Block \ {b} : e.anc[c] = d.anc[c]
      BY <1>1, <2>2, StoreBlockAnc
    <3> QED BY <2>2, <3>1 DEF Stored
  <2> QED BY <2>1, <2>2
<1>3. Tips(e) = Tips(d)
  BY <1>2 DEF Tips
<1>4. LongestTip(e) = LongestTip(d)
  BY <1>2 DEF LongestTip, IsLongest, IsRow
<1>5. \A t : RowWithTip(e, t) = RowWithTip(d, t)
  BY <1>2, <1>3 DEF RowWithTip
<1>6. (\A t : AtMost(e, t) = AtMost(d, t)) /\ LongestShown(e) = LongestShown(d)
  BY <1>2, <1>3, <1>4 DEF AtMost, LongestShown
<1> QED BY <1>2, <1>3, <1>4, <1>5, <1>6, StoreBlockOK

(* Where the longest chains of two databases end, when the second improves the first. *)
LEMMA ImprovedTips ==
    ASSUME NEW d, NEW e, StoreOK(d), StoreOK(e), LongestShown(d), LongestShown(e),
           Improves(d, e), Tips(d) # {}
    PROVE  /\ Tips(e) # {} /\ LongestTip(d) \in Block /\ LongestTip(e) \in Block
           /\ Idx[LongestTip(d)] <= Idx[LongestTip(e)]
<1>1. Tips(e) # {} /\ Top(d.mat) = LongestTip(d) /\ Top(e.mat) = LongestTip(e)
  BY DEF Improves, LongestShown
<1>2. LongestTip(d) \in Block /\ LongestTip(e) \in Block
  BY <1>1, LongestTipIsBest, TipsAreBlocks DEF StoreOK, Best
<1>3. LongestTip(e) = LongestTip(d) \/ Better(LongestTip(e), LongestTip(d))
  BY <1>1 DEF Improves, LongestShown
<1>4. Idx[LongestTip(d)] \in Nat /\ Idx[LongestTip(e)] \in Nat
  BY <1>2, HeaderAssumption
<1>5. LongestTip(e) = LongestTip(d) \/ Idx[LongestTip(e)] >= Idx[LongestTip(d)]
  BY <1>2, <1>3, BetterIsAnOrder
<1>6. Idx[LongestTip(d)] <= Idx[LongestTip(e)]
  BY <1>4, <1>5
<1> QED BY <1>1, <1>2, <1>6

LEMMA ImprovesIsTransitive ==
    ASSUME NEW d, NEW e, NEW f, StoreOK(d), StoreOK(e), StoreOK(f),
           Improves(d, e), Improves(e, f)
    PROVE  Improves(d, f)
<1>1. \A g \in {d, e, f} : g.mat # <<>> => Top(g.mat) \in Block
  BY DEF StoreOK, MatOf, Stored
<1> QED BY <1>1, BetterIsAnOrder DEF Improves

LEMMA SurvivalIsTransitive ==
    ASSUME NEW d, NEW e, NEW f, StoreOK(d), StoreOK(e), StoreOK(f),
           LongestShown(d), LongestShown(e), LongestShown(f),
           Improves(d, e), Improves(e, f), Survive(d, e), Survive(e, f),
           \A c \in Stored(e) : f.anc[c] = e.anc[c]
    PROVE  Survive(d, f)
<1> SUFFICES ASSUME NEW t \in Tips(d), t \notin Tips(f)
             PROVE  \/ \E c \in Tips(f) : t \in Elements(f.anc[c])
                    \/ Idx[t] < Idx[LongestTip(f)] - PruneDepth
  BY DEF Survive
<1>0. /\ Tips(d) # {} /\ Tips(e) # {} /\ Tips(e) \subseteq Stored(e) /\ t \in Block
      /\ Idx[LongestTip(e)] <= Idx[LongestTip(f)]
      /\ LongestTip(e) \in Block /\ LongestTip(f) \in Block
  BY ImprovedTips, TipsAreBlocks DEF StoreOK, RowsOf
<1>1. Idx[t] \in Nat /\ Idx[LongestTip(e)] \in Nat /\ Idx[LongestTip(f)] \in Nat /\ PruneDepth \in Nat
  BY <1>0, HeaderAssumption, BoundAssumption
<1>2. CASE t \in Tips(e)
  BY <1>2 DEF Survive
<1>3. CASE t \notin Tips(e) /\ Idx[t] < Idx[LongestTip(e)] - PruneDepth
  BY <1>0, <1>1, <1>3
<1>4. CASE \E c \in Tips(e) : t \in Elements(e.anc[c])
  <2>1. PICK c \in Tips(e) : t \in Elements(e.anc[c])
    BY <1>4
  <2>2. c \in Stored(e) /\ c \in Block /\ f.anc[c] = e.anc[c] /\ Idx[c] \in Nat
    BY <1>0, HeaderAssumption DEF Stored
  <2>3. CASE c \in Tips(f)
    BY <2>1, <2>2, <2>3
  <2>4. CASE c \notin Tips(f) /\ Idx[c] < Idx[LongestTip(f)] - PruneDepth
    <3>1. Idx[t] <= Idx[c]
      BY <2>1, <2>2, AncestorsAreLower DEF StoreOK
    <3> QED BY <1>1, <2>2, <2>4, <3>1
  <2>5. CASE \E a \in Tips(f) : c \in Elements(f.anc[a])
    <3>1. PICK a \in Tips(f) : c \in Elements(f.anc[a])
      BY <2>5
    <3>2. a \in Stored(f)
      BY <3>1 DEF StoreOK, RowsOf
    <3>3. Elements(f.anc[c]) \subseteq Elements(f.anc[a])
      BY <3>1, <3>2, AncestorsAreLower DEF StoreOK
    <3> QED BY <2>1, <2>2, <3>1, <3>3
  <2> QED BY <2>1, <2>3, <2>4, <2>5 DEF Survive
<1> QED BY <1>2, <1>3, <1>4 DEF Survive

(* What the steps of a single process can assume.                                *)
Alone(w) == w \in Worker /\ Worker = {w} /\ IInv /\ SoloOK(w)

LEMMA Facts ==
    ASSUME NEW w, Alone(w)
    PROVE  /\ StoreOK(db) /\ StoreOK(tx) /\ Stored(db) \subseteq Stored(tx)
           /\ pc[w] # "applying" => tx = db
           /\ pc[w] \in Label /\ task[w] \in Task /\ fresh[w] \in Seq(Block)
           /\ news \in [Block -> Nat]
           /\ Sound(db, tx, lost \cup Flying(w)) /\ SoloTask(w) /\ SoloNews(w)
           /\ WorkerOK(w) /\ SignalledStored /\ w \in Worker
           /\ pc \in [Worker -> Label] /\ task \in [Worker -> Task]
           /\ fresh \in [Worker -> Seq(Block)]
BY DEF Alone, IInv, StoresOK, TypeOK, SoloOK, SoloStores, Unlocked

(* A committed database alone is sound.                                          *)
LEMMA SoundAlone ==
    ASSUME NEW d, NEW gone, LongestShown(d), \A b \in Stored(d) \ gone : AtMost(d, b)
    PROVE  Sound(d, d, gone)
BY DEF Sound, Improves, Survive

LEMMA SoloAcceptReads ==
    ASSUME NEW w, Alone(w),
           \/ \E b \in Block, mode \in {"live", "import", "sync"} : Begin(w, b, mode)
           \/ Validate(w) \/ Reject(w)
    PROVE  SoloOK(w)'
<1> USE Facts
<1>1. UNCHANGED <<db, tx, lost, news, fresh>>
  BY DEF Begin, Validate, Reject, Finish, Goto
<1>2. CASE \E b \in Block, mode \in {"live", "import", "sync"} : Begin(w, b, mode)
  <2>1. PICK b \in Block, mode \in {"live", "import", "sync"} : Begin(w, b, mode)
    BY <1>2
  <2>2. /\ pc[w] = "idle" /\ pc'[w] = "loaded"
        /\ task'[w].mode = mode /\ task'[w].blk = b /\ task'[w].cid = RowWithTip(db, Prev[b])
    BY <2>1 DEF Begin, Goto
  <2>3. mode = "live" => b \notin Stored(db)
    BY <2>1 DEF Begin, LiveReady
  <2>4. SoloStores(w)'
    BY <1>1, <2>2 DEF SoloStores, Flying
  <2>5. SoloTask(w)'
    BY <1>1, <2>2 DEF SoloTask
  <2>6. SoloNews(w)'
    BY <1>1, <2>2, <2>3 DEF SoloNews
  <2> QED BY <2>4, <2>5, <2>6 DEF SoloOK
<1>3. CASE Validate(w)
  <2>1. pc[w] = "loaded" /\ pc'[w] = "validated" /\ task' = task
    BY <1>3 DEF Validate, Goto
  <2>2. SoloStores(w)'
    BY <1>1, <2>1 DEF SoloStores, Flying
  <2>3. SoloTask(w)'
    BY <1>1, <2>1 DEF SoloTask
  <2>4. SoloNews(w)'
    BY <1>1, <2>1 DEF SoloNews
  <2> QED BY <2>2, <2>3, <2>4 DEF SoloOK
<1>4. CASE Reject(w)
  <2>1. pc[w] = "loaded" /\ pc'[w] = "idle" /\ task'[w] = Idle
    BY <1>4 DEF Reject, Finish, Goto
  <2>2. SoloStores(w)'
    BY <1>1, <2>1 DEF SoloStores, Flying
  <2>3. SoloTask(w)'
    BY <1>1, <2>1 DEF SoloTask
  <2>4. SoloNews(w)'
    BY <1>1, <2>1 DEF SoloNews, Idle
  <2> QED BY <2>2, <2>3, <2>4 DEF SoloOK
<1> QED BY <1>2, <1>3, <1>4

LEMMA SoloFillReads ==
    ASSUME NEW w, Alone(w),
           \/ \E b \in Block : FillStart(w, b)
           \/ FillWalk(w) \/ FillTooDeep(w) \/ FillBegin(w)
    PROVE  SoloOK(w)'
<1> USE Facts
<1>1. UNCHANGED <<db, tx, lost, news, fresh, task>>
  BY DEF FillStart, FillWalk, FillTooDeep, FillBegin, Goto
<1>2. pc[w] \in {"idle", "walking"} /\ pc'[w] \in {"idle", "walking", "applying"}
  BY DEF FillStart, FillWalk, FillTooDeep, FillBegin, Goto
<1>3. SoloStores(w)'
  BY <1>1, <1>2 DEF SoloStores, Flying
<1>4. SoloTask(w)'
  BY <1>1, <1>2 DEF SoloTask
<1>5. SoloNews(w)'
  <2>1. fresh[w] = <<>> /\ Len(<<>>) = 0 /\ (\A b \in Block : news[b] <= 1)
    BY <1>2 DEF SoloNews
  <2>2. \A i \in 1 .. Len(fresh[w]) : FALSE
    BY <2>1
  <2>3. Distinct(fresh[w])
    BY <2>2 DEF Distinct
  <2> QED BY <1>1, <1>2, <2>1, <2>2, <2>3 DEF SoloNews
<1> QED BY <1>3, <1>4, <1>5 DEF SoloOK

LEMMA SoloCommitBlock ==
    ASSUME NEW w, Alone(w), CommitBlock(w)
    PROVE  SoloOK(w)'
<1>0. PICK b : b = task[w].blk
  OBVIOUS
<1>1. /\ pc[w] = "validated" /\ pc'[w] = "stored" /\ db' = StoreBlock(db, b) /\ tx' = db'
      /\ UNCHANGED <<task, fresh, news, lost>>
  BY <1>0, Facts DEF CommitBlock, Goto
<1>2. b \in Block /\ LinkOK(db, b) /\ StoreOK(db) /\ tx = db
  BY <1>0, <1>1, Facts DEF WorkerOK
<1>3. /\ (\A t : RowWithTip(db', t) = RowWithTip(db, t)) /\ (\A t : AtMost(db', t) = AtMost(db, t))
      /\ LongestShown(db') = LongestShown(db) /\ Stored(db') = Stored(db) \cup {b}
  BY <1>1, <1>2, StoringKeepsTips
<1>4. SoloStores(w)'
  <2>1. Flying(w) = {} /\ Flying(w)' = {b}
    BY <1>0, <1>1 DEF Flying
  <2>2. LongestShown(db) /\ \A c \in Stored(db) \ (lost \cup {}) : AtMost(db, c)
    BY <2>1, Facts DEF Sound
  <2>3. LongestShown(db') /\ \A c \in Stored(db') \ (lost \cup {b}) : AtMost(db', c)
    BY <1>3, <2>2
  <2>4. Sound(db', db', lost \cup {b})
    BY <2>3, SoundAlone
  <2> QED BY <1>1, <2>1, <2>4 DEF SoloStores
<1>5. SoloTask(w)'
  BY <1>1, <1>3, Facts DEF SoloTask
<1>6. SoloNews(w)'
  <2>1. task[w].mode = "live" => news[b] = 0
    <3>1. task[w].mode = "live" => b \notin Stored(db)
      BY <1>0, <1>1, Facts DEF SoloNews
    <3>2. news[b] \in Nat
      BY <1>2, Facts
    <3>3. news[b] > 0 => b \in Stored(db)
      BY <1>2, Facts DEF SignalledStored
    <3> QED BY <3>1, <3>2, <3>3
  <2> QED BY <1>0, <1>1, <2>1, Facts DEF SoloNews
<1> QED BY <1>4, <1>5, <1>6 DEF SoloOK

LEMMA SoloCommitChain ==
    ASSUME NEW w, Alone(w), CommitChain(w)
    PROVE  SoloOK(w)' /\ Improves(db, db') /\ Survive(db, db')
<1>0. PICK b, c : b = task[w].blk /\ c = task[w].cid
  OBVIOUS
<1>1. /\ pc[w] = "stored" /\ db' = SaveChain(db, b, c) /\ tx' = db' /\ ChainRow(db, b, c) \in RowId
      /\ \/ task[w].mode = "live" /\ pc'[w] = "accepted" /\ task' = task
         \/ task[w].mode # "live" /\ pc'[w] = "idle" /\ task'[w] = Idle
      /\ UNCHANGED <<fresh, news, lost>>
  BY <1>0, Facts DEF CommitChain, Goto, Finish
<1>2. b \in Stored(db) /\ c = RowWithTip(db, Prev[b]) /\ StoreOK(db) /\ tx = db
  BY <1>0, <1>1, Facts DEF WorkerOK, SoloTask
<1>3. LongestShown(db) /\ \A x \in Stored(db) \ (lost \cup {b}) : AtMost(db, x)
  BY <1>0, <1>1, Facts DEF Sound, Flying
<1>4. Extended(db, db', b) /\ Stored(db') = Stored(db)
  BY <1>1, <1>2, <1>3, SaveChainExtends, SaveChainOK
<1>5. SoloStores(w)'
  <2>1. LongestShown(db') /\ \A x \in Stored(db') \ lost : AtMost(db', x)
    <3>1. \A x \in Stored(db) : x \in Block
      BY DEF Stored
    <3> QED BY <1>3, <1>4, <3>1 DEF Extended
  <2>2. Sound(db', db', lost)
    BY <2>1, SoundAlone
  <2>3. Flying(w)' = {}
    BY <1>1 DEF Flying
  <2> QED BY <1>1, <2>2, <2>3 DEF SoloStores
<1>6. SoloTask(w)'
  BY <1>1 DEF SoloTask
<1>7. SoloNews(w)'
  BY <1>1, Facts DEF SoloNews, Idle
<1> QED BY <1>4, <1>5, <1>6, <1>7 DEF SoloOK, Extended

LEMMA SoloAnnounce ==
    ASSUME NEW w, Alone(w), Announce(w)
    PROVE  SoloOK(w)'
<1>0. PICK b : b = task[w].blk
  OBVIOUS
<1>1. /\ pc[w] = "accepted" /\ pc'[w] = "idle" /\ task'[w] = Idle
      /\ news' = [news EXCEPT ![b] = news[b] + 1]
      /\ UNCHANGED <<db, tx, fresh, lost>>
  BY <1>0, Facts DEF Announce, Goto, Finish
<1>2. news[b] = 0
  BY <1>0, <1>1, Facts DEF SoloNews
<1>3. SoloStores(w)'
  BY <1>1, Facts DEF SoloStores, Flying
<1>4. SoloTask(w)'
  BY <1>1 DEF SoloTask
<1>5. SoloNews(w)'
  <2>1. \A x \in Block : news'[x] <= 1
    <3>1. \A x \in Block : news[x] <= 1 /\ (x # b => news'[x] = news[x])
      BY <1>1, Facts DEF SoloNews
    <3>2. b \in Block => news'[b] = 1
      <4>1. news \in [Block -> Nat]
        BY Facts
      <4> QED BY <1>1, <1>2, <4>1
    <3> QED BY <3>1, <3>2
  <2> QED BY <1>1, <2>1, Facts DEF SoloNews, Idle
<1> QED BY <1>3, <1>4, <1>5 DEF SoloOK

LEMMA SoloFillApply ==
    ASSUME NEW w, Alone(w), FillApply(w)
    PROVE  SoloOK(w)'
<1>0. PICK b, c, d : b = Head(queue[w]) /\ c = RowWithTip(tx, Prev[b]) /\ d = StoreBlock(tx, b)
  OBVIOUS
<1>1. /\ pc[w] = "applying" /\ Validates(tx, b) /\ ChainRow(d, b, c) \in RowId
      /\ tx' = SaveChain(d, b, c)
      /\ fresh' = [fresh EXCEPT ![w] = IF b \in Stored(tx) THEN fresh[w] ELSE Append(fresh[w], b)]
      /\ UNCHANGED <<db, pc, task, news, lost>>
  BY <1>0 DEF FillApply
<1>2. b \in Block /\ LinkOK(tx, b)
  BY <1>1, HeaderAssumption, ValidatesLink DEF Validates
<1>3. /\ StoreOK(db) /\ StoreOK(tx) /\ Stored(db) \subseteq Stored(tx)
      /\ Sound(db, tx, lost) /\ Flying(w) = {} /\ Flying(w)' = {}
  <2>1. Flying(w) = {} /\ Flying(w)' = {}
    BY <1>1 DEF Flying
  <2>2. lost \cup {} = lost
    OBVIOUS
  <2> QED BY <2>1, <2>2, Facts
<1>4. /\ d.mat = tx.mat /\ Tips(d) = Tips(tx) /\ LongestTip(d) = LongestTip(tx)
      /\ c = RowWithTip(d, Prev[b]) /\ (\A t : AtMost(d, t) = AtMost(tx, t))
      /\ LongestShown(d) = LongestShown(tx)
      /\ StoreOK(d) /\ Stored(d) = Stored(tx) \cup {b}
      /\ \A x \in Stored(tx) : d.anc[x] = tx.anc[x]
  BY <1>0, <1>2, <1>3, StoringKeepsTips
<1>5. Extended(d, tx', b) /\ StoreOK(tx') /\ Stored(tx') = Stored(d)
  <2>1. LongestShown(d) /\ b \in Stored(d)
    BY <1>3, <1>4 DEF Sound
  <2> QED BY <1>1, <1>4, <2>1, SaveChainExtends, SaveChainOK
<1>6. Sound(db, tx', lost)
  <2>1. LongestShown(db) /\ LongestShown(tx) /\ LongestShown(tx')
    BY <1>3, <1>5 DEF Sound, Extended
  <2>2. \A x \in Stored(tx') \ lost : AtMost(tx', x)
    <3>1. \A x \in Stored(tx) \ lost : x \in Block /\ AtMost(tx, x)
      BY <1>3 DEF Sound, Stored
    <3> QED BY <1>4, <1>5, <3>1 DEF Extended
  <2>3. \A x \in Stored(tx) : tx'.anc[x] = tx.anc[x]
    BY <1>4, <1>5 DEF Extended
  <2>4. Improves(tx, tx') /\ Survive(tx, tx')
    BY <1>4, <1>5 DEF Extended, Improves, Survive
  <2>5. Improves(db, tx) /\ Survive(db, tx)
    BY <1>3 DEF Sound
  <2>6. Improves(db, tx')
    BY <1>3, <1>5, <2>4, <2>5, ImprovesIsTransitive
  <2>7. Survive(db, tx')
    BY <1>3, <1>5, <2>1, <2>3, <2>4, <2>5, SurvivalIsTransitive
  <2>8. \A x \in Stored(db) : tx'.anc[x] = db.anc[x]
    BY <1>3, <2>3 DEF Sound
  <2>9. \A x \in Stored(db) \ lost : AtMost(db, x)
    BY <1>3 DEF Sound
  <2> QED BY <2>1, <2>2, <2>6, <2>7, <2>8, <2>9 DEF Sound
<1>7. SoloStores(w)'
  <2>1. lost' \cup {} = lost
    BY <1>1
  <2> QED BY <1>1, <1>3, <1>6, <2>1 DEF SoloStores
<1>8. SoloTask(w)'
  BY <1>1 DEF SoloTask
<1>9. SoloNews(w)'
  <2>1. /\ fresh[w] \in Seq(Block) /\ Len(fresh[w]) \in Nat
        /\ fresh'[w] = IF b \in Stored(tx) THEN fresh[w] ELSE Append(fresh[w], b)
        /\ \A i \in 1 .. Len(fresh[w]) : fresh[w][i] \notin Stored(db) /\ fresh[w][i] \in Stored(tx)
        /\ Distinct(fresh[w]) /\ \A x \in Block : news[x] <= 1
    <3>1. fresh \in [Worker -> Seq(Block)] /\ w \in Worker
      BY Facts
    <3>2. SoloNews(w) /\ WorkerOK(w)
      BY Facts
    <3> QED BY <1>1, <3>1, <3>2 DEF SoloNews, WorkerOK
  <2>2. Distinct(fresh'[w]) /\ \A i \in 1 .. Len(fresh'[w]) : fresh'[w][i] \notin Stored(db)
    <3>1. CASE b \in Stored(tx)
      BY <2>1, <3>1
    <3>2. CASE b \notin Stored(tx)
      <4> DEFINE s == fresh[w]
                 t == Append(s, b)
      <4>1. /\ Len(t) = Len(s) + 1 /\ t[Len(s) + 1] = b
            /\ \A i \in 1 .. Len(s) : t[i] = s[i]
        BY <1>2, <2>1
      <4>2. fresh'[w] = t
        BY <2>1, <3>2
      <4>3. \A i \in 1 .. Len(s) : t[i] # b
        BY <2>1, <3>2, <4>1
      <4>4. b \notin Stored(db)
        BY <1>3, <3>2
      <4> HIDE DEF t
      <4>5. \A i \in 1 .. Len(t) : i \in 1 .. Len(s) \/ i = Len(s) + 1
        BY <2>1, <4>1
      <4> QED BY <2>1, <4>1, <4>2, <4>3, <4>4, <4>5 DEF Distinct
    <3> QED BY <3>1, <3>2
  <2>3. \A x \in Block : news'[x] <= 1
    BY <1>1, <2>1
  <2> QED BY <1>1, <2>2, <2>3 DEF SoloNews
<1> QED BY <1>7, <1>8, <1>9 DEF SoloOK

(* The batch is rolled back, or the process fails.                                *)
LEMMA SoloRollback ==
    ASSUME NEW w, Alone(w), FillReject(w) \/ Fail(w)
    PROVE  SoloOK(w)'
<1>1. /\ pc'[w] = "idle" /\ fresh'[w] = <<>> /\ db' = db /\ news' = news
      /\ tx' = db
      /\ lost' = lost \cup Flying(w)
  <2>1. pc'[w] = "idle" /\ fresh'[w] = <<>> /\ db' = db /\ news' = news
    BY Facts DEF FillReject, Fail, Finish, Goto
  <2>2. CASE FillReject(w)
    BY <2>1, <2>2 DEF FillReject, Flying
  <2>3. CASE Fail(w)
    BY <2>1, <2>3, Facts DEF Fail, Flying
  <2> QED BY <2>1, <2>2, <2>3
<1>2. SoloStores(w)'
  <2>1. LongestShown(db) /\ \A x \in Stored(db) \ (lost \cup Flying(w)) : AtMost(db, x)
    BY Facts DEF Sound
  <2>2. Sound(db, db, lost \cup Flying(w))
    BY <2>1, SoundAlone
  <2>3. lost' \cup Flying(w)' = lost \cup Flying(w)
    BY <1>1 DEF Flying
  <2> QED BY <1>1, <2>2, <2>3 DEF SoloStores
<1>3. SoloTask(w)'
  BY <1>1 DEF SoloTask
<1>4. SoloNews(w)'
  <2>1. \A i \in 1 .. Len(fresh'[w]) : FALSE
    <3>1. Len(<<>>) = 0
      OBVIOUS
    <3> QED BY <1>1, <3>1
  <2>2. Distinct(fresh'[w])
    BY <2>1 DEF Distinct
  <2>3. \A x \in Block : news[x] <= 1
    BY Facts DEF SoloNews
  <2> QED BY <1>1, <2>1, <2>2, <2>3 DEF SoloNews
<1> QED BY <1>2, <1>3, <1>4 DEF SoloOK

LEMMA SoloFillCommit ==
    ASSUME NEW w, Alone(w), FillCommit(w)
    PROVE  SoloOK(w)' /\ Improves(db, db') /\ Survive(db, db')
<1>1. /\ pc[w] = "applying" /\ db' = tx /\ tx' = tx
      /\ pc'[w] = (IF fresh[w] = <<>> THEN "idle" ELSE "signalling")
      /\ UNCHANGED <<task, fresh, news, lost>>
  BY Facts DEF FillCommit, Goto
<1>2. Flying(w) = {} /\ Flying(w)' = {}
  BY <1>1 DEF Flying
<1>3. Sound(db, tx, lost \cup {})
  BY <1>2, Facts
<1>4. Improves(db, tx) /\ Survive(db, tx)
  BY <1>3 DEF Sound
<1>5. SoloStores(w)'
  <2>1. LongestShown(tx) /\ \A x \in Stored(tx) \ (lost \cup {}) : AtMost(tx, x)
    BY <1>3 DEF Sound
  <2>2. Sound(tx, tx, lost \cup {})
    BY <2>1, SoundAlone
  <2> QED BY <1>1, <1>2, <2>2 DEF SoloStores
<1>6. SoloTask(w)'
  BY <1>1 DEF SoloTask
<1>7. SoloNews(w)'
  <2>1. /\ \A i \in 1 .. Len(fresh[w]) : fresh[w][i] \notin Stored(db) /\ fresh[w][i] \in Block
        /\ Distinct(fresh[w]) /\ \A x \in Block : news[x] <= 1
    <3>1. fresh[w] \in Seq(Block) /\ SoloNews(w)
      BY Facts
    <3> QED BY <1>1, <3>1 DEF SoloNews
  <2>2. \A x \in Block : x \notin Stored(db) => news[x] = 0
    <3>1. news \in [Block -> Nat] /\ SignalledStored
      BY Facts
    <3> QED BY <3>1 DEF SignalledStored
  <2>3. \A i \in 1 .. Len(fresh[w]) : news[fresh[w][i]] = 0
    BY <2>1, <2>2
  <2> QED BY <1>1, <2>1, <2>3 DEF SoloNews
<1> QED BY <1>1, <1>4, <1>5, <1>6, <1>7 DEF SoloOK

LEMMA SoloFillSignal ==
    ASSUME NEW w, Alone(w), FillSignal(w)
    PROVE  SoloOK(w)'
<1>0. PICK b, s : b = Head(fresh[w]) /\ s = fresh[w]
  OBVIOUS
<1>1. /\ pc[w] = "signalling" /\ pc'[w] = (IF Len(s) = 1 THEN "idle" ELSE "signalling")
      /\ news' = [news EXCEPT ![b] = news[b] + 1] /\ fresh'[w] = Tail(s)
      /\ UNCHANGED <<db, tx, task, lost>>
  BY <1>0, Facts DEF FillSignal, Goto
<1>2. /\ s \in Seq(Block) /\ s # <<>> /\ Distinct(s) /\ (\A x \in Block : news[x] <= 1)
      /\ \A i \in 1 .. Len(s) : news[s[i]] = 0
  BY <1>0, <1>1, Facts DEF SoloNews, WorkerOK
<1>3. /\ Len(s) \in Nat \ {0} /\ b = s[1] /\ Len(Tail(s)) = Len(s) - 1
      /\ \A i \in 1 .. Len(Tail(s)) : Tail(s)[i] = s[i + 1]
  BY <1>0, <1>2, EmptySeq, HeadTailProperties
<1>4. /\ 1 \in 1 .. Len(s) /\ b \in Block
      /\ \A i \in 1 .. Len(Tail(s)) : i \in Nat /\ i + 1 \in 1 .. Len(s) /\ i + 1 # 1
  BY <1>2, <1>3
<1>5. \A i \in 1 .. Len(Tail(s)) : Tail(s)[i] # b /\ Tail(s)[i] \in Block /\ news[Tail(s)[i]] = 0
  <2> TAKE i \in 1 .. Len(Tail(s))
  <2>1. s[i + 1] # s[1]
    BY <1>2, <1>4 DEF Distinct
  <2> QED BY <1>2, <1>3, <1>4, <2>1
<1>6. Distinct(Tail(s))
  <2> SUFFICES ASSUME NEW i \in 1 .. Len(Tail(s)), NEW j \in 1 .. Len(Tail(s)),
                      Tail(s)[i] = Tail(s)[j]
               PROVE  i = j
    BY DEF Distinct
  <2>1. s[i + 1] = s[j + 1] /\ i + 1 \in 1 .. Len(s) /\ j + 1 \in 1 .. Len(s)
    BY <1>3, <1>4
  <2>2. i + 1 = j + 1
    BY <1>2, <2>1 DEF Distinct
  <2> QED BY <2>2
<1>7. news'[b] = 1 /\ \A x \in Block : x # b => news'[x] = news[x]
  <2>1. news \in [Block -> Nat] /\ news[b] = 0
    BY <1>2, <1>3, <1>4, Facts
  <2> QED BY <1>1, <1>4, <2>1
<1>8. SoloStores(w)'
  BY <1>1, Facts DEF SoloStores, Flying
<1>9. SoloTask(w)'
  BY <1>1 DEF SoloTask
<1>10. SoloNews(w)'
  <2>1. \A x \in Block : news'[x] <= 1
    BY <1>2, <1>7
  <2>2. \A i \in 1 .. Len(Tail(s)) : news'[Tail(s)[i]] = 0
    BY <1>5, <1>7
  <2>3. Len(s) = 1 => Tail(s) = <<>>
    <3>1. Len(s) = 1 => Len(Tail(s)) = 0
      BY <1>3
    <3>2. Tail(s) \in Seq(Block)
      BY <1>2
    <3> QED BY <3>1, <3>2, EmptySeq
  <2> QED BY <1>1, <1>6, <2>1, <2>2, <2>3 DEF SoloNews
<1> QED BY <1>8, <1>9, <1>10 DEF SoloOK

(* Every step: the canonical chain is replaced by a better one, or not at all, no  *)
(* fork is lost, and the invariant is kept.                                      *)
LEMMA SoloStep ==
    ASSUME NEW w, Alone(w), [Next]_vars
    PROVE  SoloOK(w)' /\ Improves(db, db') /\ Survive(db, db')
<1>0. ASSUME db' = db PROVE Improves(db, db') /\ Survive(db, db')
  BY <1>0 DEF Improves, Survive
<1>1. CASE UNCHANGED vars
  <2>1. SoloOK(w)
    BY DEF Alone
  <2>2. SoloOK(w)'
    BY <1>1, <2>1 DEF vars, SoloOK, SoloStores, SoloTask, SoloNews, Flying
  <2> QED BY <1>0, <1>1, <2>2 DEF vars
<1>2. CASE Next
  <2>1. AcceptStep(w) \/ FillStep(w) \/ Fail(w)
    BY <1>2 DEF Next, Alone
  <2>2. CASE \/ \E b \in Block, mode \in {"live", "import", "sync"} : Begin(w, b, mode)
             \/ Validate(w) \/ Reject(w)
    <3>1. db' = db
      BY <2>2 DEF Begin, Validate, Reject
    <3> QED BY <1>0, <2>2, <3>1, SoloAcceptReads
  <2>3. CASE CommitBlock(w)
    <3>1. pc[w] = "validated" /\ db' = StoreBlock(db, task[w].blk)
      BY <2>3 DEF CommitBlock
    <3>2. task[w].blk \in Block /\ LinkOK(db, task[w].blk) /\ StoreOK(db)
      BY <3>1, Facts DEF WorkerOK
    <3>3. db'.mat = db.mat /\ Tips(db') = Tips(db)
      BY <3>1, <3>2, StoringKeepsTips
    <3>4. Improves(db, db') /\ Survive(db, db')
      BY <3>3 DEF Improves, Survive
    <3> QED BY <2>3, <3>4, SoloCommitBlock
  <2>4. CASE CommitChain(w)
    BY <2>4, SoloCommitChain
  <2>5. CASE Announce(w)
    <3>1. db' = db
      BY <2>5 DEF Announce
    <3> QED BY <1>0, <2>5, <3>1, SoloAnnounce
  <2>6. CASE \/ \E b \in Block : FillStart(w, b)
             \/ FillWalk(w) \/ FillTooDeep(w) \/ FillBegin(w)
    <3>1. db' = db
      BY <2>6 DEF FillStart, FillWalk, FillTooDeep, FillBegin
    <3> QED BY <1>0, <2>6, <3>1, SoloFillReads
  <2>7. CASE FillApply(w)
    <3>1. db' = db
      BY <2>7 DEF FillApply
    <3> QED BY <1>0, <2>7, <3>1, SoloFillApply
  <2>8. CASE FillReject(w) \/ Fail(w)
    <3>1. db' = db
      BY <2>8 DEF FillReject, Fail
    <3> QED BY <1>0, <2>8, <3>1, SoloRollback
  <2>9. CASE FillCommit(w)
    BY <2>9, SoloFillCommit
  <2>10. CASE FillSignal(w)
    <3>1. db' = db
      BY <2>10 DEF FillSignal
    <3> QED BY <1>0, <2>10, <3>1, SoloFillSignal
  <2> QED BY <2>1, <2>2, <2>3, <2>4, <2>5, <2>6, <2>7, <2>8, <2>9, <2>10
          DEF AcceptStep, FillStep
<1> QED BY <1>1, <1>2

LEMMA SoloInit ==
    ASSUME NEW w, Worker = {w}, Init
    PROVE  SoloOK(w)
<1>1. /\ db = EmptyDatabase /\ tx = EmptyDatabase /\ lost = {}
      /\ pc[w] = "idle" /\ task[w] = Idle /\ fresh[w] = <<>>
      /\ \A b \in Block : news[b] = 0
  BY DEF Init
<1>2. Tips(EmptyDatabase) = {} /\ Stored(EmptyDatabase) = {} /\ EmptyDatabase.mat = <<>>
  BY EmptyOK DEF Tips, EmptyDatabase
<1>3. SoloStores(w)
  <2>1. LongestShown(db) /\ \A b \in Stored(db) \ lost : AtMost(db, b)
    BY <1>1, <1>2 DEF LongestShown
  <2>2. Sound(db, db, lost)
    BY <2>1, SoundAlone
  <2>3. lost \cup Flying(w) = lost
    BY <1>1 DEF Flying
  <2> QED BY <1>1, <2>2, <2>3 DEF SoloStores
<1>4. SoloTask(w)
  BY <1>1 DEF SoloTask
<1>5. SoloNews(w)
  <2>1. Len(<<>>) = 0
    OBVIOUS
  <2>2. Distinct(fresh[w])
    BY <1>1, <2>1 DEF Distinct
  <2> QED BY <1>1, <2>2 DEF SoloNews, Idle
<1> QED BY <1>3, <1>4, <1>5 DEF SoloOK

(* The canonical chain is a chain in the sense of the abstract specification.       *)
LEMMA CanonicalIsChain ==
    ASSUME NEW d, StoreOK(d), d.mat # <<>>
    PROVE  Abstract!IsChain(d.mat)
<1>1. PICK b : b \in Stored(d) /\ d.mat = d.anc[b]
  BY DEF StoreOK, MatOf
<1>2. d \in Database /\ AncestryOf(d, b)
  BY <1>1 DEF StoreOK
<1>3. d.anc[b] \in Seq(Block)
  BY <1>1, <1>2, PathFacts
<1> QED BY <1>1, <1>2, <1>3 DEF Abstract!IsChain, AncestryOf, IsGenesis

(* With one process on the database, the materialization shows the longest chain,    *)
(* nothing better is stored, and no block is signalled twice: inductively.           *)
THEOREM SoloIsInductive ==
    ASSUME NEW w, Worker = {w}
    PROVE  Spec => [](IInv /\ SoloOK(w))
<1>1. Init => IInv /\ SoloOK(w)
  BY InitIInv, SoloInit
<1>2. IInv /\ SoloOK(w) /\ [Next]_vars => (IInv /\ SoloOK(w))'
  BY NextIInv, SoloStep DEF Alone
<1> QED BY <1>1, <1>2, PTL DEF Spec

(* One process: longest_chain_block shows the chain that Node.longest_chain names,   *)
(* after any order of imports, syncs, fills, rollbacks and crashes.                  *)
THEOREM CanonicalShowsLongest ==
    ASSUME NEW w, Worker = {w}
    PROVE  Spec => []CanonicalIsLongest
<1>1. IInv /\ SoloOK(w) => CanonicalIsLongest
  BY DEF SoloOK, SoloStores, Sound, LongestShown, CanonicalIsLongest
<1> QED BY <1>1, SoloIsInductive, PTL

(* One process: fork choice, pruning and the order of a fill never lose the best      *)
(* block, whose second commit did happen.                                           *)
THEOREM BestBlockWins ==
    ASSUME NEW w, Worker = {w}
    PROVE  Spec => []BestBlockIsCanonical
<1>1. IInv /\ SoloOK(w) => BestBlockIsCanonical
  BY DEF SoloOK, SoloStores, Sound, AtMost, Flying, Quiet, BestBlockIsCanonical
<1> QED BY <1>1, SoloIsInductive, PTL

(* One process: new_block is signalled at most once for a block, whichever way and    *)
(* however often the block is offered.                                              *)
THEOREM NewsOnce ==
    ASSUME NEW w, Worker = {w}
    PROVE  Spec => []SignalledOnce
<1>1. IInv /\ SoloOK(w) => SignalledOnce
  BY DEF SoloOK, SoloNews, SignalledOnce
<1> QED BY <1>1, SoloIsInductive, PTL

(* One process: a step that drops a fork tip has extended it, or it was too far       *)
(* behind the longest chain.                                                        *)
THEOREM NoForkIsLost ==
    ASSUME NEW w, Worker = {w}
    PROVE  Spec => ForksSurvive
<1>1. IInv /\ SoloOK(w) /\ [Next]_vars =>
        [\A t \in Tips(db) \ Tips(db)' :
            \/ \E c \in Tips(db)' : t \in Elements(db.anc'[c])
            \/ Idx[t] < Idx[LongestTip(db)'] - PruneDepth]_vars
  <2> SUFFICES ASSUME IInv, SoloOK(w), [Next]_vars PROVE Survive(db, db')
    BY DEF Survive
  <2> QED BY SoloStep DEF Alone
<1> QED BY <1>1, SoloIsInductive, PTL DEF Spec, ForksSurvive

(* One process: the chain store implements the abstract fork choice; whatever is       *)
(* committed, the canonical chain is a linked chain from a genesis that was replaced,  *)
(* in one step, by one whose tip is better, or not at all.                            *)
THEOREM StoreImplementsForkChoice ==
    ASSUME NEW w, Worker = {w}
    PROVE  Spec => ImplementsForkChoice
<1>1. Init => Abstract!Init
  BY DEF Init, Abstract!Init, EmptyDatabase
<1>2. IInv /\ SoloOK(w) /\ [Next]_vars => [Abstract!Adopt]_(db.mat)
  <2> SUFFICES ASSUME IInv, SoloOK(w), [Next]_vars, db'.mat # db.mat
               PROVE  Abstract!Adopt
    OBVIOUS
  <2>1. Improves(db, db') /\ StoreOK(db')
    BY SoloStep, NextIInv DEF Alone, IInv, StoresOK
  <2>2. /\ db'.mat # <<>>
        /\ db.mat # <<>> => Better(Top(db'.mat), Top(db.mat))
    BY <2>1 DEF Improves
  <2>3. Abstract!IsChain(db'.mat)
    BY <2>1, <2>2, CanonicalIsChain
  <2> QED BY <2>2, <2>3 DEF Abstract!Adopt, Abstract!Preferred, Better, Top
<1> QED BY <1>1, <1>2, SoloIsInductive, PTL DEF Spec, ImplementsForkChoice, Abstract!Spec
=============================================================================
