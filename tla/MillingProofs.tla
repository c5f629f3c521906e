---------------------------- MODULE MillingProofs ----------------------------
(***************************************************************************)
(* Proofs about Milling and Target, for any interval and any largest target,  *)
(* any millers, any tree of blocks and any bounds.                           *)
(***************************************************************************)
EXTENDS Milling, Lemmas, SequenceTheorems
-----------------------------------------------------------------------------
(* The strengthening.                                                        *)

(* A stored block, with the chain it ends.                                     *)
Entry == [prev : Nat, idx : Nat, time : Nat, target : Nat, chain : Seq(Nat)]

PathIn(B, b) == IF b = None THEN <<>> ELSE B[b].chain

(* The chain of a block leads from a genesis to it, and every block of it has the   *)
(* chain up to itself.                                                         *)
ChainIn(B, p) ==
    \A i \in 1 .. Len(p) :
        /\ p[i] \in 1 .. Len(B)
        /\ B[p[i]].idx = i - 1
        /\ B[p[i]].prev = IF i = 1 THEN None ELSE p[i - 1]
        /\ \A j \in 1 .. i : B[p[i]].chain[j] = p[j]

ChainOK(B, b) ==
    LET p == B[b].chain
    IN  Len(p) = B[b].idx + 1 /\ p[Len(p)] = b /\ ChainIn(B, p)

(* The target of a block of a chain, or of the next: the chain alone decides.      *)
PathTarget(B, p, index) ==
    IF index = 0 THEN MaxTarget
    ELSE IF index % Interval # 0 THEN B[p[index]].target
    ELSE Retarget(B[p[index]].target, B[p[index]].time - B[p[index - Interval + 1]].time)

TargetOK(B, b) ==
    B[b].target <= MaxTarget /\ B[b].target = PathTarget(B, B[b].chain, B[b].idx)

Tree(B) == B \in Seq(Entry) /\ \A b \in 1 .. Len(B) : ChainOK(B, b) /\ TargetOK(B, b)

TreeOK ==
    /\ Tree(block) /\ tip \in {None} \cup Stored /\ now \in Nat
    /\ \A b \in Stored : block[b].time <= now

(* What a miller holds: the target is that of its chain, and once sealed the time is  *)
(* neither in the future nor before the block it builds on.                        *)
Linked == [op : {"linked"}, prev : Nat, idx : Nat, target : Nat]
Sealed == [op : {"milling", "tired", "solved", "submit"}, prev : Nat, idx : Nat,
           time : Nat, target : Nat, lost : BOOLEAN]

Template(B, m) ==
    /\ m.prev \in {None} \cup 1 .. Len(B) /\ m.idx = Len(PathIn(B, m.prev))
    /\ m.target = PathTarget(B, PathIn(B, m.prev), m.idx)

OnTime(B, t, m) == m.time <= t /\ (m.prev # None => B[m.prev].time <= m.time)

MillerAt(B, t, m) ==
    \/ m = Idle
    \/ m \in Linked /\ Template(B, m)
    \/ m \in Sealed /\ Template(B, m) /\ OnTime(B, t, m)

MillerOK == miller = [w \in Miller |-> miller[w]] /\ \A w \in Miller : MillerAt(block, now, miller[w])

(* The archive.  What an export remembers are stored blocks.                        *)
Export == [op : {"none", "check", "start", "written", "next", "done"},
           tip : Nat, seen : Nat, left : SUBSET Nat, from : Nat, started : Nat]

FileAt(B, f, x, bar) ==
    /\ f \in Seq(Nat) /\ x \in Export /\ x.from <= Len(f) /\ bar \subseteq 1 .. Len(f)
    /\ \A i \in 1 .. Len(f) : f[i] \in 1 .. Len(B)
    /\ {x.tip, x.seen} \subseteq {None} \cup 1 .. Len(B) /\ x.left \subseteq 1 .. Len(B)
    /\ x.op # "none" => x.tip # None

(* No line holds three blocks, and while an export runs the last one holds one.         *)
Running(x) == x.op \notin {"none", "done"}

LinesAt(f, x, bar) ==
    /\ \A i \in 1 .. Len(f) - 2 : ~({i, i + 1} \subseteq bar)
    /\ Running(x) => ~({Len(f) - 1, Len(f)} \subseteq bar)

(* The file is one chain.  An export goes on from a block of its own chain; the child    *)
(* of that block in this chain is among those left to try.                           *)
OneChain(B, f, x) ==
    LET own == ToSet(PathIn(B, x.tip))
    IN  /\ \A i \in 1 .. Len(f) : B[f[i]].prev = IF i = 1 THEN None ELSE f[i - 1]
        /\ x.op = "start" /\ f # <<>> => Last(f) \in own
        /\ x.op \in {"written", "next"} => f # <<>> /\ Last(f) \in own
        /\ x.op = "next" => /\ \A c \in x.left : B[c].prev = Last(f)
                            /\ \A c \in own : B[c].prev = Last(f) => c \in x.left
        /\ x.op = "done" => f # <<>> /\ Last(f) = x.tip

ArchiveAt(B, f, x, bar, s) == FileAt(B, f, x, bar) /\ LinesAt(f, x, bar) /\ (s \/ OneChain(B, f, x))

(* The tree grows.                                                             *)
Grows(B, C) == Len(B) <= Len(C) /\ \A b \in 1 .. Len(B) : C[b] = B[b]

IInv == TreeOK /\ MillerOK /\ ArchiveAt(block, file, export, bare, split)

-----------------------------------------------------------------------------
(* Numbers.                                                                  *)

LEMMA MinOfTwo ==
    ASSUME NEW a \in Int, NEW b \in Int
    PROVE  Min({a, b}) = IF a <= b THEN a ELSE b
BY DEF Min

LEMMA MaxOfTwo ==
    ASSUME NEW a \in Int, NEW b \in Int
    PROVE  Max({a, b}) = IF a >= b THEN a ELSE b
BY DEF Max

(* Products keep the order.                                                   *)
LEMMA TimesKeepsOrder ==
    ASSUME NEW a \in Nat, NEW b \in Nat, NEW c \in Nat, a <= b
    PROVE  a * c <= b * c /\ c * a <= c * b /\ a * c \in Nat
OBVIOUS

LEMMA Quotient ==
    ASSUME NEW a \in Nat, NEW d \in Nat \ {0}
    PROVE  /\ a \div d \in Nat
           /\ d * (a \div d) <= a /\ a < d * (a \div d) + d
OBVIOUS

(* A product that is less has a lesser factor.                                  *)
LEMMA LesserFactor ==
    ASSUME NEW a \in Nat, NEW b \in Nat, NEW c \in Nat \ {0}, c * a < c * b
    PROVE  a < b
<1> SUFFICES ASSUME b <= a PROVE FALSE
  OBVIOUS
<1>1. c * b <= c * a
  BY TimesKeepsOrder
<1>2. c * a \in Nat /\ c * b \in Nat
  OBVIOUS
<1> QED BY <1>1, <1>2

(* What the retargeting does to a target.                                       *)
Retargeted(target, seconds, r) ==
    /\ r \in Nat /\ r <= MaxTarget
    /\ seconds <= IntervalSeconds => r <= target
    /\ seconds >= IntervalSeconds => r >= target
    /\ r <= 4 * target /\ 4 * r > target - 4

LEMMA RetargetBounds ==
    ASSUME NEW target \in Nat, target <= MaxTarget, NEW seconds \in Int,
           NEW r, r = Retarget(target, seconds)
    PROVE  Retargeted(target, seconds, r)
<1> DEFINE n == IntervalSeconds
           fourths == Min({Max({4 * seconds, n}), 16 * n})
           scaled == (target * fourths) \div (4 * n)
<1>1. n \in Nat \ {0} /\ MaxTarget \in Nat /\ n <= 16 * n
  BY TargetAssumption
<1> HIDE DEF n
<1>2. /\ fourths \in Nat /\ n <= fourths /\ fourths <= 16 * n
      /\ seconds <= n => fourths <= 4 * n
      /\ seconds >= n => fourths >= 4 * n
  <2>1. PICK m \in Int : /\ m = Max({4 * seconds, n})
                         /\ m = IF 4 * seconds >= n THEN 4 * seconds ELSE n
    <3>1. 4 * seconds \in Int /\ n \in Int
      BY <1>1
    <3> QED BY <3>1, MaxOfTwo
  <2>2. fourths = IF m <= 16 * n THEN m ELSE 16 * n
    <3>1. 16 * n \in Int
      BY <1>1
    <3> QED BY <2>1, <3>1, MinOfTwo
  <2> HIDE DEF fourths
  <2> QED BY <1>1, <2>1, <2>2
<1> HIDE DEF fourths
<1>3. target * fourths \in Nat /\ 4 * n \in Nat \ {0}
  BY <1>1, <1>2
<1>4. PICK q \in Nat : /\ q = scaled /\ (4 * n) * q <= target * fourths
                       /\ target * fourths < (4 * n) * q + 4 * n
  BY <1>3, Quotient
<1>5. r = IF q <= MaxTarget THEN q ELSE MaxTarget
  <2>1. r = Min({scaled, MaxTarget})
    BY DEF Retarget, fourths, n
  <2> QED BY <1>1, <1>4, <2>1, MinOfTwo
<1> HIDE DEF scaled
<1>6. (4 * n) * q < (4 * n) * (4 * target + 1)
  <2>1. target * fourths <= target * (16 * n)
    <3>1. 16 * n \in Nat
      BY <1>1
    <3> QED BY <1>2, <3>1, TimesKeepsOrder
  <2>2. target * (16 * n) = (4 * n) * (4 * target)
    BY <1>1
  <2>3. (4 * n) * (4 * target + 1) = (4 * n) * (4 * target) + 4 * n
    BY <1>1
  <2>4. (4 * n) * (4 * target) \in Nat /\ (4 * n) * q \in Nat
    BY <1>1
  <2> QED BY <1>1, <1>3, <1>4, <2>1, <2>2, <2>3, <2>4
<1>7. q <= 4 * target
  <2>1. q < 4 * target + 1
    BY <1>3, <1>6, LesserFactor
  <2> QED BY <2>1
<1>8. ASSUME seconds <= n PROVE q <= target
  <2>1. target * fourths <= target * (4 * n)
    BY <1>2, <1>3, <1>8, TimesKeepsOrder
  <2>2. target * (4 * n) = (4 * n) * target /\ (4 * n) * (target + 1) = (4 * n) * target + 4 * n
    BY <1>1
  <2>3. (4 * n) * target \in Nat /\ (4 * n) * q \in Nat
    BY <1>1
  <2>4. (4 * n) * q < (4 * n) * (target + 1)
    BY <1>1, <1>3, <1>4, <2>1, <2>2, <2>3
  <2>5. q < target + 1
    BY <1>3, <2>4, LesserFactor
  <2> QED BY <2>5
<1>9. ASSUME seconds >= n PROVE target <= q
  <2>1. target * (4 * n) <= target * fourths
    BY <1>2, <1>3, <1>9, TimesKeepsOrder
  <2>2. target * (4 * n) = (4 * n) * target /\ (4 * n) * (q + 1) = (4 * n) * q + 4 * n
    BY <1>1
  <2>3. (4 * n) * target \in Nat /\ (4 * n) * q \in Nat
    BY <1>1
  <2>4. (4 * n) * target < (4 * n) * (q + 1)
    BY <1>1, <1>3, <1>4, <2>1, <2>2, <2>3
  <2>5. target < q + 1
    BY <1>3, <2>4, LesserFactor
  <2> QED BY <2>5
<1>10. target < 4 * q + 4
  <2>1. target * n <= target * fourths
    BY <1>1, <1>2, TimesKeepsOrder
  <2>2. target * n = n * target /\ (4 * n) * q + 4 * n = n * (4 * q + 4)
    BY <1>1
  <2>3. n * target \in Nat /\ n * (4 * q + 4) \in Nat
    BY <1>1
  <2>4. n * target < n * (4 * q + 4)
    BY <1>3, <1>4, <2>1, <2>2, <2>3
  <2> QED BY <1>1, <2>4, LesserFactor
<1> QED BY <1>1, <1>4, <1>5, <1>7, <1>8, <1>9, <1>10 DEF n, Retargeted

-----------------------------------------------------------------------------
(* Chains.                                                                   *)

LEMMA ChainFacts ==
    ASSUME NEW B, Tree(B), NEW b \in 1 .. Len(B), NEW p, p = B[b].chain
    PROVE  /\ B[b] \in Entry /\ p \in Seq(Nat) /\ Len(p) \in Nat \ {0}
           /\ DOMAIN p = 1 .. Len(p)
           /\ Len(p) = B[b].idx + 1 /\ p[Len(p)] = b
           /\ \A i \in 1 .. Len(p) :
                 /\ p[i] \in 1 .. Len(B) /\ B[p[i]].idx = i - 1
                 /\ B[p[i]].prev = IF i = 1 THEN None ELSE p[i - 1]
           /\ \A i \in 1 .. Len(p) : \A j \in 1 .. i : B[p[i]].chain[j] = p[j]
<1>1. B[b] \in Entry
  BY DEF Tree
<1>2. ChainOK(B, b)
  BY DEF Tree
<1>3. p \in Seq(Nat) /\ B[b].idx \in Nat
  BY <1>1 DEF Entry
<1> QED BY <1>1, <1>2, <1>3 DEF ChainOK, ChainIn

LEMMA PathFacts ==
    ASSUME Tree(block), NEW b \in {None} \cup Stored
    PROVE  /\ Path(b) \in Seq(Nat) /\ Len(Path(b)) \in Nat /\ DOMAIN Path(b) = 1 .. Len(Path(b))
           /\ Idx(b) \in Int /\ Len(Path(b)) = Idx(b) + 1
           /\ \A i \in 1 .. Len(Path(b)) : Path(b)[i] \in Stored /\ block[Path(b)[i]].idx = i - 1
           /\ \A i, j \in 1 .. Len(Path(b)) : Path(b)[i] = Path(b)[j] => i = j
<1> DEFINE p == Path(b)
<1>1. /\ p \in Seq(Nat) /\ Len(p) \in Nat /\ DOMAIN p = 1 .. Len(p)
      /\ Idx(b) \in Int /\ Len(p) = Idx(b) + 1
      /\ \A i \in 1 .. Len(p) : p[i] \in Stored /\ block[p[i]].idx = i - 1
  <2>1. CASE b = None
    <3>1. p = <<>> /\ Idx(b) = -1
      BY <2>1 DEF Path, Idx
    <3>2. <<>> \in Seq(Nat) /\ Len(<<>>) = 0 /\ DOMAIN <<>> = 1 .. 0
      OBVIOUS
    <3> HIDE DEF p
    <3> QED BY <3>1, <3>2
  <2>2. CASE b \in Stored
    <3>1. b # None /\ b \in 1 .. Len(block)
      BY <2>2 DEF Stored, None
    <3>2. p = block[b].chain /\ Idx(b) = block[b].idx
      BY <3>1 DEF Path, Idx
    <3>3. block[b].idx \in Nat
      BY <3>1, ChainFacts DEF Entry
    <3> HIDE DEF p
    <3>4. p \in Seq(Nat) /\ Len(p) \in Nat \ {0} /\ DOMAIN p = 1 .. Len(p)
      BY <3>1, <3>2, ChainFacts
    <3>5. /\ Len(p) = block[b].idx + 1
          /\ \A i \in 1 .. Len(p) : p[i] \in 1 .. Len(block) /\ block[p[i]].idx = i - 1
      <4>1. ChainOK(block, b)
        BY <3>1 DEF Tree
      <4> QED BY <3>2, <4>1 DEF ChainOK, ChainIn
    <3> QED BY <3>2, <3>3, <3>4, <3>5 DEF Stored
  <2> QED BY <2>1, <2>2
<1>2. \A i, j \in 1 .. Len(p) : p[i] = p[j] => i = j
  <2> SUFFICES ASSUME NEW i \in 1 .. Len(p), NEW j \in 1 .. Len(p), p[i] = p[j] PROVE i = j
    OBVIOUS
  <2>1. i - 1 = j - 1
    BY <1>1
  <2> QED BY <1>1, <2>1
<1> QED BY <1>1, <1>2

LEMMA PathSet ==
    ASSUME Tree(block), NEW b \in {None} \cup Stored, NEW p, p = Path(b)
    PROVE  ToSet(p) = {p[i] : i \in 1 .. Len(p)}
<1>1. DOMAIN p = 1 .. Len(p)
  BY PathFacts
<1> QED BY <1>1 DEF ToSet

(* Two chains that share a block are the same up to it.                           *)
LEMMA ChainsPart ==
    ASSUME Tree(block), NEW a \in {None} \cup Stored, NEW b \in {None} \cup Stored,
           NEW i \in 1 .. Len(Path(a)), Path(a)[i] \in ToSet(Path(b)), NEW j \in 1 .. i
    PROVE  j \in 1 .. Len(Path(b)) /\ Path(a)[j] = Path(b)[j]
<1>1. PICK p, q : p = Path(a) /\ q = Path(b)
  OBVIOUS
<1>2. i \in 1 .. Len(p) /\ p[i] \in ToSet(q)
  BY <1>1
<1>3. /\ Len(p) \in Nat /\ \A m \in 1 .. Len(p) : block[p[m]].idx = m - 1
  BY <1>1, PathFacts
<1>4. Len(q) \in Nat /\ \A m \in 1 .. Len(q) : block[q[m]].idx = m - 1
  BY <1>1, PathFacts
<1>5. PICK l \in 1 .. Len(q) : p[i] = q[l]
  <2>1. ToSet(q) = {q[m] : m \in 1 .. Len(q)}
    BY <1>1, PathSet
  <2> QED BY <1>2, <2>1
<1>6. i = l /\ j \in 1 .. Len(q)
  <2>1. i - 1 = l - 1
    BY <1>2, <1>3, <1>4, <1>5
  <2> QED BY <1>2, <1>3, <1>4, <2>1
<1>7. a \in 1 .. Len(block) /\ b \in 1 .. Len(block) /\ p = block[a].chain /\ q = block[b].chain
  <2>1. Len(<<>>) = 0
    OBVIOUS
  <2>2. a # None /\ b # None
    BY <1>1, <1>5, <2>1 DEF Path
  <2> QED BY <1>1, <2>2 DEF Path, Stored
<1>8. block[p[i]].chain[j] = p[j]
  <2>1. ChainOK(block, a)
    BY <1>7 DEF Tree
  <2> QED BY <1>2, <1>7, <2>1 DEF ChainOK, ChainIn
<1>9. block[q[l]].chain[j] = q[j]
  <2>1. ChainOK(block, b)
    BY <1>7 DEF Tree
  <2> QED BY <1>6, <1>7, <2>1 DEF ChainOK, ChainIn
<1> QED BY <1>1, <1>5, <1>6, <1>8, <1>9

(* What two chains share is the first k blocks of each.                            *)
LEMMA CommonPart ==
    ASSUME Tree(block), NEW a \in {None} \cup Stored, NEW b \in {None} \cup Stored
    PROVE  \E k \in 0 .. Len(Path(a)) :
              /\ k <= Len(Path(b)) /\ Cap(a, b) = k - 1
              /\ \A i \in 1 .. k : Path(a)[i] = Path(b)[i] /\ Path(a)[i] \in ToSet(Path(b))
              /\ \A i \in k + 1 .. Len(Path(a)) : Path(a)[i] \notin ToSet(Path(b))
<1>0. PICK p, q : p = Path(a) /\ q = Path(b)
  OBVIOUS
<1> DEFINE K == {k \in 0 .. Len(p) : k > 0 => p[k] \in ToSet(q)}
<1>1. Len(p) \in Nat /\ Len(q) \in Nat
  BY <1>0, PathFacts
<1>2. PICK k \in K : \A j \in K : j <= k
  <2>1. K \subseteq 0 .. Len(p) /\ 0 \in K
    BY <1>1
  <2> HIDE DEF K
  <2> QED BY <1>1, <2>1, GreatestExists
<1>3. k \in 0 .. Len(p) /\ (k > 0 => p[k] \in ToSet(q))
  OBVIOUS
<1>4. \A i \in k + 1 .. Len(p) : p[i] \notin ToSet(q)
  <2> SUFFICES ASSUME NEW i \in k + 1 .. Len(p), p[i] \in ToSet(q) PROVE FALSE
    OBVIOUS
  <2>1. i \in K
    BY <1>1, <1>3
  <2> HIDE DEF K
  <2> QED BY <1>1, <1>2, <1>3, <2>1
<1> HIDE DEF K
<1>5. \A i \in 1 .. k : i \in 1 .. Len(q) /\ p[i] = q[i] /\ p[i] \in ToSet(q)
  <2> SUFFICES ASSUME NEW i \in 1 .. k PROVE i \in 1 .. Len(q) /\ p[i] = q[i] /\ p[i] \in ToSet(q)
    OBVIOUS
  <2>1. k \in 1 .. Len(p) /\ p[k] \in ToSet(q)
    BY <1>1, <1>3
  <2>2. i \in 1 .. Len(q) /\ p[i] = q[i]
    BY <1>0, <2>1, ChainsPart
  <2>3. ToSet(q) = {q[j] : j \in 1 .. Len(q)}
    BY <1>0, PathSet
  <2> QED BY <2>2, <2>3
<1>6. k <= Len(q)
  <2>1. CASE k = 0
    BY <1>1, <2>1
  <2>2. CASE k # 0
    <3>1. k \in 1 .. k
      BY <1>1, <1>3, <2>2
    <3> QED BY <1>1, <1>5, <3>1
  <2> QED BY <2>1, <2>2
<1>7. Cardinality(ToSet(p) \cap ToSet(q)) = k
  <2> DEFINE S == ToSet(p) \cap ToSet(q)
             f == [i \in 1 .. k |-> p[i]]
  <2>1. ToSet(p) = {p[j] : j \in 1 .. Len(p)}
    BY <1>0, PathSet
  <2>2. \A i \in 1 .. k : i \in 1 .. Len(p)
    BY <1>1, <1>3
  <2>3. \A x \in S : \E i \in 1 .. k : f[i] = x
    <3> SUFFICES ASSUME NEW x \in S PROVE \E i \in 1 .. k : p[i] = x
      OBVIOUS
    <3>1. PICK i \in 1 .. Len(p) : x = p[i]
      BY <2>1
    <3>2. i \notin k + 1 .. Len(p)
      BY <1>4, <3>1
    <3>3. i \in 1 .. k
      BY <1>1, <1>3, <3>2
    <3> QED BY <3>1, <3>3
  <2>4. f \in [1 .. k -> S]
    BY <1>5, <2>1, <2>2
  <2>5. \A i, j \in 1 .. k : f[i] = f[j] => i = j
    <3>1. \A i, j \in 1 .. Len(p) : p[i] = p[j] => i = j
      BY <1>0, PathFacts
    <3> QED BY <2>2, <3>1
  <2>6. ExistsBijection(1 .. k, S)
    <3> HIDE DEF f, S
    <3>1. f \in Bijection(1 .. k, S)
      BY <2>3, <2>4, <2>5 DEF Bijection, Injection, Surjection, IsInjective
    <3> QED BY <3>1 DEF ExistsBijection
  <2>7. IsFiniteSet(1 .. k) /\ Cardinality(1 .. k) = k
    BY <1>1, <1>3, FS_Interval
  <2> QED BY <2>6, <2>7, FS_Bijection
<1> QED BY <1>0, <1>3, <1>4, <1>5, <1>6, <1>7 DEF Cap

(* Whichever tip is canonical, the lookup finds the block of the chain.              *)
LEMMA GetBlockIs ==
    ASSUME Tree(block), NEW a \in {None} \cup Stored, NEW c \in {None} \cup Stored,
           NEW index \in Int
    PROVE  GetBlock(a, c, index)
             = IF index \in 0 .. Idx(a) THEN {Path(a)[index + 1]} ELSE {}
<1>0. PICK p, q : p = Path(a) /\ q = Path(c)
  OBVIOUS
<1>1. PICK k \in 0 .. Len(p) :
         /\ k <= Len(q) /\ Cap(a, c) = k - 1
         /\ \A i \in 1 .. k : p[i] = q[i] /\ p[i] \in ToSet(q)
         /\ \A i \in k + 1 .. Len(p) : p[i] \notin ToSet(q)
  BY <1>0, CommonPart
<1>2. /\ Len(p) \in Nat /\ Len(q) \in Nat /\ Idx(a) \in Int /\ Len(p) = Idx(a) + 1
      /\ ToSet(p) = {p[i] : i \in 1 .. Len(p)} /\ ToSet(q) = {q[i] : i \in 1 .. Len(q)}
      /\ \A i \in 1 .. Len(p) : block[p[i]].idx = i - 1
      /\ \A i \in 1 .. Len(q) : block[q[i]].idx = i - 1
  <2>1. /\ Len(p) \in Nat /\ Idx(a) \in Int /\ Len(p) = Idx(a) + 1
        /\ \A i \in 1 .. Len(p) : block[p[i]].idx = i - 1
    BY <1>0, PathFacts
  <2>2. Len(q) \in Nat /\ \A i \in 1 .. Len(q) : block[q[i]].idx = i - 1
    BY <1>0, PathFacts
  <2>3. ToSet(p) = {p[i] : i \in 1 .. Len(p)}
    BY <1>0, PathSet
  <2>4. ToSet(q) = {q[i] : i \in 1 .. Len(q)}
    BY <1>0, PathSet
  <2> QED BY <2>1, <2>2, <2>3, <2>4
<1> DEFINE G == GetBlock(a, c, index)
<1>3. \A x : x \in G <=> \/ x \in ToSet(p) /\ x \notin ToSet(q) /\ block[x].idx = index
                         \/ x \in ToSet(q) /\ block[x].idx = index /\ index <= k - 1
  BY <1>0, <1>1 DEF GetBlock, Divergent
<1> HIDE DEF G
<1>4. ASSUME NEW x \in G PROVE index \in 0 .. Idx(a) /\ x = p[index + 1]
  <2>1. CASE x \in ToSet(p) /\ block[x].idx = index
    <3>1. PICK i \in 1 .. Len(p) : x = p[i] /\ index = i - 1
      BY <1>2, <2>1
    <3>2. i = index + 1
      BY <3>1
    <3> QED BY <1>2, <3>1, <3>2
  <2>2. CASE x \in ToSet(q) /\ block[x].idx = index /\ index <= k - 1
    <3>1. PICK i \in 1 .. Len(q) : x = q[i] /\ index = i - 1
      BY <1>2, <2>2
    <3>2. i = index + 1 /\ i \in 1 .. k
      BY <1>1, <1>2, <2>2, <3>1
    <3> QED BY <1>1, <1>2, <3>1, <3>2
  <2> QED BY <1>3, <1>4, <2>1, <2>2
<1>5. ASSUME index \in 0 .. Idx(a) PROVE p[index + 1] \in G
  <2>1. index + 1 \in 1 .. Len(p) /\ (index + 1) - 1 = index
    BY <1>2, <1>5
  <2>2. p[index + 1] \in ToSet(p) /\ block[p[index + 1]].idx = index
    BY <1>2, <2>1
  <2>3. index + 1 \in 1 .. k \/ index + 1 \in k + 1 .. Len(p)
    BY <1>1, <1>2, <2>1
  <2>4. index + 1 \in 1 .. k => index <= k - 1
    BY <1>1
  <2> QED BY <1>1, <1>3, <2>2, <2>3, <2>4
<1>6. GetBlock(a, c, index) = IF index \in 0 .. Idx(a) THEN {p[index + 1]} ELSE {}
  BY <1>4, <1>5 DEF G
<1> QED BY <1>0, <1>6

-----------------------------------------------------------------------------
(* Targets.                                                                  *)

LEMMA ByReverseIndexIs ==
    ASSUME Tree(block), NEW a \in {None} \cup Stored, NEW c \in {None} \cup Stored,
           NEW row, NEW n \in Int
    PROVE  ByReverseIndex(a, c, row, n)
             = IF Idx(a) - n \in 0 .. Idx(a) THEN {Path(a)[Idx(a) - n + 1]} ELSE {}
<1>1. PICK p, x : p = Path(a) /\ x = Idx(a)
  OBVIOUS
<1>2. /\ Len(p) \in Nat /\ x \in Int /\ Len(p) = x + 1
      /\ \A i \in 1 .. Len(p) : block[p[i]].idx = i - 1
  BY <1>1, PathFacts
<1>3. ToSet(p) = {p[i] : i \in 1 .. Len(p)}
  BY <1>1, PathSet
<1>4. CASE row
  <2>1. x - n \in Int
    BY <1>2
  <2> QED BY <1>1, <1>4, <2>1, GetBlockIs DEF ByReverseIndex
<1>5. CASE ~row
  <2> DEFINE S == {b \in ToSet(p) : x - block[b].idx = n}
  <2>1. ASSUME NEW b \in S PROVE x - n \in 0 .. x /\ b = p[x - n + 1]
    <3>1. PICK i \in 1 .. Len(p) : b = p[i]
      BY <1>3
    <3>2. x - (i - 1) = n
      BY <1>2, <3>1
    <3>3. i = x - n + 1
      BY <1>2, <3>2
    <3> QED BY <1>2, <3>1, <3>3
  <2>2. ASSUME x - n \in 0 .. x PROVE p[x - n + 1] \in S
    <3>1. x - n + 1 \in 1 .. Len(p) /\ x - ((x - n + 1) - 1) = n
      BY <1>2, <2>2
    <3> QED BY <1>2, <1>3, <3>1
  <2>3. S = IF x - n \in 0 .. x THEN {p[x - n + 1]} ELSE {}
    BY <2>1, <2>2
  <2>4. ByReverseIndex(a, c, row, n) = S
    BY <1>1, <1>5 DEF ByReverseIndex
  <2> QED BY <1>1, <2>3, <2>4
<1> QED BY <1>4, <1>5

LEMMA FirstMultiple ==
    ASSUME NEW i \in Nat \ {0}, NEW v \in Nat \ {0}, i % v = 0
    PROVE  v <= i
OBVIOUS

(* The target does not depend on who asks: neither on the canonical chain nor on rows. *)
LEMMA BlockTargetIs ==
    ASSUME Tree(block), NEW a \in {None} \cup Stored, NEW c \in {None} \cup Stored,
           NEW row, NEW index \in Nat, index <= Idx(a) + 1
    PROVE  BlockTarget(a, c, row, index) = PathTarget(block, Path(a), index)
<1>1. PICK p, x : p = Path(a) /\ x = Idx(a)
  OBVIOUS
<1>2. Len(p) \in Nat /\ x \in Int /\ Len(p) = x + 1 /\ Interval \in Nat \ {0}
  BY <1>1, PathFacts, TargetAssumption
<1> DEFINE i == x - index
           At(n) == ByReverseIndex(a, c, row, n)
<1>3. CASE index = 0
  BY <1>3 DEF BlockTarget, PathTarget
<1>4. CASE index # 0
  <2>1. At(i + 1) = {p[index]}
    <3>1. i + 1 \in Int /\ x - (i + 1) = index - 1 /\ index - 1 \in 0 .. x
          /\ x - (i + 1) + 1 = index
      BY <1>1, <1>2, <1>4
    <3> QED BY <1>1, <3>1, ByReverseIndexIs
  <2>2. ASSUME index % Interval = 0 PROVE At(i + Interval) = {p[index - Interval + 1]}
    <3>1. Interval <= index
      BY <1>2, <1>4, <2>2, FirstMultiple
    <3>2. /\ i + Interval \in Int /\ x - (i + Interval) = index - Interval
          /\ index - Interval \in 0 .. x /\ x - (i + Interval) + 1 = index - Interval + 1
      BY <1>1, <1>2, <1>4, <3>1
    <3> QED BY <1>1, <3>2, ByReverseIndexIs
  <2>3. BlockTarget(a, c, row, index)
          = IF At(i + 1) = {} THEN MaxTarget
            ELSE LET prev == block[CHOOSE b \in At(i + 1) : TRUE]
                 IN  IF index % Interval # 0 \/ At(i + Interval) = {} THEN prev.target
                     ELSE Retarget(prev.target,
                                   prev.time - block[CHOOSE b \in At(i + Interval) : TRUE].time)
    BY <1>1, <1>4 DEF BlockTarget
  <2> HIDE DEF At, i
  <2>4. \A z : (CHOOSE b \in {z} : TRUE) = z
    OBVIOUS
  <2> QED BY <1>1, <1>4, <2>1, <2>2, <2>3, <2>4 DEF PathTarget
<1> QED BY <1>3, <1>4

(* No target is easier than the easiest.                                          *)
LEMMA PathTargetBound ==
    ASSUME NEW B, Tree(B), NEW p, NEW index \in 0 .. Len(p), Len(p) \in Nat,
           \A i \in 1 .. Len(p) : p[i] \in 1 .. Len(B)
    PROVE  PathTarget(B, p, index) \in Nat /\ PathTarget(B, p, index) <= MaxTarget
<1>1. \A b \in 1 .. Len(B) : /\ B[b].target \in Nat /\ B[b].target <= MaxTarget
                             /\ B[b].time \in Nat
  <2>1. \A b \in 1 .. Len(B) : B[b] \in Entry
    BY DEF Tree
  <2> QED BY <2>1 DEF Tree, TargetOK, Entry
<1>2. MaxTarget \in Nat /\ Interval \in Nat \ {0}
  BY TargetAssumption
<1>3. CASE index = 0
  BY <1>2, <1>3 DEF PathTarget
<1>4. CASE index # 0 /\ index % Interval # 0
  <2>1. index \in 1 .. Len(p)
    BY <1>4
  <2> QED BY <1>1, <1>4, <2>1 DEF PathTarget
<1>5. CASE index # 0 /\ index % Interval = 0
  <2>1. Interval <= index
    <3>1. index \in Nat \ {0}
      BY <1>5
    <3> QED BY <1>2, <1>5, <3>1, FirstMultiple
  <2>2. index \in 1 .. Len(p) /\ index - Interval + 1 \in 1 .. Len(p)
    BY <1>2, <1>5, <2>1
  <2>3. PICK t, s : /\ t = B[p[index]].target
                    /\ s = B[p[index]].time - B[p[index - Interval + 1]].time
    OBVIOUS
  <2>4. t \in Nat /\ t <= MaxTarget /\ s \in Int
    BY <1>1, <2>2, <2>3
  <2>5. PathTarget(B, p, index) = Retarget(t, s)
    BY <1>5, <2>3 DEF PathTarget
  <2>6. PICK r : r = Retarget(t, s)
    OBVIOUS
  <2>7. Retargeted(t, s, r)
    BY <2>4, <2>6, RetargetBounds
  <2> QED BY <2>5, <2>6, <2>7 DEF Retargeted
<1> QED BY <1>3, <1>4, <1>5

(* The targets of a chain depend on its blocks, and on those up to the index.          *)
SameUpTo(B, p, C, q, index) == \A i \in 1 .. index : q[i] = p[i] /\ C[q[i]] = B[p[i]]

LEMMA PathTargetSame ==
    ASSUME NEW B, NEW C, NEW p, NEW q, NEW index \in Nat, SameUpTo(B, p, C, q, index)
    PROVE  PathTarget(C, q, index) = PathTarget(B, p, index)
<1> USE DEF SameUpTo
<1>1. Interval \in Nat \ {0}
  BY TargetAssumption
<1>2. CASE index = 0
  BY <1>2 DEF PathTarget
<1>3. CASE index # 0
  <2>1. index \in 1 .. index
    BY <1>3
  <2>2. index % Interval = 0 => index - Interval + 1 \in 1 .. index
    <3>1. index % Interval = 0 => Interval <= index
      BY <1>1, <1>3, FirstMultiple
    <3> QED BY <1>1, <1>3, <3>1
  <2> QED BY <1>3, <2>1, <2>2 DEF PathTarget
<1> QED BY <1>2, <1>3

-----------------------------------------------------------------------------
(* The tree grows.                                                             *)

LEMMA ChainGrows ==
    ASSUME NEW B, NEW C, NEW p, Grows(B, C), Len(B) \in Nat, Len(C) \in Nat, ChainIn(B, p)
    PROVE  ChainIn(C, p)
BY DEF ChainIn, Grows

LEMMA Appended ==
    ASSUME NEW p \in Seq(Nat), NEW n \in Nat, NEW q, q = Append(p, n)
    PROVE  /\ q \in Seq(Nat) /\ Len(p) \in Nat /\ Len(q) = Len(p) + 1
           /\ q[Len(q)] = n /\ q[Len(p) + 1] = n
           /\ \A i \in 1 .. Len(p) : q[i] = p[i]
OBVIOUS

LEMMA ChainExtends ==
    ASSUME NEW C, NEW n \in 1 .. Len(C), NEW p \in Seq(Nat), n \in Nat, ChainIn(C, p),
           C[n].idx = Len(p), C[n].prev = (IF Len(p) = 0 THEN None ELSE p[Len(p)]),
           NEW q, q = Append(p, n), C[n].chain = q
    PROVE  ChainIn(C, q)
<1>1. /\ Len(p) \in Nat /\ Len(q) = Len(p) + 1 /\ q[Len(p) + 1] = n
      /\ \A i \in 1 .. Len(p) : q[i] = p[i]
  BY Appended
<1>2. SUFFICES ASSUME NEW i \in 1 .. Len(q)
               PROVE  /\ q[i] \in 1 .. Len(C) /\ C[q[i]].idx = i - 1
                      /\ C[q[i]].prev = IF i = 1 THEN None ELSE q[i - 1]
                      /\ \A j \in 1 .. i : C[q[i]].chain[j] = q[j]
  BY DEF ChainIn
<1>3. CASE i = Len(p) + 1
  <2>1. q[i] = n /\ C[q[i]].idx = i - 1 /\ C[q[i]].chain = q
    BY <1>1, <1>3
  <2>2. C[q[i]].prev = IF i = 1 THEN None ELSE q[i - 1]
    <3>1. CASE Len(p) = 0
      BY <1>3, <2>1, <3>1
    <3>2. CASE Len(p) # 0
      <4>1. i # 1 /\ i - 1 = Len(p) /\ Len(p) \in 1 .. Len(p)
        BY <1>1, <1>3, <3>2
      <4>2. q[i - 1] = p[Len(p)]
        BY <1>1, <4>1
      <4> QED BY <2>1, <3>2, <4>1, <4>2
    <3> QED BY <3>1, <3>2
  <2> QED BY <2>1, <2>2
<1>4. CASE i \in 1 .. Len(p)
  <2>1. q[i] = p[i]
    BY <1>1, <1>4
  <2>2. /\ p[i] \in 1 .. Len(C) /\ C[p[i]].idx = i - 1
        /\ C[p[i]].prev = IF i = 1 THEN None ELSE p[i - 1]
        /\ \A j \in 1 .. i : C[p[i]].chain[j] = p[j]
    BY <1>4 DEF ChainIn
  <2>3. i # 1 => q[i - 1] = p[i - 1]
    <3>1. i # 1 => i - 1 \in 1 .. Len(p)
      BY <1>1, <1>4
    <3> QED BY <1>1, <3>1
  <2>4. \A j \in 1 .. i : q[j] = p[j]
    <3>1. \A j \in 1 .. i : j \in 1 .. Len(p)
      BY <1>1, <1>4
    <3> QED BY <1>1, <3>1
  <2>5. C[q[i]].prev = IF i = 1 THEN None ELSE q[i - 1]
    BY <2>1, <2>2, <2>3
  <2>6. \A j \in 1 .. i : C[q[i]].chain[j] = q[j]
    BY <2>1, <2>2, <2>4
  <2> QED BY <2>1, <2>2, <2>5, <2>6
<1> QED BY <1>1, <1>3, <1>4

(* The chain to a block that is stored, or to none.                                 *)
LEMMA PathInFacts ==
    ASSUME NEW B, Tree(B), NEW b \in {None} \cup 1 .. Len(B), NEW p, p = PathIn(B, b)
    PROVE  /\ p \in Seq(Nat) /\ Len(p) \in Nat /\ ChainIn(B, p)
           /\ b = IF Len(p) = 0 THEN None ELSE p[Len(p)]
<1>1. CASE b = None
  <2>1. p = <<>>
    BY <1>1 DEF PathIn
  <2>2. <<>> \in Seq(Nat) /\ Len(<<>>) = 0
    OBVIOUS
  <2>3. ChainIn(B, <<>>)
    BY <2>2 DEF ChainIn
  <2> QED BY <1>1, <2>1, <2>2, <2>3
<1>2. CASE b # None
  <2>1. b \in 1 .. Len(B) /\ p = B[b].chain
    BY <1>2 DEF PathIn
  <2>2. ChainOK(B, b)
    BY <2>1 DEF Tree
  <2>3. p \in Seq(Nat) /\ Len(p) \in Nat \ {0}
    BY <2>1, ChainFacts
  <2> QED BY <2>1, <2>2, <2>3 DEF ChainOK
<1> QED BY <1>1, <1>2

(* The target on top of a chain, as any miller or node computes it.                  *)
LEMMA NextTarget ==
    ASSUME Tree(block), NEW a \in {None} \cup Stored, NEW c \in {None} \cup Stored, NEW row,
           NEW p, p = PathIn(block, a), NEW n, n = Idx(a) + 1
    PROVE  /\ Len(p) \in Nat /\ n = Len(p) /\ Idx(a) \in Int /\ Path(a) = p
           /\ BlockTarget(a, c, row, n) = PathTarget(block, p, Len(p))
           /\ BlockTarget(a, c, row, n) \in Nat
<1>1. Path(a) = p
  BY DEF Path, PathIn
<1>2. Len(p) \in Nat /\ n = Len(p) /\ Idx(a) \in Int /\ n \in Nat /\ n <= Idx(a) + 1
  BY <1>1, PathFacts
<1>3. BlockTarget(a, c, row, n) = PathTarget(block, p, n)
  BY <1>1, <1>2, BlockTargetIs
<1>4. PathTarget(block, p, n) \in Nat
  <2>1. \A i \in 1 .. Len(p) : p[i] \in 1 .. Len(block)
    BY <1>1, PathFacts DEF Stored
  <2>2. n \in 0 .. Len(p)
    BY <1>2
  <2> QED BY <1>2, <2>1, <2>2, PathTargetBound
<1> QED BY <1>1, <1>2, <1>3, <1>4

Extends(B, p, e, C) ==
    /\ e \in Entry /\ e.prev \in {None} \cup 1 .. Len(B) /\ p = PathIn(B, e.prev)
    /\ e.idx = Len(p) /\ e.chain = Append(p, Len(B) + 1) /\ e.target = PathTarget(B, p, Len(p))
    /\ C = Append(B, e)

LEMMA ExtendTree ==
    ASSUME NEW B, Tree(B), NEW p, NEW e, NEW C, Extends(B, p, e, C)
    PROVE  /\ Tree(C) /\ Grows(B, C)
           /\ Len(C) = Len(B) + 1 /\ C[Len(B) + 1] = e
<1>0. PICK prev :
         /\ e \in Entry /\ prev = e.prev /\ prev \in {None} \cup 1 .. Len(B) /\ p = PathIn(B, prev)
         /\ e.idx = Len(p) /\ e.chain = Append(p, Len(B) + 1)
         /\ e.target = PathTarget(B, p, Len(p)) /\ C = Append(B, e)
  BY DEF Extends
<1>1. PICK n : n = Len(B) + 1
  OBVIOUS
<1>2. /\ B \in Seq(Entry) /\ Len(B) \in Nat /\ C \in Seq(Entry) /\ Len(C) = n /\ C[n] = e
      /\ n \in Nat /\ n \in 1 .. Len(C)
      /\ \A b \in 1 .. Len(B) : C[b] = B[b]
  BY <1>0, <1>1 DEF Tree
<1>3. Grows(B, C)
  BY <1>1, <1>2 DEF Grows
<1>4. /\ p \in Seq(Nat) /\ Len(p) \in Nat /\ ChainIn(B, p)
      /\ prev = IF Len(p) = 0 THEN None ELSE p[Len(p)]
  BY <1>0, PathInFacts
<1>5. ASSUME NEW b \in 1 .. Len(B) PROVE ChainOK(C, b) /\ TargetOK(C, b)
  <2>1. PICK r : r = B[b].chain
    OBVIOUS
  <2>2. B[b] \in Entry /\ Len(r) \in Nat \ {0} /\ C[b] = B[b]
    BY <1>2, <2>1, ChainFacts
  <2>3. Len(r) = B[b].idx + 1 /\ r[Len(r)] = b /\ ChainIn(B, r) /\ TargetOK(B, b)
    BY <2>1 DEF Tree, ChainOK
  <2>4. ChainIn(C, r)
    BY <1>2, <1>3, <2>3, ChainGrows
  <2>5. PathTarget(C, r, B[b].idx) = PathTarget(B, r, B[b].idx)
    <3>1. B[b].idx \in Nat /\ \A i \in 1 .. B[b].idx : i \in 1 .. Len(r)
      <4>1. B[b].idx \in Nat
        BY <2>2 DEF Entry
      <4>2. Len(r) = B[b].idx + 1
        BY <2>3
      <4> QED BY <4>1, <4>2
    <3>2. \A i \in 1 .. Len(r) : C[r[i]] = B[r[i]]
      BY <1>2, <2>3 DEF ChainIn
    <3>3. SameUpTo(B, r, C, r, B[b].idx)
      BY <3>1, <3>2 DEF SameUpTo
    <3> QED BY <3>1, <3>3, PathTargetSame
  <2> QED BY <2>1, <2>2, <2>3, <2>4, <2>5 DEF ChainOK, TargetOK
<1>6. PICK q : q = Append(p, n)
  OBVIOUS
<1>7. /\ Len(q) = Len(p) + 1 /\ q[Len(q)] = n
      /\ \A i \in 1 .. Len(p) : q[i] = p[i]
  <2>1. p \in Seq(Nat) /\ n \in Nat
    BY <1>2, <1>4
  <2> QED BY <1>6, <2>1, Appended
<1>8. C[n].idx = Len(p) /\ C[n].chain = q /\ C[n].prev = prev
  <2>1. C[n] = e
    BY <1>2
  <2> QED BY <1>0, <1>1, <1>6, <2>1
<1>9. ChainOK(C, n)
  <2>1. ChainIn(C, p)
    BY <1>2, <1>3, <1>4, ChainGrows
  <2>2. ChainIn(C, q)
    BY <1>2, <1>4, <1>6, <1>8, <2>1, ChainExtends
  <2> QED BY <1>7, <1>8, <2>2 DEF ChainOK
<1>10. TargetOK(C, n)
  <2>1. \A i \in 1 .. Len(p) : p[i] \in 1 .. Len(B)
    BY <1>4 DEF ChainIn
  <2>2. PathTarget(C, q, Len(p)) = PathTarget(B, p, Len(p))
    <3>1. \A i \in 1 .. Len(p) : C[p[i]] = B[p[i]]
      BY <1>2, <2>1
    <3>2. SameUpTo(B, p, C, q, Len(p))
      BY <1>7, <3>1 DEF SameUpTo
    <3>3. Len(p) \in Nat
      BY <1>4
    <3> QED BY <3>2, <3>3, PathTargetSame
  <2>3. PathTarget(B, p, Len(p)) <= MaxTarget
    <3>1. Len(p) \in Nat /\ Len(p) \in 0 .. Len(p)
      BY <1>4
    <3> QED BY <2>1, <3>1, PathTargetBound
  <2>4. C[n].target = PathTarget(B, p, Len(p))
    <3>1. C[n] = e
      BY <1>2
    <3> QED BY <1>0, <3>1
  <2> QED BY <1>8, <2>2, <2>3, <2>4 DEF TargetOK
<1>11. \A b \in 1 .. Len(C) : b \in 1 .. Len(B) \/ b = n
  BY <1>1, <1>2
<1>12. Tree(C)
  <2>1. \A b \in 1 .. Len(C) : ChainOK(C, b) /\ TargetOK(C, b)
    BY <1>5, <1>9, <1>10, <1>11
  <2>2. C \in Seq(Entry)
    BY <1>2
  <2> QED BY <2>1, <2>2 DEF Tree
<1> QED BY <1>1, <1>2, <1>3, <1>12

LEMMA TemplateStays ==
    ASSUME NEW B, Tree(B), NEW C, Grows(B, C), Len(C) \in Nat, NEW m, Template(B, m)
    PROVE  Template(C, m)
<1>1. PICK b, p : b = m.prev /\ p = PathIn(B, b)
  OBVIOUS
<1>2. b \in {None} \cup 1 .. Len(B) /\ m.idx = Len(p) /\ m.target = PathTarget(B, p, Len(p))
  BY <1>1 DEF Template
<1>3. Len(B) \in Nat /\ Len(B) <= Len(C)
  BY DEF Tree, Grows
<1>4. b \in {None} \cup 1 .. Len(C) /\ PathIn(C, b) = p
  BY <1>1, <1>2, <1>3 DEF Grows, PathIn
<1>5. Len(p) \in Nat /\ ChainIn(B, p)
  BY <1>1, <1>2, PathInFacts
<1>6. SameUpTo(B, p, C, p, Len(p))
  BY <1>5 DEF SameUpTo, ChainIn, Grows
<1>7. PathTarget(C, p, Len(p)) = PathTarget(B, p, Len(p))
  BY <1>5, <1>6, PathTargetSame
<1> QED BY <1>1, <1>2, <1>4, <1>7 DEF Template

LEMMA MillerStays ==
    ASSUME NEW B, Tree(B), NEW C, Grows(B, C), Len(C) \in Nat,
           NEW t \in Nat, NEW u \in Nat, t <= u, NEW m, MillerAt(B, t, m)
    PROVE  MillerAt(C, u, m)
<1>1. CASE m = Idle
  BY <1>1 DEF MillerAt
<1>2. CASE m \in Linked /\ Template(B, m)
  BY <1>2, TemplateStays DEF MillerAt
<1>3. CASE m \in Sealed /\ Template(B, m) /\ OnTime(B, t, m)
  <2>1. m.time \in Nat
    BY <1>3 DEF Sealed
  <2>2. m.prev # None => C[m.prev] = B[m.prev]
    BY <1>3 DEF Template, Grows
  <2>3. OnTime(C, u, m)
    BY <1>3, <2>1, <2>2 DEF OnTime
  <2> QED BY <1>3, <2>3, TemplateStays DEF MillerAt
<1> QED BY <1>1, <1>2, <1>3 DEF MillerAt

LEMMA ArchiveStays ==
    ASSUME NEW B, Tree(B), NEW C, Grows(B, C), Len(C) \in Nat,
           NEW f, NEW x, NEW bar, NEW s, ArchiveAt(B, f, x, bar, s)
    PROVE  ArchiveAt(C, f, x, bar, s)
<1>1. Len(B) \in Nat /\ Len(B) <= Len(C)
  BY DEF Tree, Grows
<1>2. \A b \in 1 .. Len(B) : b \in 1 .. Len(C) /\ C[b] = B[b]
  BY <1>1 DEF Grows
<1>3. FileAt(B, f, x, bar) /\ LinesAt(f, x, bar) /\ (s \/ OneChain(B, f, x))
  BY DEF ArchiveAt
<1>4. FileAt(C, f, x, bar)
  BY <1>2, <1>3 DEF FileAt
<1>5. ASSUME OneChain(B, f, x) PROVE OneChain(C, f, x)
  <2>1. PICK p : p = PathIn(B, x.tip)
    OBVIOUS
  <2>2. x.tip \in {None} \cup 1 .. Len(B) /\ x.left \subseteq 1 .. Len(B)
        /\ \A i \in 1 .. Len(f) : f[i] \in 1 .. Len(B)
    BY <1>3 DEF FileAt
  <2>3. PathIn(C, x.tip) = p
    BY <1>2, <2>1, <2>2 DEF PathIn
  <2>4. p \in Seq(Nat) /\ ChainIn(B, p)
    BY <2>1, <2>2, PathInFacts
  <2>5. \A c \in ToSet(p) : C[c] = B[c]
    <3> SUFFICES ASSUME NEW c \in ToSet(p) PROVE C[c] = B[c]
      OBVIOUS
    <3>1. PICK i \in 1 .. Len(p) : c = p[i]
      BY <2>4 DEF ToSet
    <3> QED BY <1>2, <2>4, <3>1 DEF ChainIn
  <2>6. \A i \in 1 .. Len(f) : C[f[i]] = B[f[i]]
    BY <1>2, <2>2
  <2>7. \A c \in x.left : C[c] = B[c]
    BY <1>2, <2>2
  <2> QED BY <1>5, <2>1, <2>3, <2>5, <2>6, <2>7 DEF OneChain
<1> QED BY <1>3, <1>4, <1>5 DEF ArchiveAt

(* A valid block is stored.                                                    *)
LEMMA AddKeepsTree ==
    ASSUME TreeOK, NEW m \in [prev : Nat, idx : Nat, time : Nat, target : Nat],
           Valid(m), Add(m), now' = now
    PROVE  TreeOK' /\ Grows(block, block') /\ Len(block') \in Nat
<1>1. PICK p, e : /\ p = PathIn(block, m.prev)
                  /\ e = [prev |-> m.prev, idx |-> m.idx, time |-> m.time, target |-> m.target,
                          chain |-> Append(p, Len(block) + 1)]
  OBVIOUS
<1>2. /\ Tree(block) /\ block \in Seq(Entry) /\ Len(block) \in Nat /\ now \in Nat
      /\ tip \in {None} \cup 1 .. Len(block)
      /\ \A b \in 1 .. Len(block) : block[b].time <= now
  BY DEF TreeOK, Tree, Stored
<1>3. m.prev \in {None} \cup 1 .. Len(block) /\ m.time <= now
  BY DEF Valid, Stored
<1>4. p \in Seq(Nat)
  BY <1>1, <1>2, <1>3, PathInFacts
<1>5. m.prev \in {None} \cup Stored /\ tip \in {None} \cup Stored
  BY <1>2, <1>3 DEF Stored
<1>6. m.idx = Idx(m.prev) + 1 /\ m.target = BlockTarget(m.prev, tip, HasRow(m.prev), m.idx)
  BY DEF Valid
<1>7. /\ Path(m.prev) = p /\ Len(p) \in Nat /\ m.idx = Len(p)
      /\ m.target = PathTarget(block, p, Len(p))
  <2>1. PICK a, n, row : a = m.prev /\ n = Idx(a) + 1 /\ row = HasRow(a)
    OBVIOUS
  <2>2. a \in {None} \cup Stored /\ p = PathIn(block, a)
    BY <1>1, <1>5, <2>1
  <2>3. /\ Len(p) \in Nat /\ n = Len(p) /\ Path(a) = p
        /\ BlockTarget(a, tip, row, n) = PathTarget(block, p, Len(p))
    BY <1>2, <1>5, <2>1, <2>2, NextTarget
  <2>4. m.idx = n /\ m.target = BlockTarget(a, tip, row, n)
    BY <1>6, <2>1
  <2> QED BY <2>1, <2>3, <2>4
<1>8. /\ e.prev = m.prev /\ e.idx = Len(p) /\ e.chain = Append(p, Len(block) + 1)
      /\ e.target = PathTarget(block, p, Len(p)) /\ e.time = m.time
  BY <1>1, <1>7
<1>9. e \in Entry
  <2>1. Append(p, Len(block) + 1) \in Seq(Nat)
    BY <1>2, <1>4
  <2> QED BY <1>1, <2>1 DEF Entry
<1>10. block' = Append(block, e)
  BY <1>1, <1>7 DEF Add
<1>11. /\ Tree(block') /\ Grows(block, block')
       /\ Len(block') = Len(block) + 1 /\ block'[Len(block) + 1] = e
  <2>1. Tree(block) /\ p = PathIn(block, m.prev)
    BY <1>1, <1>2
  <2>2. PICK C : C = Append(block, e)
    OBVIOUS
  <2>3. Extends(block, p, e, C)
    BY <1>3, <1>8, <1>9, <2>1, <2>2 DEF Extends
  <2>4. Tree(C) /\ Grows(block, C) /\ Len(C) = Len(block) + 1 /\ C[Len(block) + 1] = e
    BY <2>1, <2>3, ExtendTree
  <2> QED BY <1>10, <2>2, <2>4
<1>12. tip' \in {None} \cup 1 .. Len(block')
  <2>1. tip' = tip \/ tip' = Len(block) + 1
    BY DEF Add
  <2> QED BY <1>2, <1>11, <2>1
<1>13. \A b \in 1 .. Len(block') : block'[b].time <= now
  <2> SUFFICES ASSUME NEW b \in 1 .. Len(block') PROVE block'[b].time <= now
    OBVIOUS
  <2>1. CASE b \in 1 .. Len(block)
    BY <1>2, <1>11, <2>1 DEF Grows
  <2>2. CASE b = Len(block) + 1
    BY <1>3, <1>8, <1>11, <2>2
  <2> QED BY <1>2, <1>11, <2>1, <2>2
<1>14. TreeOK'
  BY <1>2, <1>11, <1>12, <1>13 DEF TreeOK, Stored
<1> QED BY <1>2, <1>11, <1>14

-----------------------------------------------------------------------------
(* Every step keeps the invariant.                                               *)

LEMMA InitIInv == Init => IInv
<1> SUFFICES ASSUME Init PROVE IInv
  OBVIOUS
<1>1. block = <<>> /\ Len(block) = 0 /\ tip = None /\ now = 0 /\ file = <<>> /\ Len(file) = 0
  BY DEF Init
<1>2. TreeOK
  <2>1. <<>> \in Seq(Entry)
    OBVIOUS
  <2>2. \A b \in 1 .. Len(block) : FALSE
    BY <1>1
  <2> QED BY <1>1, <2>1, <2>2 DEF TreeOK, Tree, Stored
<1>3. MillerOK
  BY DEF Init, MillerOK, MillerAt
<1>4. ArchiveAt(block, file, export, bare, split)
  <2>1. <<>> \in Seq(Nat) /\ Len(<<>>) = 0
    OBVIOUS
  <2>2. \A i \in 1 .. Len(file) : FALSE
    BY <1>1
  <2>3. export = [op |-> "none", tip |-> 0, seen |-> 0, left |-> {}, from |-> 0, started |-> 0]
    BY DEF Init, None
  <2>4. bare = {} /\ split = FALSE
    BY DEF Init
  <2>5. export \in Export /\ export.op = "none" /\ export.left = {}
        /\ export.tip = 0 /\ export.seen = 0 /\ export.from = 0
    BY <2>3 DEF Export
  <2>6. FileAt(block, file, export, bare)
    BY <1>1, <2>1, <2>2, <2>4, <2>5 DEF FileAt, None
  <2>7. LinesAt(file, export, bare)
    BY <2>4, <2>5 DEF LinesAt, Running
  <2>8. OneChain(block, file, export)
    BY <2>2, <2>5 DEF OneChain
  <2> QED BY <2>6, <2>7, <2>8 DEF ArchiveAt
<1> QED BY <1>2, <1>3, <1>4 DEF IInv

LEMMA Basics ==
    ASSUME IInv
    PROVE  /\ Tree(block) /\ Len(block) \in Nat /\ now \in Nat
           /\ tip \in {None} \cup 1 .. Len(block)
           /\ \A b \in 1 .. Len(block) : block[b].time <= now
           /\ miller = [w \in Miller |-> miller[w]]
           /\ \A w \in Miller : MillerAt(block, now, miller[w])
           /\ ArchiveAt(block, file, export, bare, split)
BY DEF IInv, TreeOK, Tree, Stored, MillerOK

(* A step that leaves the archive alone.                                          *)
LEMMA TreeStep ==
    ASSUME IInv, TreeOK', Grows(block, block'), Len(block') \in Nat, now <= now',
           UNCHANGED archive, miller' = [w \in Miller |-> miller'[w]],
           \A w \in Miller : miller'[w] = miller[w] \/ MillerAt(block', now', miller'[w])
    PROVE  IInv'
<1>1. Tree(block) /\ now \in Nat /\ now' \in Nat
  BY Basics DEF TreeOK
<1>2. ASSUME NEW w \in Miller PROVE MillerAt(block', now', miller'[w])
  <2>1. PICK m : m = miller[w]
    OBVIOUS
  <2>2. MillerAt(block, now, m)
    BY <2>1, Basics
  <2>3. MillerAt(block', now', m)
    BY <1>1, <2>2, MillerStays
  <2> QED BY <2>1, <2>3
<1>3. ArchiveAt(block', file', export', bare', split')
  <2>1. ArchiveAt(block, file, export, bare, split)
    BY Basics
  <2>2. ArchiveAt(block', file, export, bare, split)
    BY <1>1, <2>1, ArchiveStays
  <2> QED BY <2>2 DEF archive
<1> QED BY <1>2, <1>3 DEF IInv, MillerOK

LEMMA GrowsItself == \A B : Len(B) \in Nat => Grows(B, B)
BY DEF Grows

LEMMA TickStep ==
    ASSUME IInv, Tick
    PROVE  IInv'
<1>1. now' \in Instants /\ now' > now /\ UNCHANGED <<block, tip, miller, archive>>
  BY DEF Tick
<1>2. now \in Nat /\ now <= now' /\ now' \in Nat
  BY <1>1, Basics, MillingAssumption
<1>3. TreeOK'
  <2>1. \A b \in 1 .. Len(block) : block[b].time \in Nat /\ block[b].time <= now
    <3>1. \A b \in 1 .. Len(block) : block[b] \in Entry
      BY Basics DEF Tree
    <3> QED BY <3>1, Basics DEF Entry
  <2>2. \A b \in 1 .. Len(block) : block[b].time <= now'
    BY <1>1, <1>2, <2>1
  <2>3. Tree(block) /\ tip \in {None} \cup 1 .. Len(block)
    BY Basics
  <2> QED BY <1>1, <1>2, <2>2, <2>3 DEF TreeOK, Stored
<1>4. Grows(block, block') /\ Len(block') \in Nat
  BY <1>1, Basics, GrowsItself
<1>5. miller' = [w \in Miller |-> miller'[w]]
  BY <1>1, Basics
<1> QED BY <1>1, <1>2, <1>3, <1>4, <1>5, TreeStep

LEMMA PeerBlockStep ==
    ASSUME IInv, NEW prev \in {None} \cup Stored, NEW time \in Instants,
           NEW canonical \in {None} \cup Stored, PeerBlock(prev, time, canonical)
    PROVE  IInv'
<1>1. PICK m : /\ m = [prev |-> prev, idx |-> Idx(prev) + 1, time |-> time,
                       target |-> BlockTarget(prev, canonical, TRUE, Idx(prev) + 1)]
               /\ Valid(m) /\ Add(m) /\ UNCHANGED <<now, miller, archive>>
  BY DEF PeerBlock
<1>2. Tree(block) /\ Len(block) \in Nat /\ now \in Nat
  BY Basics
<1>3. PICK p, n : p = PathIn(block, prev) /\ n = Idx(prev) + 1
  OBVIOUS
<1>4. n \in Nat /\ BlockTarget(prev, canonical, TRUE, n) \in Nat
  <2>1. PICK row : row = TRUE
    OBVIOUS
  <2>2. Len(p) \in Nat /\ n = Len(p) /\ BlockTarget(prev, canonical, row, n) \in Nat
    BY <1>2, <1>3, NextTarget
  <2> QED BY <2>1, <2>2
<1>5. m = [prev |-> prev, idx |-> n, time |-> time, target |-> BlockTarget(prev, canonical, TRUE, n)]
  BY <1>1, <1>3
<1>6. prev \in Nat /\ time \in Nat
  BY <1>2, MillingAssumption DEF Stored, None
<1>7. m \in [prev : Nat, idx : Nat, time : Nat, target : Nat]
  BY <1>4, <1>5, <1>6
<1>8. TreeOK /\ now' = now
  BY <1>1 DEF IInv
<1>9. TreeOK' /\ Grows(block, block') /\ Len(block') \in Nat
  BY <1>1, <1>7, <1>8, AddKeepsTree
<1>10. miller' = [w \in Miller |-> miller'[w]]
  BY <1>1, Basics
<1> QED BY <1>1, <1>2, <1>9, <1>10, TreeStep

(* A step of a miller that leaves the tree alone.                                   *)
LEMMA MillerStep ==
    ASSUME IInv, NEW w \in Miller, NEW m, miller' = [miller EXCEPT ![w] = m],
           MillerAt(block, now, m), UNCHANGED <<now, block, tip, archive>>
    PROVE  IInv'
<1>1. TreeOK'
  BY DEF IInv, TreeOK, Stored
<1>2. Len(block) \in Nat /\ now \in Nat /\ miller = [v \in Miller |-> miller[v]]
  BY Basics
<1>3. Grows(block, block') /\ Len(block') \in Nat
  BY <1>2, GrowsItself
<1>4. /\ miller' = [v \in Miller |-> miller'[v]]
      /\ \A v \in Miller : miller'[v] = miller[v] \/ MillerAt(block', now', miller'[v])
  <2>1. \A v \in Miller : miller'[v] = IF v = w THEN m ELSE miller[v]
    BY <1>2
  <2> QED BY <1>2, <2>1
<1>5. now <= now'
  BY <1>2
<1> QED BY <1>1, <1>3, <1>4, <1>5, TreeStep

(* The template of a block on top of the longest chain.                             *)
LEMMA LinkStep ==
    ASSUME IInv, NEW w \in Miller, Link(w)
    PROVE  IInv'
<1>1. PICK p, n, m : /\ p = PathIn(block, tip) /\ n = Idx(tip) + 1
                     /\ m = [op |-> "linked", prev |-> tip, idx |-> n,
                             target |-> BlockTarget(tip, tip, HasRow(tip), n)]
  OBVIOUS
<1>2. miller' = [miller EXCEPT ![w] = m] /\ UNCHANGED <<now, block, tip, archive>>
  BY <1>1 DEF Link, Become
<1>3. Tree(block) /\ Len(block) \in Nat /\ tip \in {None} \cup 1 .. Len(block)
  BY Basics
<1>4. tip \in {None} \cup Stored
  BY <1>3 DEF Stored
<1>5. n \in Nat /\ n = Len(p) /\ BlockTarget(tip, tip, HasRow(tip), n) \in Nat
  BY <1>1, <1>3, <1>4, NextTarget
<1>6. m.target = PathTarget(block, p, Len(p))
  <2>1. BlockTarget(tip, tip, HasRow(tip), n) = PathTarget(block, p, Len(p))
    BY <1>1, <1>3, <1>4, NextTarget
  <2> QED BY <1>1, <2>1
<1>7. tip \in Nat
  BY <1>3 DEF None
<1>8. m \in Linked
  BY <1>1, <1>5, <1>7 DEF Linked
<1>9. Template(block, m)
  BY <1>1, <1>3, <1>5, <1>6 DEF Template
<1>10. MillerAt(block, now, m)
  BY <1>8, <1>9 DEF MillerAt
<1> QED BY <1>2, <1>10, MillerStep

(* What is sealed.                                                               *)
LEMMA SealStep ==
    ASSUME IInv, NEW w \in Miller, Seal(w)
    PROVE  IInv'
<1>1. PICK m, n : /\ m = miller[w]
                  /\ n = [op |-> "milling", prev |-> m.prev, idx |-> m.idx, time |-> now,
                          target |-> m.target, lost |-> m.prev = None \/ ~HasRow(m.prev)]
  OBVIOUS
<1>2. /\ m.op = "linked" /\ miller' = [miller EXCEPT ![w] = n]
      /\ UNCHANGED <<now, block, tip, archive>>
  BY <1>1 DEF Seal, Become
<1>3. MillerAt(block, now, m)
  BY <1>1, Basics
<1>4. m \in Linked /\ Template(block, m)
  BY <1>2, <1>3 DEF MillerAt, Idle, Sealed
<1>5. n \in Sealed
  <2>1. now \in Nat
    BY Basics
  <2> QED BY <1>1, <1>4, <2>1 DEF Linked, Sealed
<1>6. Template(block, n)
  BY <1>1, <1>4 DEF Template
<1>7. OnTime(block, now, n)
  <2>1. now \in Nat /\ \A b \in 1 .. Len(block) : block[b].time <= now
    BY Basics
  <2> QED BY <1>1, <1>6, <2>1 DEF Template, OnTime
<1>8. MillerAt(block, now, n)
  BY <1>5, <1>6, <1>7 DEF MillerAt
<1> QED BY <1>2, <1>8, MillerStep

(* Only what it does changes.                                                     *)
LEMMA StillSealed ==
    ASSUME NEW B, NEW t, NEW m \in Sealed, MillerAt(B, t, m),
           NEW op \in {"milling", "tired", "solved", "submit"}, NEW n, n = [m EXCEPT !.op = op]
    PROVE  MillerAt(B, t, n)
<1>1. m # Idle /\ m \notin Linked
  BY DEF Sealed, Linked, Idle
<1>2. Template(B, m) /\ OnTime(B, t, m)
  BY <1>1 DEF MillerAt
<1>3. n \in Sealed /\ n.prev = m.prev /\ n.idx = m.idx /\ n.time = m.time /\ n.target = m.target
  BY DEF Sealed
<1> QED BY <1>2, <1>3 DEF MillerAt, Template, OnTime

LEMMA SearchStep ==
    ASSUME IInv, NEW w \in Miller, Round(w) \/ Check(w)
    PROVE  IInv'
<1>1. PICK m : m = miller[w]
  OBVIOUS
<1>2. MillerAt(block, now, m)
  BY <1>1, Basics
<1>3. m.op \in {"milling", "tired", "solved"} /\ UNCHANGED <<now, block, tip, archive>>
  BY <1>1 DEF Round, Check
<1>4. m \in Sealed
  BY <1>2, <1>3 DEF MillerAt, Idle, Linked
<1>5. PICK n : miller' = [miller EXCEPT ![w] = n]
               /\ (n = Idle \/ \E op \in {"milling", "tired", "solved", "submit"} :
                                  n = [m EXCEPT !.op = op])
  <2>1. CASE Round(w)
    BY <1>1, <2>1 DEF Round, Become
  <2>2. CASE Check(w)
    BY <1>1, <2>2 DEF Check, Become
  <2> QED BY <2>1, <2>2
<1>6. MillerAt(block, now, n)
  <2>1. CASE n = Idle
    BY <2>1 DEF MillerAt
  <2>2. CASE n # Idle
    BY <1>2, <1>4, <1>5, <2>2, StillSealed
  <2> QED BY <2>1, <2>2
<1> QED BY <1>3, <1>5, <1>6, MillerStep

(* The solved block is received.                                                   *)
LEMMA SubmitStep ==
    ASSUME IInv, NEW w \in Miller, Submit(w)
    PROVE  IInv'
<1>1. PICK m : m = miller[w]
  OBVIOUS
<1>2. /\ m.op = "submit" /\ miller' = [miller EXCEPT ![w] = Idle]
      /\ UNCHANGED <<now, archive>>
      /\ (Valid(Block(m)) /\ Add(Block(m))) \/ UNCHANGED <<block, tip>>
  BY <1>1 DEF Submit, Become
<1>3. MillerAt(block, now, m) /\ TreeOK /\ now \in Nat /\ Len(block) \in Nat
      /\ miller = [v \in Miller |-> miller[v]]
  BY <1>1, Basics DEF IInv
<1>4. m \in Sealed
  BY <1>2, <1>3 DEF MillerAt, Idle, Linked
<1>5. Block(m) \in [prev : Nat, idx : Nat, time : Nat, target : Nat]
  BY <1>4 DEF Block, Sealed
<1>6. TreeOK' /\ Grows(block, block') /\ Len(block') \in Nat
  <2>1. CASE Valid(Block(m)) /\ Add(Block(m))
    <3>1. PICK b : b = Block(m)
      OBVIOUS
    <3>2. b \in [prev : Nat, idx : Nat, time : Nat, target : Nat] /\ Valid(b) /\ Add(b)
      BY <1>5, <2>1, <3>1
    <3> QED BY <1>2, <1>3, <3>2, AddKeepsTree
  <2>2. CASE UNCHANGED <<block, tip>>
    <3>1. TreeOK'
      BY <1>2, <1>3, <2>2 DEF TreeOK, Stored
    <3> QED BY <1>3, <2>2, <3>1, GrowsItself
  <2> QED BY <1>2, <2>1, <2>2
<1>7. MillerAt(block', now', Idle)
  BY DEF MillerAt
<1>8. /\ miller' = [v \in Miller |-> miller'[v]]
      /\ \A v \in Miller : miller'[v] = miller[v] \/ MillerAt(block', now', miller'[v])
  <2>1. \A v \in Miller : miller'[v] = IF v = w THEN Idle ELSE miller[v]
    BY <1>2, <1>3
  <2> QED BY <1>2, <1>3, <1>7, <2>1
<1> QED BY <1>2, <1>3, <1>6, <1>8, TreeStep

(* A step of an export leaves the tree and the millers alone.                         *)
LEMMA FileStep ==
    ASSUME IInv, UNCHANGED <<now, block, tip, miller>>,
           ArchiveAt(block, file', export', bare', split')
    PROVE  IInv'
<1>1. TreeOK'
  BY DEF IInv, TreeOK, Stored
<1>2. MillerOK'
  BY DEF IInv, MillerOK
<1> QED BY <1>1, <1>2 DEF IInv

(* The blocks of a chain are stored, and each leads to the next.                        *)
Leads(t, p) ==
    /\ p \in Seq(Nat) /\ Len(p) \in Nat \ {0} /\ Len(p) = Idx(t) + 1 /\ p[Len(p)] = t
    /\ ToSet(p) = {p[i] : i \in 1 .. Len(p)}
    /\ \A i \in 1 .. Len(p) :
          /\ p[i] \in Stored /\ p[i] # None /\ p[i] \in Nat /\ Idx(p[i]) = i - 1
          /\ block[p[i]].prev = IF i = 1 THEN None ELSE p[i - 1]
    /\ \A i, j \in 1 .. Len(p) : p[i] = p[j] => i = j

LEMMA ChainLeads ==
    ASSUME Tree(block), NEW t \in Stored, NEW p, p = Path(t)
    PROVE  Leads(t, p)
<1>1. t \in {None} \cup Stored /\ t \in 1 .. Len(block) /\ t # None
  BY DEF Stored, None
<1>2. p = block[t].chain
  BY <1>1 DEF Path
<1>3. /\ p \in Seq(Nat) /\ Len(p) \in Nat \ {0} /\ p[Len(p)] = t
      /\ \A i \in 1 .. Len(p) :
            /\ p[i] \in 1 .. Len(block) /\ block[p[i]].idx = i - 1
            /\ block[p[i]].prev = IF i = 1 THEN None ELSE p[i - 1]
  <2>1. p \in Seq(Nat) /\ Len(p) \in Nat \ {0}
    BY <1>1, <1>2, ChainFacts
  <2>2. ChainOK(block, t)
    BY <1>1 DEF Tree
  <2> QED BY <1>2, <2>1, <2>2 DEF ChainOK, ChainIn
<1>4. Len(p) = Idx(t) + 1 /\ \A i, j \in 1 .. Len(p) : p[i] = p[j] => i = j
  BY <1>1, PathFacts
<1>5. ToSet(p) = {p[i] : i \in 1 .. Len(p)}
  BY <1>1, PathSet
<1>6. \A b \in 1 .. Len(block) : b \in Nat /\ b # None /\ Idx(b) = block[b].idx
  BY DEF None, Idx
<1>7. \A i \in 1 .. Len(p) :
         /\ p[i] \in Stored /\ p[i] # None /\ p[i] \in Nat /\ Idx(p[i]) = i - 1
         /\ block[p[i]].prev = IF i = 1 THEN None ELSE p[i - 1]
  BY <1>3, <1>6 DEF Stored
<1> QED BY <1>3, <1>4, <1>5, <1>7 DEF Leads

(* The last block of a chain is the one without a child in it.                           *)
LEMMA EndsThere ==
    ASSUME Tree(block), NEW t \in Stored, NEW p, p = Path(t), NEW l \in ToSet(p)
    PROVE  /\ (\A c \in ToSet(p) : block[c].prev # l) => l = t
           /\ (\A c \in ToSet(p) : Idx(c) # Idx(l) + 1) => l = t
           /\ \A c \in ToSet(p) : Idx(c) = Idx(l) + 1 => block[c].prev = l
<1>0. Leads(t, p)
  BY ChainLeads
<1>1. /\ Len(p) \in Nat /\ p[Len(p)] = t /\ ToSet(p) = {p[j] : j \in 1 .. Len(p)}
      /\ \A j \in 1 .. Len(p) :
            /\ p[j] \in Stored /\ p[j] # None /\ Idx(p[j]) = j - 1
            /\ block[p[j]].prev = IF j = 1 THEN None ELSE p[j - 1]
  BY <1>0 DEF Leads
<1>2. PICK i \in 1 .. Len(p) : l = p[i]
  BY <1>1
<1>3. Idx(l) = i - 1
  BY <1>1, <1>2
<1>4. ASSUME i < Len(p)
      PROVE  p[i + 1] \in ToSet(p) /\ block[p[i + 1]].prev = l /\ Idx(p[i + 1]) = Idx(l) + 1
  <2>1. i + 1 \in 1 .. Len(p) /\ i + 1 # 1 /\ (i + 1) - 1 = i
    BY <1>1, <1>4
  <2>2. Idx(p[i + 1]) = i
    BY <1>1, <2>1
  <2> QED BY <1>1, <1>2, <1>3, <2>1, <2>2
<1>5. ~(i < Len(p)) => l = t
  <2>1. ~(i < Len(p)) => i = Len(p)
    BY <1>1
  <2> QED BY <1>1, <1>2, <2>1
<1>6. ASSUME NEW c \in ToSet(p), Idx(c) = Idx(l) + 1 PROVE block[c].prev = l
  <2>1. PICK j \in 1 .. Len(p) : c = p[j]
    BY <1>1
  <2>2. j - 1 = (i - 1) + 1
    BY <1>1, <1>3, <1>6, <2>1
  <2>3. j # 1 /\ j - 1 = i
    BY <2>2
  <2> QED BY <1>1, <1>2, <2>1, <2>3
<1> QED BY <1>4, <1>5, <1>6

(* What a lookup finds is stored.  It is the chain itself, if the part of it that was     *)
(* canonical at the walk still is at the query.                                        *)
LEMMA VisibleIs ==
    ASSUME Tree(block), NEW a \in {None} \cup Stored, NEW s \in {None} \cup Stored,
           NEW c \in {None} \cup Stored
    PROVE  /\ Visible(a, s, c) \subseteq Stored
           /\ ~(Cap(a, c) < Cap(a, s)) => Visible(a, s, c) = ToSet(Path(a))
<1>0. PICK p, q, r, V : p = Path(a) /\ q = Path(s) /\ r = Path(c) /\ V = Visible(a, s, c)
  OBVIOUS
<1>1. PICK k \in 0 .. Len(p) :
         /\ k <= Len(q) /\ Cap(a, s) = k - 1
         /\ \A i \in k + 1 .. Len(p) : p[i] \notin ToSet(q)
  BY <1>0, CommonPart
<1>2. PICK l \in 0 .. Len(p) :
         /\ l <= Len(r) /\ Cap(a, c) = l - 1
         /\ \A i \in 1 .. l : p[i] = r[i] /\ p[i] \in ToSet(r)
  BY <1>0, CommonPart
<1>3. Len(p) \in Nat /\ \A i \in 1 .. Len(p) : p[i] \in Stored /\ block[p[i]].idx = i - 1
  BY <1>0, PathFacts
<1>4. Len(r) \in Nat /\ \A i \in 1 .. Len(r) : r[i] \in Stored /\ block[r[i]].idx = i - 1
  BY <1>0, PathFacts
<1>5. ToSet(p) = {p[i] : i \in 1 .. Len(p)}
  BY <1>0, PathSet
<1>6. ToSet(r) = {r[i] : i \in 1 .. Len(r)}
  BY <1>0, PathSet
<1>7. \A x : x \in V <=> \/ x \in ToSet(p) /\ x \notin ToSet(q)
                         \/ x \in ToSet(r) /\ block[x].idx <= k - 1
  BY <1>0, <1>1 DEF Visible, Divergent
<1>8. V \subseteq Stored
  BY <1>3, <1>4, <1>5, <1>6, <1>7
<1>9. ASSUME ~(l - 1 < k - 1) PROVE V = ToSet(p)
  <2>1. ASSUME NEW x \in V, x \in ToSet(r), block[x].idx <= k - 1 PROVE x \in ToSet(p)
    <3>1. PICK i \in 1 .. Len(r) : x = r[i]
      BY <1>6, <2>1
    <3>2. i \in 1 .. l
      BY <1>1, <1>2, <1>4, <1>9, <2>1, <3>1
    <3>3. i \in 1 .. Len(p)
      BY <1>2, <1>3, <3>2
    <3> QED BY <1>2, <1>5, <3>1, <3>2, <3>3
  <2>2. ASSUME NEW i \in 1 .. Len(p) PROVE p[i] \in V
    <3>1. CASE i \in 1 .. k
      <4>1. i \in 1 .. l /\ i - 1 <= k - 1
        BY <1>1, <1>2, <1>9, <3>1
      <4> QED BY <1>2, <1>3, <1>7, <4>1
    <3>2. CASE i \in k + 1 .. Len(p)
      BY <1>1, <1>5, <1>7, <3>2
    <3> QED BY <1>1, <1>3, <3>1, <3>2
  <2>3. \A x : x \in V => x \in ToSet(p)
    BY <1>7, <2>1
  <2>4. \A x : x \in ToSet(p) => x \in V
    BY <1>5, <2>2
  <2> QED BY <2>3, <2>4
<1> QED BY <1>0, <1>1, <1>2, <1>8, <1>9

(* What holds of the archive before a step.                                            *)
LEMMA ArchiveFacts ==
    ASSUME IInv
    PROVE  /\ Tree(block) /\ Len(block) \in Nat /\ tip \in {None} \cup Stored
           /\ FileAt(block, file, export, bare) /\ LinesAt(file, export, bare)
           /\ split \/ OneChain(block, file, export)
           /\ Len(file) \in Nat
           /\ export.op # "none" => export.tip \in Stored /\ PathIn(block, export.tip) = Path(export.tip)
           /\ file # <<>> => Last(file) \in Stored
<1>1. /\ Tree(block) /\ Len(block) \in Nat /\ tip \in {None} \cup Stored
      /\ FileAt(block, file, export, bare) /\ LinesAt(file, export, bare)
      /\ split \/ OneChain(block, file, export)
  BY Basics DEF ArchiveAt, Stored
<1>2. file \in Seq(Nat) /\ Len(file) \in Nat
  BY <1>1 DEF FileAt
<1>3. export.op # "none" => export.tip \in Stored /\ PathIn(block, export.tip) = Path(export.tip)
  BY <1>1 DEF FileAt, PathIn, Path, Stored
<1>4. file # <<>> => Last(file) \in Stored
  <2> SUFFICES ASSUME file # <<>> PROVE Last(file) \in Stored
    OBVIOUS
  <2>1. Len(file) \in 1 .. Len(file)
    BY <1>2
  <2> QED BY <1>1, <2>1 DEF FileAt, Stored, Last
<1> QED BY <1>1, <1>2, <1>3, <1>4

(* What the query of an export finds.                                                  *)
LEMMA FoundIs ==
    ASSUME IInv, Query, export.op # "none"
    PROVE  /\ Found \subseteq Stored
           /\ ~split' => ~split /\ Found = ToSet(Path(export.tip))
<1>1. Tree(block) /\ tip \in {None} \cup Stored /\ export.tip \in {None} \cup Stored
  BY ArchiveFacts
<1>2. export.seen \in {None} \cup Stored
  BY ArchiveFacts DEF FileAt, Stored
<1>3. ~split' => ~split /\ ~(Cap(export.tip, tip) < Cap(export.tip, export.seen))
  BY DEF Query
<1> QED BY <1>1, <1>2, <1>3, VisibleIs DEF Found

(* A step of an export that writes nothing.                                             *)
LEMMA ExportStep ==
    ASSUME IInv, UNCHANGED <<now, block, tip, miller, file, bare>>, export' \in Export,
           {export'.tip, export'.seen} \subseteq {None} \cup Stored, export'.left \subseteq Stored,
           export'.op # "none" => export'.tip # None, export'.from <= Len(file),
           Running(export') => Running(export) \/ Len(file) - 1 \notin bare,
           ~split' => OneChain(block, file, export')
    PROVE  IInv'
<1>1. FileAt(block, file, export, bare) /\ LinesAt(file, export, bare)
  BY ArchiveFacts
<1>2. PICK x : x = export'
  OBVIOUS
<1>3. /\ x \in Export /\ {x.tip, x.seen} \subseteq {None} \cup 1 .. Len(block)
      /\ x.left \subseteq 1 .. Len(block) /\ (x.op # "none" => x.tip # None)
      /\ x.from <= Len(file) /\ (Running(x) => Running(export) \/ Len(file) - 1 \notin bare)
      /\ (~split' => OneChain(block, file, x))
  BY <1>2 DEF Stored
<1>4. FileAt(block, file, x, bare)
  BY <1>1, <1>3 DEF FileAt
<1>5. LinesAt(file, x, bare)
  BY <1>1, <1>3 DEF LinesAt
<1>6. ArchiveAt(block, file, x, bare, split')
  BY <1>3, <1>4, <1>5 DEF ArchiveAt
<1>7. ArchiveAt(block, file', export', bare', split')
  BY <1>2, <1>6
<1> QED BY <1>7, FileStep

(* An export starts, from the genesis or after the last line of the file.                *)
LEMMA StartExportStep ==
    ASSUME IInv, StartExport
    PROVE  IInv'
<1>1. PICK x : /\ x = [op |-> IF file = <<>> THEN "start" ELSE "check",
                       tip |-> tip, seen |-> None, left |-> {},
                       from |-> Len(file), started |-> export.started + 1]
               /\ export' = x
  BY DEF StartExport
<1>2. /\ UNCHANGED <<now, block, tip, miller, file, bare, split>> /\ tip # None
      /\ Len(file) - 1 \notin bare
  BY DEF StartExport
<1>3. /\ tip \in {None} \cup Stored /\ Len(file) \in Nat /\ tip \in Nat /\ export.started \in Nat
      /\ split \/ OneChain(block, file, export)
  BY ArchiveFacts DEF FileAt, Export, Stored, None
<1>4. /\ x \in Export /\ x.tip = tip /\ x.seen = None /\ x.left = {} /\ x.from = Len(file)
      /\ x.op \in {"start", "check"} /\ (x.op = "start" => file = <<>>)
  BY <1>1, <1>3 DEF Export, None
<1>5. ~split' => OneChain(block, file, x)
  BY <1>2, <1>3, <1>4 DEF OneChain
<1>6. /\ x.from <= Len(file) /\ {x.tip, x.seen} \subseteq {None} \cup Stored
      /\ x.left \subseteq Stored /\ x.tip # None
  BY <1>2, <1>3, <1>4
<1> QED BY <1>1, <1>2, <1>4, <1>5, <1>6, ExportStep

(* What an export is doing does not depend on the canonical tip it has seen.             *)
LEMMA WalkStep ==
    ASSUME IInv, Walk
    PROVE  IInv'
<1>1. PICK x : x = [export EXCEPT !.seen = tip] /\ export' = x
  BY DEF Walk
<1>2. UNCHANGED <<now, block, tip, miller, file, bare, split>>
  BY DEF Walk
<1>3. /\ tip \in {None} \cup Stored /\ tip \in Nat /\ export \in Export
      /\ {export.tip, export.seen} \subseteq {None} \cup Stored /\ export.left \subseteq Stored
      /\ export.from <= Len(file) /\ (export.op # "none" => export.tip # None)
      /\ split \/ OneChain(block, file, export)
  BY ArchiveFacts DEF FileAt, Stored, None
<1>4. /\ x \in Export /\ x.op = export.op /\ x.tip = export.tip /\ x.seen = tip
      /\ x.left = export.left /\ x.from = export.from
  BY <1>1, <1>3 DEF Export
<1>5. ~split' => OneChain(block, file, x)
  BY <1>2, <1>3, <1>4 DEF OneChain
<1>6. Running(x) => Running(export)
  BY <1>4 DEF Running
<1>7. {x.tip, x.seen} \subseteq {None} \cup Stored
  BY <1>3, <1>4
<1> QED BY <1>1, <1>2, <1>3, <1>4, <1>5, <1>6, <1>7, ExportStep

(* Only the place of an export in its course changes.                                   *)
LEMMA GotoIs ==
    ASSUME IInv, NEW op \in {"none", "check", "start", "written", "next", "done"}, Goto(op),
           export.op # "none"
    PROVE  /\ export' \in Export /\ export'.op = op /\ export'.tip = export.tip
           /\ export'.left = export.left /\ export'.from = export.from /\ export'.seen = None
           /\ {export'.tip, export'.seen} \subseteq {None} \cup Stored
           /\ export'.left \subseteq Stored /\ export'.tip # None
           /\ export'.from \in Nat /\ export'.from <= Len(file)
<1>1. PICK x : x = [export EXCEPT !.op = op, !.seen = None] /\ export' = x
  BY DEF Goto
<1>2. /\ export \in Export /\ export.tip \in {None} \cup Stored /\ export.left \subseteq Stored
      /\ export.from <= Len(file) /\ export.tip # None
  BY ArchiveFacts DEF FileAt, Stored
<1>3. /\ x \in Export /\ x.op = op /\ x.tip = export.tip /\ x.left = export.left
      /\ x.from = export.from /\ x.seen = None /\ x.from \in Nat
  BY <1>1, <1>2 DEF Export, None
<1> QED BY <1>1, <1>2, <1>3

(* An export goes on from a last line of its chain, and gives up at another.             *)
LEMMA CheckLastLineStep ==
    ASSUME IInv, CheckLastLine
    PROVE  IInv'
<1>1. PICK op \in {"none", "start"} : Goto(op) /\ (op = "start" => Last(file) \in Found)
  BY DEF CheckLastLine
<1>2. /\ UNCHANGED <<now, block, tip, miller, file, bare>> /\ export.op = "check" /\ Query
  BY DEF CheckLastLine
<1>3. ~split' => ~split /\ Found = ToSet(Path(export.tip))
  BY <1>2, FoundIs
<1>4. (split \/ OneChain(block, file, export)) /\ PathIn(block, export.tip) = Path(export.tip)
  BY <1>2, ArchiveFacts
<1>5. PICK x : x = export'
  OBVIOUS
<1>6. x.op = op /\ x.tip = export.tip
  BY <1>1, <1>2, <1>5, GotoIs
<1>7. ~split' => OneChain(block, file, x)
  BY <1>1, <1>3, <1>4, <1>6 DEF OneChain
<1>8. Running(export)
  BY <1>2 DEF Running
<1> QED BY <1>1, <1>2, <1>5, <1>7, <1>8, GotoIs, ExportStep

(* A block is written.                                                             *)
LEMMA WriteStep ==
    ASSUME IInv, UNCHANGED <<now, block, tip, miller, bare>>, Running(export),
           NEW b \in Stored, Write(b),
           ~split' => /\ ~split /\ b \in ToSet(Path(export.tip))
                      /\ block[b].prev = IF file = <<>> THEN None ELSE Last(file)
    PROVE  IInv'
<1>1. PICK f, g, x : f = file /\ g = Append(f, b) /\ file' = g /\ x = export'
  BY DEF Write
<1>2. /\ FileAt(block, f, export, bare) /\ LinesAt(f, export, bare) /\ f \in Seq(Nat)
      /\ split \/ OneChain(block, f, export)
      /\ PathIn(block, export.tip) = Path(export.tip)
  BY <1>1, ArchiveFacts DEF FileAt, Running
<1>3. /\ x \in Export /\ x.op = "written" /\ x.tip = export.tip
      /\ {x.tip, x.seen} \subseteq {None} \cup 1 .. Len(block)
      /\ x.left \subseteq 1 .. Len(block) /\ x.tip # None
      /\ x.from \in Nat /\ x.from <= Len(f)
  <2>1. Goto("written") /\ export.op # "none"
    BY DEF Write, Running
  <2> QED BY <1>1, <2>1, GotoIs DEF Stored
<1>4. b \in Nat /\ b \in 1 .. Len(block)
  BY DEF Stored
<1>5. /\ g \in Seq(Nat) /\ Len(f) \in Nat /\ Len(g) = Len(f) + 1 /\ g # <<>> /\ Last(g) = b
      /\ g[Len(f) + 1] = b /\ \A j \in 1 .. Len(f) : g[j] = f[j]
  <2>1. /\ g \in Seq(Nat) /\ Len(f) \in Nat /\ Len(g) = Len(f) + 1 /\ g[Len(g)] = b
        /\ g[Len(f) + 1] = b /\ \A j \in 1 .. Len(f) : g[j] = f[j]
    BY <1>1, <1>2, <1>4, Appended
  <2>2. g # <<>>
    BY <2>1
  <2> QED BY <2>1, <2>2 DEF Last
<1>6. FileAt(block, g, x, bare)
  <2>1. bare \subseteq 1 .. Len(g)
    BY <1>2, <1>5 DEF FileAt
  <2>2. ASSUME NEW j \in 1 .. Len(g) PROVE g[j] \in 1 .. Len(block)
    <3>1. j \in 1 .. Len(f) \/ j = Len(f) + 1
      BY <1>5
    <3> QED BY <1>2, <1>4, <1>5, <3>1 DEF FileAt
  <2>3. x.from <= Len(g)
    BY <1>3, <1>5
  <2> QED BY <1>3, <1>5, <2>1, <2>2, <2>3 DEF FileAt
<1>7. LinesAt(g, x, bare)
  <2>1. bare \subseteq 1 .. Len(f) /\ ~({Len(f) - 1, Len(f)} \subseteq bare)
        /\ \A i \in 1 .. Len(f) - 2 : ~({i, i + 1} \subseteq bare)
    BY <1>2 DEF FileAt, LinesAt
  <2>2. Len(f) + 1 \notin bare
    BY <1>5, <2>1
  <2>3. ASSUME NEW i \in 1 .. Len(g) - 2 PROVE ~({i, i + 1} \subseteq bare)
    <3>1. i \in 1 .. Len(f) - 2 \/ (i = Len(f) - 1 /\ i + 1 = Len(f))
      BY <1>5
    <3> QED BY <2>1, <3>1
  <2> QED BY <1>5, <2>2, <2>3 DEF LinesAt
<1>8. ASSUME ~split' PROVE OneChain(block, g, x)
  <2>1. /\ \A i \in 1 .. Len(f) : block[f[i]].prev = IF i = 1 THEN None ELSE f[i - 1]
        /\ b \in ToSet(Path(export.tip))
        /\ block[b].prev = IF f = <<>> THEN None ELSE Last(f)
    BY <1>1, <1>2, <1>8 DEF OneChain
  <2>2. ASSUME NEW j \in 1 .. Len(g)
        PROVE  block[g[j]].prev = IF j = 1 THEN None ELSE g[j - 1]
    <3>1. CASE j \in 1 .. Len(f)
      <4>1. j # 1 => j - 1 \in 1 .. Len(f)
        BY <1>5, <3>1
      <4>2. g[j] = f[j] /\ (j # 1 => g[j - 1] = f[j - 1])
        BY <1>5, <3>1, <4>1
      <4> QED BY <2>1, <3>1, <4>2
    <3>2. CASE j = Len(f) + 1
      <4>1. CASE f = <<>>
        <5>1. Len(f) = 0
          BY <4>1
        <5>2. j = 1
          BY <3>2, <5>1
        <5> QED BY <1>5, <2>1, <3>2, <4>1, <5>2
      <4>2. CASE f # <<>>
        <5>1. Len(f) \in 1 .. Len(f) /\ j # 1 /\ j - 1 = Len(f)
          BY <1>2, <1>5, <3>2, <4>2
        <5>2. g[j - 1] = f[Len(f)] /\ g[j] = b
          BY <1>5, <3>2, <5>1
        <5> QED BY <2>1, <4>2, <5>1, <5>2 DEF Last
      <4> QED BY <4>1, <4>2
    <3> QED BY <1>5, <3>1, <3>2
  <2> QED BY <1>2, <1>3, <1>5, <2>1, <2>2 DEF OneChain
<1>9. ArchiveAt(block, file', export', bare', split')
  BY <1>1, <1>6, <1>7, <1>8 DEF ArchiveAt
<1> QED BY <1>9, FileStep

(* The genesis, or the block after the last line, is found by its index.                  *)
LEMMA WriteFirstStep ==
    ASSUME IInv, WriteFirst
    PROVE  IInv'
<1>1. PICK p, index, hits :
         /\ p = Path(export.tip) /\ index = (IF file = <<>> THEN 0 ELSE Idx(Last(file)) + 1)
         /\ hits = {b \in Found : Idx(b) = index}
  OBVIOUS
<1>2. /\ UNCHANGED <<now, block, tip, miller, bare>> /\ export.op = "start" /\ Query
      /\ (\E b \in hits : Write(b)) \/ (hits = {} /\ Goto("done") /\ UNCHANGED file)
  BY <1>1 DEF WriteFirst
<1>3. Found \subseteq Stored /\ (~split' => ~split /\ Found = ToSet(p))
  BY <1>1, <1>2, FoundIs
<1>4. /\ Tree(block) /\ export.tip \in Stored /\ PathIn(block, export.tip) = p
      /\ split \/ OneChain(block, file, export)
  BY <1>1, <1>2, ArchiveFacts
<1>5. Running(export)
  BY <1>2 DEF Running
<1>6. ~split /\ file # <<>> => Last(file) \in ToSet(p)
  BY <1>2, <1>4 DEF OneChain
<1>7. /\ p[1] \in ToSet(p) /\ Idx(p[1]) = 0
      /\ \A c \in ToSet(p) : Idx(c) = 0 => block[c].prev = None
  <2>1. Leads(export.tip, p)
    BY <1>1, <1>4, ChainLeads
  <2>2. /\ Len(p) \in Nat \ {0} /\ ToSet(p) = {p[i] : i \in 1 .. Len(p)}
        /\ \A i \in 1 .. Len(p) : Idx(p[i]) = i - 1
                                  /\ block[p[i]].prev = IF i = 1 THEN None ELSE p[i - 1]
    BY <2>1 DEF Leads
  <2>3. 1 \in 1 .. Len(p) /\ Idx(p[1]) = 0
    BY <2>2
  <2>4. ASSUME NEW i \in 1 .. Len(p), Idx(p[i]) = 0 PROVE block[p[i]].prev = None
    <3>1. i = 1
      BY <2>2, <2>4
    <3> QED BY <2>2, <3>1
  <2> QED BY <2>2, <2>3, <2>4
<1>8. ASSUME NEW b \in hits, Write(b) PROVE IInv'
  <2>1. b \in Stored /\ b \in Found /\ Idx(b) = index
    BY <1>1, <1>3
  <2>2. ASSUME ~split'
        PROVE  /\ ~split /\ b \in ToSet(p)
               /\ block[b].prev = IF file = <<>> THEN None ELSE Last(file)
    <3>1. ~split /\ b \in ToSet(p)
      BY <1>3, <2>1, <2>2
    <3>2. CASE file = <<>>
      BY <1>1, <1>7, <2>1, <3>1, <3>2
    <3>3. CASE file # <<>>
      <4>1. PICK l : l = Last(file)
        OBVIOUS
      <4>2. l \in ToSet(p) /\ Idx(b) = Idx(l) + 1
        BY <1>1, <1>6, <2>1, <3>1, <3>3, <4>1
      <4>3. block[b].prev = l
        BY <1>1, <1>4, <3>1, <4>2, EndsThere
      <4> QED BY <3>1, <3>3, <4>1, <4>3
    <3> QED BY <3>2, <3>3
  <2>3. ~split' => /\ ~split /\ b \in ToSet(Path(export.tip))
                   /\ block[b].prev = IF file = <<>> THEN None ELSE Last(file)
    BY <1>1, <2>2
  <2> QED BY <1>2, <1>5, <1>8, <2>1, <2>3, WriteStep
<1>9. CASE hits = {} /\ Goto("done") /\ UNCHANGED file
  <2>1. PICK x : x = export'
    OBVIOUS
  <2>2. x.op = "done" /\ x.tip = export.tip
    BY <1>2, <1>9, <2>1, GotoIs
  <2>3. ASSUME ~split' PROVE file # <<>> /\ Last(file) = export.tip
    <3>1. ~split /\ Found = ToSet(p)
      BY <1>3, <2>3
    <3>2. file # <<>>
      BY <1>1, <1>7, <1>9, <3>1
    <3>3. PICK l : l = Last(file)
      OBVIOUS
    <3>4. l \in ToSet(p) /\ \A c \in ToSet(p) : Idx(c) # Idx(l) + 1
      BY <1>1, <1>6, <1>9, <3>1, <3>2, <3>3
    <3>5. l = export.tip
      BY <1>1, <1>4, <3>4, EndsThere
    <3> QED BY <3>2, <3>3, <3>5
  <2>4. ~split' => OneChain(block, file, x)
    BY <1>3, <1>4, <2>2, <2>3 DEF OneChain
  <2>5. Running(export') => Running(export)
    BY <1>5
  <2> QED BY <1>2, <1>9, <2>1, <2>4, <2>5, GotoIs, ExportStep
<1> QED BY <1>2, <1>8, <1>9

(* The child that is in the chain is among those an export goes on to try.                *)
LEMMA ReadChildrenStep ==
    ASSUME IInv, ReadChildren
    PROVE  IInv'
<1>1. PICK p, l, C, x :
         /\ p = Path(export.tip) /\ l = Last(file) /\ C = {c \in Stored : block[c].prev = l}
         /\ x = [export EXCEPT !.op = IF C = {} THEN "done" ELSE "next", !.left = C]
  OBVIOUS
<1>2. /\ UNCHANGED <<now, block, tip, miller, file, bare, split>> /\ export.op = "written"
      /\ export' = x
  BY <1>1 DEF ReadChildren
<1>3. /\ Tree(block) /\ export.tip \in Stored /\ PathIn(block, export.tip) = p
      /\ split \/ OneChain(block, file, export)
      /\ export \in Export /\ {export.tip, export.seen} \subseteq {None} \cup Stored
      /\ export.from <= Len(file) /\ export.tip # None
  BY <1>1, <1>2, ArchiveFacts DEF FileAt, Stored
<1>4. C \subseteq Stored /\ C \subseteq Nat /\ \A c \in ToSet(p) : c \in Stored
  <2>1. Leads(export.tip, p)
    BY <1>1, <1>3, ChainLeads
  <2> QED BY <1>1, <2>1 DEF Leads, Stored
<1>5. /\ x \in Export /\ x.op = (IF C = {} THEN "done" ELSE "next") /\ x.left = C
      /\ x.tip = export.tip /\ x.seen = export.seen /\ x.from = export.from
  BY <1>1, <1>3, <1>4 DEF Export
<1>6. ASSUME ~split PROVE OneChain(block, file, x)
  <2>1. /\ file # <<>> /\ l \in ToSet(p)
        /\ \A i \in 1 .. Len(file) : block[file[i]].prev = IF i = 1 THEN None ELSE file[i - 1]
    BY <1>1, <1>2, <1>3, <1>6 DEF OneChain
  <2>2. \A c \in ToSet(p) : block[c].prev = l => c \in C
    BY <1>1, <1>4
  <2>3. C = {} => l = export.tip
    BY <1>1, <1>3, <2>1, <2>2, EndsThere
  <2> QED BY <1>1, <1>3, <1>5, <2>1, <2>2, <2>3 DEF OneChain
<1>7. Running(export)
  BY <1>2 DEF Running
<1> QED BY <1>2, <1>3, <1>4, <1>5, <1>6, <1>7, ExportStep

(* A child is tried, and written if it is found.                                        *)
LEMMA WriteNextStep ==
    ASSUME IInv, WriteNext
    PROVE  IInv'
<1>1. PICK p : p = Path(export.tip)
  OBVIOUS
<1>2. UNCHANGED <<now, block, tip, miller, bare>> /\ export.op = "next" /\ Query
  BY DEF WriteNext
<1>3. PICK c \in export.left :
         IF c \in Found THEN Write(c)
         ELSE /\ export' = [export EXCEPT !.seen = None, !.left = @ \ {c},
                                          !.op = IF export.left = {c} THEN "done" ELSE "next"]
              /\ UNCHANGED file
  BY DEF WriteNext
<1>4. Found \subseteq Stored /\ (~split' => ~split /\ Found = ToSet(p))
  BY <1>1, <1>2, FoundIs
<1>5. /\ Tree(block) /\ export.tip \in Stored /\ PathIn(block, export.tip) = p
      /\ split \/ OneChain(block, file, export)
      /\ export \in Export /\ export.left \subseteq Stored
      /\ export.from <= Len(file) /\ export.tip # None
  BY <1>1, <1>2, ArchiveFacts DEF FileAt, Stored
<1>6. Running(export)
  BY <1>2 DEF Running
<1>7. PICK l : l = Last(file)
  OBVIOUS
<1>8. ASSUME ~split
      PROVE  /\ file # <<>> /\ l \in ToSet(p)
             /\ \A d \in export.left : block[d].prev = l
             /\ \A d \in ToSet(p) : block[d].prev = l => d \in export.left
             /\ \A i \in 1 .. Len(file) : block[file[i]].prev = IF i = 1 THEN None ELSE file[i - 1]
  BY <1>2, <1>5, <1>7, <1>8 DEF OneChain
<1>9. CASE c \in Found
  <2>1. ~split' => /\ ~split /\ c \in ToSet(Path(export.tip))
                   /\ block[c].prev = IF file = <<>> THEN None ELSE Last(file)
    BY <1>1, <1>4, <1>7, <1>8, <1>9
  <2>2. c \in Stored /\ Write(c)
    BY <1>3, <1>4, <1>9
  <2> QED BY <1>2, <1>6, <2>1, <2>2, WriteStep
<1>10. CASE c \notin Found
  <2>1. PICK x : /\ x = [export EXCEPT !.seen = None, !.left = @ \ {c},
                                       !.op = IF export.left = {c} THEN "done" ELSE "next"]
                 /\ export' = x /\ UNCHANGED file
    BY <1>3, <1>10
  <2>2. /\ x \in Export /\ x.op = (IF export.left = {c} THEN "done" ELSE "next")
        /\ x.left = export.left \ {c} /\ x.tip = export.tip /\ x.seen = None
        /\ x.from = export.from
    BY <1>5, <2>1 DEF Export, None
  <2>3. ASSUME ~split' PROVE OneChain(block, file, x)
    <3>1. ~split /\ c \notin ToSet(p)
      BY <1>4, <1>10, <2>3
    <3>2. \A d \in ToSet(p) : block[d].prev = l => d \in x.left
      BY <1>8, <2>2, <3>1
    <3>3. export.left = {c} => l = export.tip
      <4>1. export.left = {c} => \A d \in ToSet(p) : block[d].prev # l
        BY <2>2, <3>2
      <4> QED BY <1>1, <1>5, <1>8, <3>1, <4>1, EndsThere
    <3> QED BY <1>5, <1>7, <1>8, <2>2, <3>1, <3>2, <3>3 DEF OneChain
  <2>4. {x.tip, x.seen} \subseteq {None} \cup Stored /\ x.left \subseteq Stored
    BY <1>5, <2>2
  <2> QED BY <1>2, <1>5, <1>6, <2>1, <2>2, <2>3, <2>4, ExportStep
<1> QED BY <1>9, <1>10

(* What is left of a file is the first blocks of it; the last may have lost its newline.    *)
LEMMA KillExportStep ==
    ASSUME IInv, KillExport
    PROVE  IInv'
<1>1. PICK n, g, bar, x :
         /\ n \in export.from .. Len(file) /\ g = SubSeq(file, 1, n) /\ file' = g /\ bare' = bar
         /\ (bare \cap 1 .. n) \subseteq bar /\ bar \subseteq (bare \cap 1 .. n) \cup {n}
         /\ n \in bar => n \in bare \/ n > export.from
         /\ x = [export EXCEPT !.op = "none", !.tip = None, !.seen = None, !.left = {}, !.from = 0]
         /\ export' = x
  <2>1. PICK n \in export.from .. Len(file), cut \in {"line", "block", "newline"} :
           /\ file' = SubSeq(file, 1, n)
           /\ cut = "newline" => n > export.from
           /\ bare' = (bare \cap 1 .. n) \cup (IF cut = "newline" THEN {n} ELSE {})
    BY DEF KillExport
  <2>2. export' = [export EXCEPT !.op = "none", !.tip = None, !.seen = None, !.left = {}, !.from = 0]
    BY DEF KillExport
  <2>3. PICK g, bar, x : g = file' /\ bar = bare' /\ x = export'
    OBVIOUS
  <2>4. /\ (bare \cap 1 .. n) \subseteq bar /\ bar \subseteq (bare \cap 1 .. n) \cup {n}
        /\ n \in bar => n \in bare \/ n > export.from
    BY <2>1, <2>3
  <2> QED BY <2>1, <2>2, <2>3, <2>4
<1>2. UNCHANGED <<now, block, tip, miller, split>>
  BY DEF KillExport
<1>3. /\ FileAt(block, file, export, bare) /\ LinesAt(file, export, bare)
      /\ split \/ OneChain(block, file, export)
      /\ file \in Seq(Nat) /\ export \in Export /\ export.from \in Nat /\ Len(file) \in Nat
  BY ArchiveFacts DEF FileAt, Export
<1>4. n \in Nat /\ n <= Len(file) /\ n >= export.from
  <2>1. n \in export.from .. Len(file)
    BY <1>1
  <2> QED BY <1>3, <2>1
<1>5. g \in Seq(Nat) /\ Len(g) = n /\ \A i \in 1 .. n : g[i] = file[i] /\ i \in 1 .. Len(file)
  <2>1. g = SubSeq(file, 1, n) /\ file \in Seq(Nat) /\ Len(file) \in Nat
    BY <1>1, <1>3
  <2> QED BY <1>4, <2>1
<1>6. /\ x \in Export /\ x.op = "none" /\ x.tip = None /\ x.seen = None /\ x.left = {} /\ x.from = 0
  BY <1>1, <1>3 DEF Export, None
<1>7. FileAt(block, g, x, bar)
  <2>1. bar \subseteq 1 .. n
    <3>1. n \in bar => n \in 1 .. n
      BY <1>1, <1>3, <1>4 DEF FileAt
    <3> QED BY <1>1, <3>1
  <2>2. \A i \in 1 .. Len(g) : g[i] \in 1 .. Len(block)
    BY <1>3, <1>5 DEF FileAt
  <2>3. x.from <= Len(g)
    BY <1>4, <1>5, <1>6
  <2> QED BY <1>5, <1>6, <2>1, <2>2, <2>3 DEF FileAt
<1>8. LinesAt(g, x, bar)
  <2>1. ASSUME NEW i \in 1 .. Len(g) - 2 PROVE ~({i, i + 1} \subseteq bar)
    <3>1. i \in 1 .. Len(file) - 2 /\ i # n /\ i + 1 # n
      BY <1>3, <1>4, <1>5
    <3>2. ~({i, i + 1} \subseteq bare)
      BY <1>3, <3>1 DEF LinesAt
    <3> QED BY <1>1, <3>1, <3>2
  <2> QED BY <1>6, <2>1 DEF LinesAt, Running
<1>9. ASSUME OneChain(block, file, export) PROVE OneChain(block, g, x)
  <2>1. \A i \in 1 .. n : i # 1 => g[i - 1] = file[i - 1]
    <3> SUFFICES ASSUME NEW i \in 1 .. n, i # 1 PROVE g[i - 1] = file[i - 1]
      OBVIOUS
    <3>1. i - 1 \in 1 .. n
      BY <1>4
    <3> QED BY <1>5, <3>1
  <2>2. \A i \in 1 .. Len(g) : block[g[i]].prev = IF i = 1 THEN None ELSE g[i - 1]
    BY <1>5, <1>9, <2>1 DEF OneChain
  <2> QED BY <1>6, <2>2 DEF OneChain
<1>10. ArchiveAt(block, file', export', bare', split')
  BY <1>1, <1>2, <1>3, <1>7, <1>8, <1>9 DEF ArchiveAt
<1> QED BY <1>2, <1>10, FileStep

LEMMA NextIInv == IInv /\ [Next]_vars => IInv'
<1> SUFFICES ASSUME IInv, [Next]_vars PROVE IInv'
  OBVIOUS
<1>1. CASE Tick
  BY <1>1, TickStep
<1>2. ASSUME NEW prev \in {None} \cup Stored, NEW time \in Instants,
             NEW canonical \in {None} \cup Stored, PeerBlock(prev, time, canonical)
      PROVE  IInv'
  BY <1>2, PeerBlockStep
<1>3. ASSUME NEW w \in Miller, Link(w) \/ Seal(w) \/ Round(w) \/ Check(w) \/ Submit(w)
      PROVE  IInv'
  BY <1>3, LinkStep, SealStep, SearchStep, SubmitStep
<1>4. CASE StartExport \/ Walk \/ CheckLastLine
  BY <1>4, StartExportStep, WalkStep, CheckLastLineStep
<1>5. CASE WriteFirst \/ ReadChildren \/ WriteNext
  BY <1>5, WriteFirstStep, ReadChildrenStep, WriteNextStep
<1>6. CASE KillExport
  BY <1>6, KillExportStep
<1>7. CASE UNCHANGED vars
  <2>1. UNCHANGED <<now, block, tip, miller>> /\ UNCHANGED <<file, export, bare, split>>
    BY <1>7 DEF vars, archive
  <2>2. ArchiveAt(block, file', export', bare', split')
    BY <2>1, Basics
  <2> QED BY <2>1, <2>2, FileStep
<1> QED BY <1>1, <1>2, <1>3, <1>4, <1>5, <1>6, <1>7 DEF Next

(* The tree of blocks, the templates the millers hold and the archive are what the        *)
(* strengthening says, whatever the clock, the peers, the millers and the exports do      *)
(* (chain.py:114-244, miller.py:79-138, command.py:467-515).                           *)
THEOREM MillingIsInductive == Spec => []IInv
<1>1. Init => IInv
  BY InitIInv
<1>2. IInv /\ [Next]_vars => IInv'
  BY NextIInv
<1> QED BY <1>1, <1>2, PTL DEF Spec

-----------------------------------------------------------------------------
(* What follows from it.                                                         *)

LEMMA AgreesWithEveryChain ==
    ASSUME Tree(block), NEW chain \in Stored, NEW canonical \in Stored, NEW row,
           NEW b \in ToSet(Path(chain))
    PROVE  BlockTarget(chain, canonical, row, block[b].idx) = block[b].target
<1>1. PICK p : p = Path(chain)
  OBVIOUS
<1>2. Leads(chain, p)
  BY <1>1, ChainLeads
<1>3. PICK i \in 1 .. Len(p) : b = p[i]
  BY <1>1, <1>2 DEF Leads
<1>4. PICK n : n = i - 1
  OBVIOUS
<1>5. /\ chain \in {None} \cup Stored /\ canonical \in {None} \cup Stored
      /\ chain # None /\ chain \in 1 .. Len(block) /\ p = block[chain].chain
  <2>1. chain \in 1 .. Len(block) /\ chain # None
    BY DEF Stored, None
  <2> QED BY <1>1, <2>1 DEF Path
<1>6. ChainIn(block, p)
  <2>1. ChainOK(block, chain)
    BY <1>5 DEF Tree
  <2> QED BY <1>5, <2>1 DEF ChainOK
<1>7. /\ b \in 1 .. Len(block) /\ block[b].idx = n
      /\ \A j \in 1 .. i : block[b].chain[j] = p[j]
  BY <1>3, <1>4, <1>6 DEF ChainIn
<1>8. n \in Nat /\ n <= Idx(chain) + 1 /\ \A j \in 1 .. n : j \in 1 .. i
  <2>1. Len(p) = Idx(chain) + 1 /\ Len(p) \in Nat
    BY <1>2 DEF Leads
  <2>2. n \in Nat /\ n <= Len(p) /\ \A j \in 1 .. n : j \in 1 .. i
    BY <1>4, <2>1
  <2> QED BY <2>1, <2>2
<1>9. BlockTarget(chain, canonical, row, n) = PathTarget(block, p, n)
  <2>1. n \in Nat /\ n <= Idx(chain) + 1
    BY <1>8
  <2>2. BlockTarget(chain, canonical, row, n) = PathTarget(block, Path(chain), n)
    BY <1>5, <2>1, BlockTargetIs
  <2> QED BY <1>1, <2>2
<1>10. PICK q : q = block[b].chain
  OBVIOUS
<1>11. block[b].target = PathTarget(block, q, n)
  <2>1. TargetOK(block, b)
    BY <1>7 DEF Tree
  <2> QED BY <1>7, <1>10, <2>1 DEF TargetOK
<1>12. SameUpTo(block, q, block, p, n)
  BY <1>7, <1>8, <1>10 DEF SameUpTo
<1>13. PathTarget(block, p, n) = PathTarget(block, q, n)
  BY <1>8, <1>12, PathTargetSame
<1> QED BY <1>7, <1>9, <1>11, <1>13

(* Every node computes the target of a stored block that the node computed which      *)
(* accepted it, whichever of the chains above it asks, with a row or without, and     *)
(* whichever tip is canonical (chain.py:135-176, 203-215, models.py:454-486).         *)
THEOREM TargetsAreAgreed == Spec => []TargetsAgree
<1>1. IInv => TargetsAgree
  <2> SUFFICES ASSUME IInv, NEW chain \in Stored, NEW canonical \in Stored, NEW row \in BOOLEAN,
                      NEW b \in ToSet(Path(chain))
               PROVE  BlockTarget(chain, canonical, row, block[b].idx) = block[b].target
    BY DEF TargetsAgree
  <2>1. Tree(block)
    BY Basics
  <2> QED BY <2>1, AgreesWithEveryChain
<1> QED BY <1>1, MillingIsInductive, PTL

LEMMA FollowsTime ==
    ASSUME Tree(block), NEW b \in Stored, block[b].idx > 0,
           NEW prev, prev = block[block[b].prev],
           NEW first, first = Path(b)[block[b].idx - Interval + 1],
           NEW seconds, seconds = prev.time - block[first].time
    PROVE  IF block[b].idx % Interval # 0 THEN block[b].target = prev.target
           ELSE /\ seconds <= IntervalSeconds => block[b].target <= prev.target
                /\ seconds >= IntervalSeconds => block[b].target >= prev.target
                /\ block[b].target <= 4 * prev.target
                /\ 4 * block[b].target > prev.target - 4
<1>1. PICK p, n, r : p = Path(b) /\ n = block[b].idx /\ r = block[b].target
  OBVIOUS
<1>2. Leads(b, p) /\ b \in 1 .. Len(block) /\ b # None
  BY <1>1, ChainLeads DEF Stored, None
<1>3. p = block[b].chain /\ Idx(b) = n
  BY <1>1, <1>2 DEF Path, Idx
<1>4. n \in Nat \ {0} /\ Len(p) = n + 1 /\ Interval \in Nat \ {0}
  <2>1. block[b] \in Entry
    BY <1>2 DEF Tree
  <2>2. n \in Nat
    BY <1>1, <2>1 DEF Entry
  <2>3. Len(p) = n + 1
    BY <1>2, <1>3 DEF Leads
  <2> QED BY <1>1, <2>2, <2>3, TargetAssumption
<1>5. block[b].prev = p[n]
  <2>1. Len(p) \in 1 .. Len(p) /\ Len(p) # 1 /\ Len(p) - 1 = n
    BY <1>4
  <2>2. p[Len(p)] = b
    BY <1>2 DEF Leads
  <2>3. block[p[Len(p)]].prev = p[Len(p) - 1]
    BY <1>2, <2>1 DEF Leads
  <2> QED BY <2>1, <2>2, <2>3
<1>6. \A i \in 1 .. Len(p) : /\ block[p[i]].time \in Nat /\ block[p[i]].target \in Nat
                             /\ block[p[i]].target <= MaxTarget
  <2>1. \A c \in 1 .. Len(block) : /\ block[c].time \in Nat /\ block[c].target \in Nat
                                   /\ block[c].target <= MaxTarget
    <3>1. \A c \in 1 .. Len(block) : block[c] \in Entry /\ TargetOK(block, c)
      BY DEF Tree
    <3> QED BY <3>1 DEF Entry, TargetOK
  <2>2. \A i \in 1 .. Len(p) : p[i] \in 1 .. Len(block)
    BY <1>2 DEF Leads, Stored
  <2> QED BY <2>1, <2>2
<1>7. r = PathTarget(block, p, n)
  <2>1. TargetOK(block, b)
    BY <1>2 DEF Tree
  <2> QED BY <1>1, <1>3, <2>1 DEF TargetOK
<1>8. n \in 1 .. Len(p) /\ prev = block[p[n]]
  BY <1>4, <1>5
<1>9. CASE n % Interval # 0
  <2>1. PathTarget(block, p, n) = block[p[n]].target
    BY <1>4, <1>9 DEF PathTarget
  <2>2. r = prev.target
    BY <1>7, <1>8, <2>1
  <2> QED BY <1>1, <1>9, <2>2
<1>10. CASE n % Interval = 0
  <2>1. Interval <= n
    BY <1>4, <1>10, FirstMultiple
  <2>2. n - Interval + 1 \in 1 .. Len(p) /\ first = p[n - Interval + 1]
    <3>1. n - Interval + 1 \in 1 .. Len(p)
      BY <1>4, <2>1
    <3>2. first = p[n - Interval + 1]
      BY <1>1
    <3> QED BY <3>1, <3>2
  <2>3. seconds = prev.time - block[p[n - Interval + 1]].time
    BY <2>2
  <2>4. PICK t : t = prev.target
    OBVIOUS
  <2>5. seconds \in Int /\ t \in Nat /\ t <= MaxTarget
    <3>1. prev.time \in Nat /\ t \in Nat /\ t <= MaxTarget
      BY <1>6, <1>8, <2>4
    <3>2. block[p[n - Interval + 1]].time \in Nat
      BY <1>6, <2>2
    <3> QED BY <2>3, <3>1, <3>2
  <2>6. r = Retarget(t, seconds)
    <3>1. PathTarget(block, p, n)
            = Retarget(block[p[n]].target, block[p[n]].time - block[p[n - Interval + 1]].time)
      BY <1>4, <1>10 DEF PathTarget
    <3> QED BY <1>7, <1>8, <2>3, <2>4, <3>1
  <2>7. Retargeted(t, seconds, r)
    BY <2>5, <2>6, RetargetBounds
  <2> QED BY <1>1, <1>10, <2>4, <2>7 DEF Retargeted
<1> QED BY <1>9, <1>10

(* Between two retargetings the target stays, and at one it follows the time its        *)
(* interval took, by a factor of 4 at most (chain.py:159-174).                       *)
THEOREM TargetsFollowTime == Spec => []RetargetFollowsTime
<1>1. IInv => RetargetFollowsTime
  <2> SUFFICES ASSUME IInv PROVE RetargetFollowsTime
    OBVIOUS
  <2>1. Tree(block)
    BY Basics
  <2> QED BY <2>1, FollowsTime DEF RetargetFollowsTime
<1> QED BY <1>1, MillingIsInductive, PTL

LEMMA StaysValid ==
    ASSUME IInv, NEW w \in Miller, NEW m, m = miller[w],
           m.op \in {"milling", "tired", "solved", "submit"}, m.prev = None => block = <<>>
    PROVE  Valid(Block(m))
<1>1. MillerAt(block, now, m) /\ Tree(block) /\ tip \in {None} \cup Stored
  BY Basics DEF Stored
<1>2. m \in Sealed /\ Template(block, m) /\ OnTime(block, now, m)
  BY <1>1 DEF MillerAt, Idle, Linked
<1>3. PICK a, p, n, row :
         a = m.prev /\ p = PathIn(block, a) /\ n = Idx(a) + 1 /\ row = HasRow(a)
  OBVIOUS
<1>4. a \in {None} \cup Stored /\ m.idx = Len(p) /\ m.target = PathTarget(block, p, Len(p))
  BY <1>2, <1>3 DEF Template, Stored
<1>5. n = Len(p) /\ BlockTarget(a, tip, row, n) = PathTarget(block, p, Len(p))
  <2>1. Tree(block) /\ tip \in {None} \cup Stored /\ a \in {None} \cup Stored
    BY <1>1, <1>4
  <2>2. p = PathIn(block, a) /\ n = Idx(a) + 1
    BY <1>3
  <2> QED BY <2>1, <2>2, NextTarget
<1>6. PICK b : b = Block(m)
  OBVIOUS
<1>7. b.prev = a /\ b.idx = n /\ b.time = m.time /\ b.target = BlockTarget(a, tip, row, n)
  BY <1>3, <1>4, <1>5, <1>6 DEF Block
<1>8. b.time <= now /\ (a # None => block[a].time <= b.time)
  BY <1>2, <1>3, <1>7 DEF OnTime
<1>9. a # None => b.time >= block[a].time
  <2>1. m.time \in Nat
    BY <1>2 DEF Sealed
  <2>2. a # None => block[a].time \in Nat
    <3>1. a # None => block[a] \in Entry
      BY <1>1, <1>4 DEF Tree, Stored
    <3> QED BY <3>1 DEF Entry
  <2> QED BY <1>7, <1>8, <2>1, <2>2
<1>10. Valid(b)
  BY <1>3, <1>4, <1>7, <1>8, <1>9 DEF Valid
<1> QED BY <1>6, <1>10

(* A miller's work is not lost to its own node: what is sealed on a chain stays valid    *)
(* through every block and reorganisation that comes while it is milled                *)
(* (miller.py:79-138, chain.py:216-244).                                            *)
THEOREM SealedBlocksStayValid == Spec => []SealedStaysValid
<1>1. IInv => SealedStaysValid
  <2> SUFFICES ASSUME IInv PROVE SealedStaysValid
    OBVIOUS
  <2> QED BY StaysValid DEF SealedStaysValid
<1> QED BY <1>1, MillingIsInductive, PTL

(* However often the export command is started, killed and started again while the      *)
(* chain is reorganised, the archive is one chain from a genesis and a finished export   *)
(* has written the chain it took up to its tip, unless a reorganisation came between the  *)
(* two statements of a lookup; and no line holds more than two blocks                   *)
(* (command.py:482-511, 146-154).                                                   *)
THEOREM ArchivesAreChains == Spec => []ArchiveIsAChain
<1>1. IInv => ArchiveIsAChain
  <2> SUFFICES ASSUME IInv PROVE ArchiveIsAChain
    OBVIOUS
  <2>1. LinesAt(file, export, bare) /\ (split \/ OneChain(block, file, export))
    BY Basics DEF ArchiveAt
  <2>2. ~split => /\ \A i \in 1 .. Len(file) :
                        block[file[i]].prev = IF i = 1 THEN None ELSE file[i - 1]
                  /\ export.op = "done" => Last(file) = export.tip
    BY <2>1 DEF OneChain
  <2> QED BY <2>1, <2>2 DEF ArchiveIsAChain, LinesAt
<1> QED BY <1>1, MillingIsInductive, PTL
=============================================================================
