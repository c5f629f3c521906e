------------------------------- MODULE Lemmas -------------------------------
(***************************************************************************)
(* Facts about loops, finite sets and sums that the proofs share.  A loop over *)
(* a sequence is, in the other modules, a function f on 0 .. n with f[i] given *)
(* by f[i - 1]; the lemmas say that there is such a function and what holds    *)
(* of its values.  They are stated over sets and functions, not operators, so  *)
(* that the provers can use them.                                           *)
(***************************************************************************)
EXTENDS Integers, Functions, FiniteSets, FiniteSetTheorems, WellFoundedInduction,
        NaturalsInduction, TLAPS

(* A set of numbers that holds 0 and, with a number below n, the next, holds   *)
(* every number up to n: induction for the loops that the folds stand for.      *)
LEMMA InductionUpTo ==
    ASSUME NEW n \in Nat, NEW D, 0 \in D, \A i \in 1 .. n : i - 1 \in D => i \in D
    PROVE  0 .. n \subseteq D
<1> DEFINE Less == OpToRel(<, Nat)
           Missing == {i \in 0 .. n : i \notin D}
<1>1. IsWellFoundedOn(Less, Nat)
  BY NatLessThanWellFounded
<1>2. \A i, j \in Nat : <<i, j>> \in Less <=> i < j
  BY DEF OpToRel
<1> HIDE DEF Less
<1>3. SUFFICES ASSUME Missing # {} PROVE FALSE
  OBVIOUS
<1>4. Missing \subseteq Nat
  OBVIOUS
<1> HIDE DEF Missing
<1>5. PICK x \in Missing : \A y \in Missing : <<y, x>> \notin Less
  BY <1>1, <1>3, <1>4, WFMin, Zenon
<1>6. x \in 1 .. n /\ x \notin D
  BY <1>5 DEF Missing
<1>7. x - 1 \in Missing
  BY <1>6 DEF Missing
<1>8. <<x - 1, x>> \in Less
  BY <1>2, <1>4, <1>6, <1>7
<1> QED BY <1>5, <1>7, <1>8, Zenon

(* A loop of n rounds over states of A, and its histories.                     *)
IsLoop(n, A, base, step) == n \in Nat /\ base \in A /\ step \in [1 .. n -> [A -> A]]

Histories(n, A, base, step) ==
    {f \in [0 .. n -> A] : f[0] = base /\ \A i \in 1 .. n : f[i] = step[i][f[i - 1]]}

(* A loop has a history: each round's state follows from the last.             *)
LEMMA LoopHasHistory ==
    ASSUME NEW n, NEW A, NEW base, NEW step, IsLoop(n, A, base, step)
    PROVE  \E f : f \in Histories(n, A, base, step)
<1> USE DEF IsLoop
<1> DEFINE Is(f, m) == f[0] = base /\ \A i \in 1 .. m : f[i] = step[i][f[i - 1]]
           D == {m \in 0 .. n : \E f \in [0 .. m -> A] : Is(f, m)}
<1>1. 0 \in D
  <2>1. [i \in 0 .. 0 |-> base] \in [0 .. 0 -> A] /\ Is([i \in 0 .. 0 |-> base], 0)
    OBVIOUS
  <2> HIDE DEF Is
  <2>2. \E f \in [0 .. 0 -> A] : Is(f, 0)
    BY <2>1, Zenon
  <2> QED BY <2>2
<1>2. ASSUME NEW m \in 1 .. n, m - 1 \in D PROVE m \in D
  <2>1. PICK f \in [0 .. m - 1 -> A] : Is(f, m - 1)
    BY <1>2
  <2> DEFINE g == [i \in 0 .. m |-> IF i = m THEN step[m][f[m - 1]] ELSE f[i]]
  <2>2. \A i \in 0 .. m - 1 : g[i] = f[i]
    OBVIOUS
  <2>3. g[m] = step[m][f[m - 1]]
    OBVIOUS
  <2>4. g \in [0 .. m -> A]
    <3>1. step[m] \in [A -> A] /\ f[m - 1] \in A
      OBVIOUS
    <3>2. step[m][f[m - 1]] \in A
      BY <3>1
    <3>3. \A i \in 0 .. m : i # m => f[i] \in A
      OBVIOUS
    <3> QED BY <3>2, <3>3
  <2> HIDE DEF g
  <2>5. \A i \in 1 .. m : g[i] = step[i][g[i - 1]]
    <3> TAKE i \in 1 .. m
    <3>1. CASE i = m
      BY <2>2, <2>3, <3>1
    <3>2. CASE i # m
      <4>1. i \in 1 .. m - 1 /\ i \in 0 .. m - 1 /\ i - 1 \in 0 .. m - 1
        BY <3>2
      <4>2. f[i] = step[i][f[i - 1]]
        BY <2>1, <4>1
      <4> QED BY <2>2, <4>1, <4>2
    <3> QED BY <3>1, <3>2
  <2>6. g[0] = base
    BY <2>1, <2>2
  <2>7. Is(g, m)
    BY <2>5, <2>6
  <2> HIDE DEF Is
  <2>8. \E h \in [0 .. m -> A] : Is(h, m)
    BY <2>4, <2>7, Zenon
  <2> QED BY <2>8
<1>3. 0 .. n \subseteq D
  <2> HIDE DEF D
  <2> QED BY <1>1, <1>2, InductionUpTo
<1>4. PICK f \in [0 .. n -> A] : Is(f, n)
  BY <1>3
<1> QED BY <1>4 DEF Histories

(* What holds at the start of a loop and is kept by every round holds at its end. *)
LEMMA LoopInvariant ==
    ASSUME NEW n \in Nat, NEW A, NEW f \in [0 .. n -> A], NEW J,
           f[0] \in J, \A i \in 1 .. n : f[i - 1] \in J => f[i] \in J
    PROVE  f[n] \in J
<1> DEFINE D == {i \in 0 .. n : f[i] \in J}
<1>1. 0 \in D /\ \A i \in 1 .. n : i - 1 \in D => i \in D
  OBVIOUS
<1>2. 0 .. n \subseteq D
  <2> HIDE DEF D
  <2> QED BY <1>1, InductionUpTo
<1> QED BY <1>2

-----------------------------------------------------------------------------
(* A function has no more values than arguments.                              *)
LEMMA ImageIsNoLarger ==
    ASSUME NEW f, IsFiniteSet(DOMAIN f)
    PROVE  IsFiniteSet(Range(f)) /\ Cardinality(Range(f)) <= Cardinality(DOMAIN f)
<1>1. [x \in DOMAIN f |-> f[x]] \in Surjection(DOMAIN f, Range(f))
  BY DEF Surjection, Range
<1> QED BY <1>1, FS_Surjection

(* A union is no larger than its parts together.                              *)
LEMMA UnionIsNoLarger ==
    ASSUME NEW S, NEW T, IsFiniteSet(S), IsFiniteSet(T)
    PROVE  /\ IsFiniteSet(S \cup T)
           /\ Cardinality(S \cup T) <= Cardinality(S) + Cardinality(T)
<1>1. IsFiniteSet(S \cap T)
  BY FS_Subset
<1>2. Cardinality(S) \in Nat /\ Cardinality(T) \in Nat /\ Cardinality(S \cap T) \in Nat
  BY <1>1, FS_CardinalityType
<1>3. Cardinality(S \cup T) = Cardinality(S) + Cardinality(T) - Cardinality(S \cap T)
  BY FS_Union
<1>4. IsFiniteSet(S \cup T)
  BY FS_Union
<1> QED BY <1>2, <1>3, <1>4

(* A finite set has a first element under a strict total order, given as a set    *)
(* of pairs.                                                                 *)
LEMMA FirstExists ==
    ASSUME NEW S, IsFiniteSet(S), S # {}, NEW R,
           \A a, b \in S : a = b \/ <<a, b>> \in R \/ <<b, a>> \in R,
           \A a, b, c \in S : <<a, b>> \in R /\ <<b, c>> \in R => <<a, c>> \in R
    PROVE  \E a \in S : \A b \in S : a = b \/ <<a, b>> \in R
<1> DEFINE n == Cardinality(S)
<1>1. n \in Nat \ {0}
  BY FS_CardinalityType, FS_EmptySet
<1>2. PICK f \in [1 .. n -> S] : \A s \in S : \E i \in 1 .. n : f[i] = s
  <2>1. PICK f : f \in Bijection(1 .. n, S)
    BY FS_CardinalityType DEF ExistsBijection
  <2> QED BY <2>1 DEF Bijection, Surjection, Injection
<1> HIDE DEF n
<1> DEFINE Leads(k, i) == \A l \in 1 .. i : f[k] = f[l] \/ <<f[k], f[l]>> \in R
           D == {i \in 0 .. n : i = 0 \/ \E k \in 1 .. i : Leads(k, i)}
<1>3. ASSUME NEW i \in 1 .. n, i - 1 \in D PROVE i \in D
  <2>1. CASE i = 1
    <3>1. Leads(1, 1)
      BY <1>1
    <3>2. 1 \in 1 .. 1 /\ 1 \in 0 .. n
      BY <1>1
    <3> HIDE DEF Leads
    <3>3. \E k \in 1 .. 1 : Leads(k, 1)
      BY <3>1, <3>2, Zenon
    <3> QED BY <2>1, <3>2, <3>3
  <2>2. CASE i # 1
    <3>1. PICK k \in 1 .. i - 1 : Leads(k, i - 1)
      <4> HIDE DEF Leads
      <4> QED BY <1>3, <2>2
    <3>2. k \in 1 .. n /\ i \in 1 .. n /\ f[k] \in S /\ f[i] \in S
      BY <1>1
    <3>3. \A l \in 1 .. i : l \in 1 .. i - 1 \/ l = i
      OBVIOUS
    <3>4. CASE f[k] = f[i] \/ <<f[k], f[i]>> \in R
      <4>1. Leads(k, i) /\ k \in 1 .. i
        BY <3>1, <3>3, <3>4
      <4> HIDE DEF Leads
      <4> QED BY <4>1
    <3>5. CASE <<f[i], f[k]>> \in R
      <4>1. ASSUME NEW l \in 1 .. i - 1 PROVE <<f[i], f[l]>> \in R
        <5>1. l \in 1 .. n /\ f[l] \in S /\ (f[k] = f[l] \/ <<f[k], f[l]>> \in R)
          BY <3>1, <1>1
        <5> QED BY <3>2, <3>5, <5>1
      <4>2. Leads(i, i) /\ i \in 1 .. i
        BY <3>3, <4>1
      <4> HIDE DEF Leads
      <4> QED BY <4>2
    <3> QED BY <3>2, <3>4, <3>5
  <2> QED BY <2>1, <2>2
<1>4. 0 \in D
  BY <1>1
<1>5. 0 .. n \subseteq D
  <2> HIDE DEF D
  <2> QED BY <1>1, <1>3, <1>4, InductionUpTo
<1>6. PICK k \in 1 .. n : Leads(k, n)
  <2>1. n \in 0 .. n /\ n # 0
    BY <1>1
  <2> HIDE DEF Leads
  <2>2. n \in D
    BY <1>5, <2>1
  <2> QED BY <2>1, <2>2
<1>7. \A b \in S : f[k] = b \/ <<f[k], b>> \in R
  BY <1>2, <1>6
<1> QED BY <1>7

(* The greatest element of a set of numbers bounded by n.                    *)
LEMMA GreatestExists ==
    ASSUME NEW n \in Nat, NEW K, K \subseteq 0 .. n, 0 \in K
    PROVE  \E k \in K : \A j \in K : j <= k
<1> DEFINE D == {n - k : k \in K}
           Less == {ss \in Nat \X Nat : ss[1] < ss[2]}
<1>1. D \subseteq Nat /\ D # {}
  OBVIOUS
<1>2. IsWellFoundedOn(Less, Nat)
  BY NatLessThanWellFounded DEF OpToRel
<1> HIDE DEF D
<1>3. PICK x \in D : \A y \in D : <<y, x>> \notin Less
  <2> HIDE DEF Less
  <2> QED BY <1>1, <1>2, WFMin
<1>4. \A y \in D : ~(y < x)
  BY <1>1, <1>3
<1> USE DEF D
<1>5. PICK k \in K : x = n - k
  BY <1>3
<1>6. ASSUME NEW j \in K PROVE j <= k
  <2>1. n - j \in D
    OBVIOUS
  <2>2. ~(n - j < n - k)
    BY <2>1, <1>4, <1>5
  <2> QED BY <2>2
<1> QED BY <1>6

-----------------------------------------------------------------------------
(* Sums over finite sets (SumFunctionOnSet of the community modules).           *)

(* A set that holds the empty set and, with a part of S, that part and one       *)
(* element more of S, holds S: induction over a finite set.                     *)
LEMMA FiniteInduction ==
    ASSUME NEW S, IsFiniteSet(S), NEW D, {} \in D,
           \A T \in SUBSET S : \A x \in S \ T : T \in D => T \cup {x} \in D
    PROVE  S \in D
<1>n. PICK n : n = Cardinality(S)
  OBVIOUS
<1>1. n \in Nat
  BY <1>n, FS_CardinalityType
<1>2. PICK f : f \in Bijection(1 .. n, S)
  BY <1>n, FS_CardinalityType DEF ExistsBijection
<1>3. /\ f \in [1 .. n -> S] /\ \A s \in S : \E i \in 1 .. n : f[i] = s
      /\ \A i, j \in 1 .. n : f[i] = f[j] => i = j
  BY <1>2 DEF Bijection, Surjection, Injection, IsInjective
<1> DEFINE First(i) == {f[j] : j \in 1 .. i}
           E == {i \in 0 .. n : First(i) \in D}
<1>4. 0 \in E
  <2>1. First(0) = {}
    OBVIOUS
  <2>2. 0 \in 0 .. n
    BY <1>1
  <2> HIDE DEF First
  <2> QED BY <2>1, <2>2
<1>5. ASSUME NEW i \in 1 .. n, i - 1 \in E PROVE i \in E
  <2>1. First(i) = First(i - 1) \cup {f[i]}
    <3>1. 1 .. i = (1 .. i - 1) \cup {i}
      BY <1>1
    <3> QED BY <3>1
  <2>2. First(i - 1) \in SUBSET S /\ f[i] \in S \ First(i - 1)
    BY <1>1, <1>3
  <2>3. First(i - 1) \in D
    BY <1>5
  <2> HIDE DEF First
  <2>4. First(i) \in D
    BY <2>1, <2>2, <2>3
  <2> QED BY <1>1, <2>4
<1>6. 0 .. n \subseteq E
  <2> HIDE DEF E
  <2> QED BY <1>1, <1>4, <1>5, InductionUpTo
<1>7. First(n) \in D
  <2>1. n \in 0 .. n
    BY <1>1
  <2> HIDE DEF First
  <2> QED BY <1>6, <2>1
<1>8. First(n) = S
  BY <1>3
<1> QED BY <1>7, <1>8

(* A sum takes the elements one after another, in some order.                   *)
Sums(f, S) ==
    {F \in [SUBSET S -> Int] :
        F = [s \in SUBSET S |->
                IF s = {} THEN 0
                ELSE LET x == CHOOSE x \in s : TRUE IN f[x] + F[s \ {x}]]}

Summable(f, S) == IsFiniteSet(S) /\ \A x \in S : f[x] \in Int

LEMMA OneLess ==
    ASSUME NEW S, IsFiniteSet(S), NEW T \in SUBSET S, NEW x \in T
    PROVE  /\ Cardinality(T) \in Nat \ {0} /\ Cardinality(T \ {x}) = Cardinality(T) - 1
           /\ T \ {x} \in SUBSET S /\ Cardinality(T) <= Cardinality(S)
<1>1. IsFiniteSet(T)
  BY FS_Subset
<1>2. Cardinality(T) \in Nat /\ Cardinality(T) # 0
  BY <1>1, FS_CardinalityType, FS_EmptySet
<1>3. Cardinality(T) <= Cardinality(S)
  BY FS_Subset
<1>4. Cardinality(T \ {x}) = Cardinality(T) - 1
  BY <1>1, FS_RemoveElement
<1> QED BY <1>2, <1>3, <1>4

LEMMA SumsExist ==
    ASSUME NEW f, NEW S, Summable(f, S)
    PROVE  \E F : F \in Sums(f, S)
<1> DEFINE Body(F, s) == IF s = {} THEN 0
                         ELSE LET x == CHOOSE x \in s : TRUE IN f[x] + F[s \ {x}]
           Upto(n, F) == \A s \in SUBSET S : Cardinality(s) <= n => F[s] = Body(F, s)
           N == Cardinality(S)
           D == {n \in 0 .. N : \E F \in [SUBSET S -> Int] : Upto(n, F)}
<1>1. IsFiniteSet(S) /\ N \in Nat /\ \A x \in S : f[x] \in Int
  BY FS_CardinalityType DEF Summable
<1>2. \A s \in SUBSET S : IsFiniteSet(s) /\ Cardinality(s) \in 0 .. N /\ (s # {} => Cardinality(s) # 0)
  <2> SUFFICES ASSUME NEW s \in SUBSET S
               PROVE  IsFiniteSet(s) /\ Cardinality(s) \in 0 .. N /\ (s # {} => Cardinality(s) # 0)
    OBVIOUS
  <2>1. IsFiniteSet(s) /\ Cardinality(s) <= N
    BY <1>1, FS_Subset
  <2>2. Cardinality(s) \in Nat /\ (s # {} => Cardinality(s) # 0)
    BY <2>1, FS_CardinalityType, FS_EmptySet
  <2> QED BY <1>1, <2>1, <2>2
<1>3. ASSUME NEW s \in SUBSET S, s # {}
      PROVE  LET x == CHOOSE x \in s : TRUE
             IN  x \in s /\ s \ {x} \in SUBSET S /\ Cardinality(s \ {x}) = Cardinality(s) - 1
  <2>1. (CHOOSE x \in s : TRUE) \in s
    BY <1>3
  <2> QED BY <1>1, <2>1, OneLess
<1>4. 0 \in D
  <2>1. [s \in SUBSET S |-> 0] \in [SUBSET S -> Int] /\ Upto(0, [s \in SUBSET S |-> 0])
    BY <1>2
  <2>2. 0 \in 0 .. N
    BY <1>1
  <2> HIDE DEF Upto, N
  <2>3. \E F \in [SUBSET S -> Int] : Upto(0, F)
    BY <2>1, Zenon
  <2> QED BY <2>2, <2>3
<1>5. ASSUME NEW n \in 1 .. N, n - 1 \in D PROVE n \in D
  <2>1. PICK F \in [SUBSET S -> Int] : Upto(n - 1, F)
    BY <1>5
  <2> DEFINE G == [s \in SUBSET S |-> IF Cardinality(s) <= n - 1 THEN F[s] ELSE Body(F, s)]
  <2>2. ASSUME NEW s \in SUBSET S PROVE Body(F, s) \in Int
    <3>1. CASE s = {}
      BY <3>1
    <3>2. CASE s # {}
      BY <1>1, <1>3, <3>2
    <3> QED BY <3>1, <3>2
  <2>3. G \in [SUBSET S -> Int]
    <3> HIDE DEF Body
    <3> QED BY <2>2
  <2>4. \A s \in SUBSET S : Cardinality(s) <= n - 1 => G[s] = F[s]
    OBVIOUS
  <2>5. \A s \in SUBSET S : Cardinality(s) <= n => G[s] = Body(F, s)
    <3> HIDE DEF Body
    <3> QED BY <1>1, <1>2, <2>1
  <2> HIDE DEF G
  <2>6. ASSUME NEW s \in SUBSET S, Cardinality(s) <= n PROVE Body(F, s) = Body(G, s)
    <3>1. CASE s = {}
      BY <3>1
    <3>2. CASE s # {}
      <4> DEFINE x == CHOOSE x \in s : TRUE
      <4>1. s \ {x} \in SUBSET S /\ Cardinality(s \ {x}) = Cardinality(s) - 1
        BY <1>3, <3>2
      <4>2. Cardinality(s \ {x}) <= n - 1
        BY <1>2, <2>6, <4>1
      <4>3. G[s \ {x}] = F[s \ {x}]
        BY <2>4, <4>1, <4>2
      <4> QED BY <3>2, <4>3
    <3> QED BY <3>1, <3>2
  <2>7. Upto(n, G)
    <3> HIDE DEF Body
    <3> QED BY <2>5, <2>6
  <2>8. n \in 0 .. N
    BY <1>1
  <2> HIDE DEF Upto, N
  <2>9. \E H \in [SUBSET S -> Int] : Upto(n, H)
    BY <2>3, <2>7, Zenon
  <2> QED BY <2>8, <2>9
<1>6. 0 .. N \subseteq D
  <2> HIDE DEF D, N
  <2> QED BY <1>1, <1>4, <1>5, InductionUpTo
<1>7. PICK F \in [SUBSET S -> Int] : Upto(N, F)
  <2>1. N \in 0 .. N
    BY <1>1
  <2> HIDE DEF Upto, N
  <2> QED BY <1>6, <2>1
<1>8. F = [s \in SUBSET S |-> Body(F, s)]
  <2>1. \A s \in SUBSET S : F[s] = Body(F, s)
    <3> HIDE DEF Body, N
    <3> QED BY <1>1, <1>2, <1>7
  <2> HIDE DEF Body
  <2> QED BY <2>1
<1> QED BY <1>8 DEF Sums

(* However it is computed, a sum of numbers is a number, and it is any element and  *)
(* the sum of the rest.                                                      *)
LEMMA AnyOrder ==
    ASSUME NEW f, NEW S, Summable(f, S), NEW F \in Sums(f, S)
    PROVE  /\ F[{}] = 0
           /\ \A T \in SUBSET S : \A x \in T : F[T] = f[x] + F[T \ {x}]
<1> DEFINE Any(T) == \A x \in T : F[T] = f[x] + F[T \ {x}]
           N == Cardinality(S)
           D == {n \in 0 .. N : \A T \in SUBSET S : Cardinality(T) <= n => Any(T)}
<1>1. IsFiniteSet(S) /\ N \in Nat /\ \A x \in S : f[x] \in Int
  BY FS_CardinalityType DEF Summable
<1>2. F \in [SUBSET S -> Int] /\ F[{}] = 0
  BY DEF Sums
<1>3. ASSUME NEW T \in SUBSET S, T # {}
      PROVE  \E y \in T : F[T] = f[y] + F[T \ {y}]
  <2>1. (CHOOSE y \in T : TRUE) \in T
    BY <1>3
  <2> QED BY <1>3, <2>1 DEF Sums
<1>4. 0 \in D
  <2>1. 0 \in 0 .. N
    BY <1>1
  <2>2. ASSUME NEW T \in SUBSET S, Cardinality(T) <= 0 PROVE Any(T)
    <3>1. ASSUME NEW x \in T PROVE FALSE
      <4>1. Cardinality(T) \in Nat \ {0}
        BY <1>1, OneLess
      <4> QED BY <2>2, <4>1
    <3> QED BY <3>1
  <2> HIDE DEF Any, N
  <2> QED BY <2>1, <2>2
<1>5. ASSUME NEW n \in 1 .. N, n - 1 \in D PROVE n \in D
  <2>1. \A T \in SUBSET S : Cardinality(T) <= n - 1 => Any(T)
    BY <1>5
  <2>2. ASSUME NEW T \in SUBSET S, Cardinality(T) <= n PROVE Any(T)
    <3> SUFFICES ASSUME NEW x \in T PROVE F[T] = f[x] + F[T \ {x}]
      OBVIOUS
    <3>1. PICK y \in T : F[T] = f[y] + F[T \ {y}]
      BY <1>3
    <3>2. CASE x = y
      BY <3>1, <3>2
    <3>3. CASE x # y
      <4>1. /\ T \ {x} \in SUBSET S /\ Cardinality(T \ {x}) <= n - 1
            /\ T \ {y} \in SUBSET S /\ Cardinality(T \ {y}) <= n - 1
        BY <1>1, <2>2, OneLess
      <4>2. Any(T \ {x}) /\ Any(T \ {y})
        BY <2>1, <4>1
      <4>3. PICK R : R = (T \ {x}) \ {y}
        OBVIOUS
      <4>4. R = (T \ {y}) \ {x} /\ R \in SUBSET S
        BY <4>3
      <4>5. F[T \ {y}] = f[x] + F[R] /\ F[T \ {x}] = f[y] + F[R]
        BY <3>3, <4>2, <4>3, <4>4
      <4>6. F[R] \in Int /\ f[x] \in Int /\ f[y] \in Int
        BY <1>1, <1>2, <4>4
      <4>7. PICK b \in Int : b = F[R]
        BY <4>6
      <4> HIDE DEF Any, N, D
      <4> QED BY <3>1, <4>5, <4>6, <4>7
    <3> QED BY <3>2, <3>3
  <2>3. n \in 0 .. N
    BY <1>1
  <2> HIDE DEF Any, N
  <2> QED BY <2>2, <2>3
<1>6. 0 .. N \subseteq D
  <2> HIDE DEF D, N
  <2> QED BY <1>1, <1>4, <1>5, InductionUpTo
<1>7. \A T \in SUBSET S : Any(T)
  <2> TAKE T \in SUBSET S
  <2>1. N \in D
    <3>1. N \in 0 .. N
      BY <1>1
    <3> HIDE DEF D, N
    <3> QED BY <1>6, <3>1
  <2>2. Cardinality(T) <= N
    BY <1>1, FS_Subset
  <2> HIDE DEF Any, N
  <2> QED BY <2>1, <2>2
<1> QED BY <1>2, <1>7

(* The sum over a set is one of them.                                         *)
LEMMA SumIsASum ==
    ASSUME NEW f, NEW S, Summable(f, S)
    PROVE  \E F \in Sums(f, S) : SumFunctionOnSet(f, S) = F[S]
<1> DEFINE Is(F) == F = [s \in SUBSET S |->
                            IF s = {} THEN 0
                            ELSE LET x == CHOOSE x \in s : TRUE IN f[x] + F[s \ {x}]]
           C == CHOOSE F : Is(F)
<1>1. PICK F : F \in Sums(f, S)
  BY SumsExist
<1>2. Is(F) /\ F \in [SUBSET S -> Int]
  BY <1>1 DEF Sums
<1>3. Is(C)
  <2> HIDE DEF Is
  <2> QED BY <1>2, Zenon
<1>4. SumFunctionOnSet(f, S) = C[S]
  BY DEF SumFunctionOnSet, FoldFunctionOnSet, MapThenFoldSet
<1> HIDE DEF C
<1>5. \A s \in SUBSET S : C[s] = F[s]
  <2> DEFINE N == Cardinality(S)
             D == {n \in 0 .. N : \A s \in SUBSET S : Cardinality(s) <= n => C[s] = F[s]}
  <2>1. IsFiniteSet(S) /\ N \in Nat
    BY FS_CardinalityType DEF Summable
  <2>2. C[{}] = F[{}]
    BY <1>2, <1>3
  <2>3. ASSUME NEW s \in SUBSET S, s # {}
        PROVE  \E x \in s : C[s] = f[x] + C[s \ {x}] /\ F[s] = f[x] + F[s \ {x}]
    <3>1. (CHOOSE x \in s : TRUE) \in s
      BY <2>3
    <3> QED BY <1>2, <1>3, <2>3, <3>1
  <2> HIDE DEF Is
  <2>4. 0 \in D
    <3>1. 0 \in 0 .. N
      BY <2>1
    <3>2. ASSUME NEW s \in SUBSET S, Cardinality(s) <= 0 PROVE C[s] = F[s]
      <4>1. ASSUME NEW x \in s PROVE FALSE
        <5>1. Cardinality(s) \in Nat \ {0}
          BY <2>1, OneLess
        <5> QED BY <3>2, <5>1
      <4> QED BY <2>2, <4>1
    <3> HIDE DEF N
    <3> QED BY <3>1, <3>2
  <2>5. ASSUME NEW n \in 1 .. N, n - 1 \in D PROVE n \in D
    <3>1. \A s \in SUBSET S : Cardinality(s) <= n - 1 => C[s] = F[s]
      BY <2>5
    <3>2. ASSUME NEW s \in SUBSET S, Cardinality(s) <= n PROVE C[s] = F[s]
      <4>1. CASE s = {}
        BY <2>2, <4>1
      <4>2. CASE s # {}
        <5>1. PICK x \in s : C[s] = f[x] + C[s \ {x}] /\ F[s] = f[x] + F[s \ {x}]
          BY <2>3, <4>2
        <5>2. s \ {x} \in SUBSET S /\ Cardinality(s \ {x}) <= n - 1
          BY <2>1, <3>2, OneLess
        <5> QED BY <3>1, <5>1, <5>2
      <4> QED BY <4>1, <4>2
    <3>3. n \in 0 .. N
      BY <2>1
    <3> HIDE DEF N
    <3> QED BY <3>2, <3>3
  <2>6. 0 .. N \subseteq D
    <3> HIDE DEF D, N
    <3> QED BY <2>1, <2>4, <2>5, InductionUpTo
  <2> TAKE s \in SUBSET S
  <2>7. Cardinality(s) <= N /\ N \in 0 .. N
    BY <2>1, FS_Subset
  <2> HIDE DEF N
  <2> QED BY <2>6, <2>7
<1> QED BY <1>1, <1>4, <1>5

(* Sums over a set and over its parts: nothing, and one element and the rest.      *)
LEMMA SumStep ==
    ASSUME NEW f, NEW S, Summable(f, S)
    PROVE  /\ SumFunctionOnSet(f, S) \in Int
           /\ S = {} => SumFunctionOnSet(f, S) = 0
           /\ \A x \in S : SumFunctionOnSet(f, S) = f[x] + SumFunctionOnSet(f, S \ {x})
<1>1. PICK F \in Sums(f, S) : SumFunctionOnSet(f, S) = F[S]
  BY SumIsASum
<1>2. F \in [SUBSET S -> Int]
  BY DEF Sums
<1>3. F[{}] = 0 /\ \A T \in SUBSET S : \A y \in T : F[T] = f[y] + F[T \ {y}]
  BY AnyOrder
<1>4. ASSUME NEW x \in S PROVE SumFunctionOnSet(f, S) = f[x] + SumFunctionOnSet(f, S \ {x})
  <2>r. PICK R : R = S \ {x}
    OBVIOUS
  <2>1. Summable(f, R)
    BY <2>r, FS_Subset DEF Summable
  <2>2. PICK G \in Sums(f, R) : SumFunctionOnSet(f, R) = G[R]
    BY <2>1, SumIsASum
  <2>3. G[{}] = 0 /\ \A T \in SUBSET R : \A y \in T : G[T] = f[y] + G[T \ {y}]
    BY <2>1, AnyOrder
  <2> DEFINE D == {T \in SUBSET R : F[T] = G[T]}
  <2>4. {} \in D
    BY <1>3, <2>3
  <2>5. ASSUME NEW T \in SUBSET R, NEW y \in R \ T, T \in D PROVE T \cup {y} \in D
    <3>1. PICK U : U = T \cup {y}
      OBVIOUS
    <3>2. U \in SUBSET R /\ U \in SUBSET S /\ y \in U /\ U \ {y} = T
      BY <2>r, <3>1
    <3>3. F[U] = f[y] + F[T] /\ G[U] = f[y] + G[T]
      BY <1>3, <2>3, <3>2
    <3> QED BY <2>5, <3>1, <3>2, <3>3
  <2>6. R \in D
    <3> HIDE DEF D
    <3>1. IsFiniteSet(R)
      BY <2>1 DEF Summable
    <3> QED BY <2>4, <2>5, <3>1, FiniteInduction
  <2>7. F[S] = f[x] + F[R]
    BY <1>3, <2>r
  <2> QED BY <1>1, <2>2, <2>6, <2>7, <2>r
<1> QED BY <1>1, <1>2, <1>3, <1>4

LEMMA SumOfPart ==
    ASSUME NEW f, NEW S, Summable(f, S), NEW T \in SUBSET S
    PROVE  Summable(f, T) /\ SumFunctionOnSet(f, T) \in Int
<1>1. Summable(f, T)
  BY FS_Subset DEF Summable
<1> QED BY <1>1, SumStep

(* One element more.                                                         *)
LEMMA SumGrows ==
    ASSUME NEW f, NEW S, Summable(f, S), NEW T \in SUBSET S, NEW x \in S \ T
    PROVE  SumFunctionOnSet(f, T \cup {x}) = SumFunctionOnSet(f, T) + f[x]
<1>1. PICK U : U = T \cup {x}
  OBVIOUS
<1>2. U \in SUBSET S /\ x \in U /\ U \ {x} = T
  BY <1>1
<1>3. Summable(f, U) /\ SumFunctionOnSet(f, T) \in Int
  BY <1>2, SumOfPart
<1>4. SumFunctionOnSet(f, U) = f[x] + SumFunctionOnSet(f, T)
  BY <1>2, <1>3, SumStep
<1>5. f[x] \in Int
  BY DEF Summable
<1> QED BY <1>1, <1>3, <1>4, <1>5

(* Sums of a part that nothing is in, for the start of the inductions.           *)
LEMMA SumOfNone == \A f : SumFunctionOnSet(f, {}) = 0
<1> TAKE f
<1>1. Summable(f, {})
  BY FS_EmptySet DEF Summable
<1> QED BY <1>1, SumStep

(* The sum of a sum of functions.                                             *)
LEMMA SumsAdd ==
    ASSUME NEW f, NEW g, NEW h, NEW S, Summable(f, S), Summable(g, S),
           \A x \in S : h[x] = f[x] + g[x]
    PROVE  /\ Summable(h, S)
           /\ SumFunctionOnSet(h, S) = SumFunctionOnSet(f, S) + SumFunctionOnSet(g, S)
<1> DEFINE D == {T \in SUBSET S : SumFunctionOnSet(h, T) = SumFunctionOnSet(f, T) + SumFunctionOnSet(g, T)}
<1>1. IsFiniteSet(S) /\ Summable(h, S)
  BY DEF Summable
<1>2. {} \in D
  BY SumOfNone
<1>3. ASSUME NEW T \in SUBSET S, NEW x \in S \ T, T \in D PROVE T \cup {x} \in D
  <2>1. /\ SumFunctionOnSet(f, T \cup {x}) = SumFunctionOnSet(f, T) + f[x]
        /\ SumFunctionOnSet(g, T \cup {x}) = SumFunctionOnSet(g, T) + g[x]
        /\ SumFunctionOnSet(h, T \cup {x}) = SumFunctionOnSet(h, T) + h[x]
    BY <1>1, SumGrows
  <2>2. SumFunctionOnSet(f, T) \in Int /\ SumFunctionOnSet(g, T) \in Int
    BY SumOfPart
  <2>3. f[x] \in Int /\ g[x] \in Int
    BY DEF Summable
  <2> QED BY <1>3, <2>1, <2>2, <2>3
<1>4. S \in D
  <2> HIDE DEF D
  <2> QED BY <1>1, <1>2, <1>3, FiniteInduction
<1> QED BY <1>1, <1>4

(* A sum of nothing but zeros, and of functions that agree or compare.           *)
LEMMA SumOfZeros ==
    ASSUME NEW f, NEW S, IsFiniteSet(S), \A x \in S : f[x] = 0
    PROVE  SumFunctionOnSet(f, S) = 0
<1>1. Summable(f, S) /\ \A x \in S : f[x] = f[x] + f[x]
  BY DEF Summable
<1>2. SumFunctionOnSet(f, S) = SumFunctionOnSet(f, S) + SumFunctionOnSet(f, S)
  BY <1>1, SumsAdd
<1>3. SumFunctionOnSet(f, S) \in Int
  BY <1>1, SumStep
<1>4. \A x \in Int : x = x + x => x = 0
  OBVIOUS
<1> QED BY <1>2, <1>3, <1>4, Zenon

LEMMA SumsAgree ==
    ASSUME NEW f, NEW g, NEW S, Summable(f, S), \A x \in S : g[x] = f[x]
    PROVE  Summable(g, S) /\ SumFunctionOnSet(g, S) = SumFunctionOnSet(f, S)
<1> DEFINE z == [x \in S |-> 0]
<1>1. Summable(z, S) /\ \A x \in S : g[x] = f[x] + z[x]
  BY DEF Summable
<1>2. SumFunctionOnSet(z, S) = 0
  BY SumOfZeros DEF Summable
<1>3. SumFunctionOnSet(f, S) \in Int
  BY SumStep
<1> HIDE DEF z
<1>4. Summable(g, S) /\ SumFunctionOnSet(g, S) = SumFunctionOnSet(f, S) + SumFunctionOnSet(z, S)
  BY <1>1, SumsAdd
<1> QED BY <1>2, <1>3, <1>4

LEMMA SumIsNatural ==
    ASSUME NEW f, NEW S, IsFiniteSet(S), \A x \in S : f[x] \in Nat
    PROVE  Summable(f, S) /\ SumFunctionOnSet(f, S) \in Nat
<1> DEFINE D == {T \in SUBSET S : SumFunctionOnSet(f, T) \in Nat}
<1>1. Summable(f, S)
  BY DEF Summable
<1>2. {} \in D
  BY SumOfNone
<1>3. ASSUME NEW T \in SUBSET S, NEW x \in S \ T, T \in D PROVE T \cup {x} \in D
  BY <1>1, <1>3, SumGrows
<1>4. S \in D
  <2> HIDE DEF D
  <2> QED BY <1>2, <1>3, FiniteInduction
<1> QED BY <1>1, <1>4

LEMMA SumsCompare ==
    ASSUME NEW f, NEW g, NEW S, Summable(f, S), Summable(g, S), \A x \in S : f[x] <= g[x]
    PROVE  SumFunctionOnSet(f, S) <= SumFunctionOnSet(g, S)
<1> DEFINE d == [x \in S |-> g[x] - f[x]]
<1>1. \A x \in S : d[x] \in Nat /\ g[x] = f[x] + d[x]
  BY DEF Summable
<1> HIDE DEF d
<1>2. Summable(d, S) /\ SumFunctionOnSet(d, S) \in Nat
  BY <1>1, SumIsNatural DEF Summable
<1>3. SumFunctionOnSet(g, S) = SumFunctionOnSet(f, S) + SumFunctionOnSet(d, S)
  BY <1>1, <1>2, SumsAdd
<1>4. SumFunctionOnSet(f, S) \in Int
  BY SumStep
<1> QED BY <1>2, <1>3, <1>4

(* Sums of functions that differ at one point.                                 *)
Differ(f, g, S, y, c) ==
    y \in S /\ c \in Int /\ g[y] = f[y] + c /\ \A x \in S : x # y => g[x] = f[x]

LEMMA SumsDiffer ==
    ASSUME NEW f, NEW g, NEW S, NEW y, NEW c, Summable(f, S), Differ(f, g, S, y, c)
    PROVE  Summable(g, S) /\ SumFunctionOnSet(g, S) = SumFunctionOnSet(f, S) + c
<1> USE DEF Differ
<1>r. PICK R : R = S \ {y}
  OBVIOUS
<1>1. Summable(g, S) /\ f[y] \in Int
  BY DEF Summable
<1>2. Summable(f, R) /\ SumFunctionOnSet(f, R) \in Int
  BY <1>r, SumOfPart
<1>3. SumFunctionOnSet(g, R) = SumFunctionOnSet(f, R)
  BY <1>r, <1>2, SumsAgree
<1>4. SumFunctionOnSet(f, S) = f[y] + SumFunctionOnSet(f, R)
  BY <1>r, SumStep
<1>5. SumFunctionOnSet(g, S) = g[y] + SumFunctionOnSet(g, R)
  BY <1>r, <1>1, SumStep
<1> QED BY <1>1, <1>2, <1>3, <1>4, <1>5

(* The sum over two sets that share nothing.                                   *)
LEMMA SumOfParts ==
    ASSUME NEW f, NEW S, NEW T, Summable(f, S \cup T), S \cap T = {}
    PROVE  /\ Summable(f, S) /\ Summable(f, T)
           /\ SumFunctionOnSet(f, S \cup T) = SumFunctionOnSet(f, S) + SumFunctionOnSet(f, T)
<1> DEFINE D == {R \in SUBSET T : SumFunctionOnSet(f, S \cup R)
                                  = SumFunctionOnSet(f, S) + SumFunctionOnSet(f, R)}
<1>u. PICK U : U = S \cup T
  OBVIOUS
<1>1. Summable(f, U) /\ S \in SUBSET U /\ T \in SUBSET U
  BY <1>u
<1>2. Summable(f, S) /\ Summable(f, T) /\ SumFunctionOnSet(f, S) \in Int
  BY <1>1, SumOfPart
<1>3. {} \in D
  <2>1. S \cup {} = S
    OBVIOUS
  <2> QED BY <1>2, <2>1, SumOfNone
<1>4. ASSUME NEW R \in SUBSET T, NEW x \in T \ R, R \in D PROVE R \cup {x} \in D
  <2>1. PICK V : V = S \cup R
    OBVIOUS
  <2>2. V \in SUBSET U /\ x \in U \ V /\ V \cup {x} = S \cup (R \cup {x})
    BY <1>u, <2>1
  <2>3. SumFunctionOnSet(f, V \cup {x}) = SumFunctionOnSet(f, V) + f[x]
    BY <1>1, <2>2, SumGrows
  <2>4. SumFunctionOnSet(f, R \cup {x}) = SumFunctionOnSet(f, R) + f[x]
    BY <1>2, SumGrows
  <2>5. SumFunctionOnSet(f, R) \in Int /\ f[x] \in Int
    BY <1>2, SumOfPart DEF Summable
  <2>6. SumFunctionOnSet(f, V) = SumFunctionOnSet(f, S) + SumFunctionOnSet(f, R)
    BY <1>4, <2>1
  <2>7. SumFunctionOnSet(f, V \cup {x}) = SumFunctionOnSet(f, S) + SumFunctionOnSet(f, R \cup {x})
    <3>1. \A a, b, c \in Int : (a + b) + c = a + (b + c)
      OBVIOUS
    <3>2. SumFunctionOnSet(f, V \cup {x})
              = (SumFunctionOnSet(f, S) + SumFunctionOnSet(f, R)) + f[x]
      BY <2>3, <2>6
    <3> QED BY <1>2, <2>4, <2>5, <3>1, <3>2
  <2> QED BY <2>2, <2>7
<1>5. T \in D
  <2>1. IsFiniteSet(T)
    BY <1>2 DEF Summable
  <2> HIDE DEF D
  <2> QED BY <1>3, <1>4, <2>1, FiniteInduction
<1> QED BY <1>2, <1>5

(* A sum, sorted by the keys of its elements.                                  *)
LEMMA SumByKey ==
    ASSUME NEW f, NEW I, Summable(f, I), NEW K, IsFiniteSet(K), NEW key,
           \A i \in I : key[i] \in K,
           NEW g, g = [k \in K |-> SumFunctionOnSet(f, {i \in I : key[i] = k})]
    PROVE  Summable(g, K) /\ SumFunctionOnSet(g, K) = SumFunctionOnSet(f, I)
<1> DEFINE Of(J, k) == {i \in J : key[i] = k}
           By(J) == [k \in K |-> SumFunctionOnSet(f, Of(J, k))]
           D == {J \in SUBSET I : SumFunctionOnSet(By(J), K) = SumFunctionOnSet(f, J)}
<1>1. ASSUME NEW J \in SUBSET I PROVE Summable(By(J), K)
  <2>1. ASSUME NEW k \in K PROVE SumFunctionOnSet(f, Of(J, k)) \in Int
    <3>1. Of(J, k) \in SUBSET I
      OBVIOUS
    <3> HIDE DEF Of
    <3> QED BY <3>1, SumOfPart
  <2> HIDE DEF Of
  <2> QED BY <2>1 DEF Summable
<1>2. {} \in D
  <2>1. \A k \in K : By({})[k] = 0
    <3>1. \A k : Of({}, k) = {}
      OBVIOUS
    <3> HIDE DEF Of
    <3> QED BY <3>1, SumOfNone
  <2> HIDE DEF By
  <2>2. SumFunctionOnSet(By({}), K) = 0
    BY <2>1, SumOfZeros
  <2> QED BY <2>2, SumOfNone
<1>3. ASSUME NEW J \in SUBSET I, NEW x \in I \ J, J \in D PROVE J \cup {x} \in D
  <2>j. PICK L : L = J \cup {x}
    OBVIOUS
  <2>1. L \in SUBSET I /\ f[x] \in Int /\ key[x] \in K
    BY <2>j DEF Summable
  <2>2. SumFunctionOnSet(f, L) = SumFunctionOnSet(f, J) + f[x]
    BY <2>j, SumGrows
  <2>3. \A k \in K : k # key[x] => Of(L, k) = Of(J, k)
    BY <2>j
  <2>4. /\ Of(L, key[x]) = Of(J, key[x]) \cup {x} /\ Of(J, key[x]) \in SUBSET I
        /\ x \in I \ Of(J, key[x])
    BY <2>j
  <2> HIDE DEF Of
  <2>5. SumFunctionOnSet(f, Of(L, key[x])) = SumFunctionOnSet(f, Of(J, key[x])) + f[x]
    BY <2>4, SumGrows
  <2>6. By(L)[key[x]] = By(J)[key[x]] + f[x] /\ \A k \in K : k # key[x] => By(L)[k] = By(J)[k]
    BY <2>1, <2>3, <2>5
  <2>7. Summable(By(J), K)
    BY <1>1
  <2>8. SumFunctionOnSet(By(J), K) = SumFunctionOnSet(f, J)
    BY <1>3
  <2> HIDE DEF By
  <2>9. SumFunctionOnSet(By(L), K) = SumFunctionOnSet(By(J), K) + f[x]
    <3>1. PICK p, q, k, c : p = By(J) /\ q = By(L) /\ k = key[x] /\ c = f[x]
      OBVIOUS
    <3>2. Summable(p, K) /\ Differ(p, q, K, k, c)
      BY <2>1, <2>6, <2>7, <3>1 DEF Differ
    <3>3. SumFunctionOnSet(q, K) = SumFunctionOnSet(p, K) + c
      BY <3>2, SumsDiffer
    <3> QED BY <3>1, <3>3
  <2>10. SumFunctionOnSet(By(L), K) = SumFunctionOnSet(f, L)
    BY <2>2, <2>8, <2>9
  <2>11. L \in D
    BY <2>1, <2>10
  <2> HIDE DEF D
  <2> QED BY <2>11, <2>j
<1>4. I \in D
  <2>1. IsFiniteSet(I)
    BY DEF Summable
  <2> HIDE DEF D
  <2> QED BY <1>2, <1>3, <2>1, FiniteInduction
<1>5. By(I) = g /\ I \in SUBSET I
  OBVIOUS
<1>6. Summable(g, K)
  <2> HIDE DEF By
  <2> QED BY <1>1, <1>5
<1> QED BY <1>4, <1>5, <1>6

(* The sum of equal numbers.                                                   *)
LEMMA SumOfEquals ==
    ASSUME NEW f, NEW S, IsFiniteSet(S), NEW c \in Int, \A x \in S : f[x] = c
    PROVE  SumFunctionOnSet(f, S) = Cardinality(S) * c
<1> DEFINE D == {T \in SUBSET S : SumFunctionOnSet(f, T) = Cardinality(T) * c}
<1>1. Summable(f, S)
  BY DEF Summable
<1>2. {} \in D
  BY SumOfNone, FS_EmptySet
<1>3. ASSUME NEW T \in SUBSET S, NEW x \in S \ T, T \in D PROVE T \cup {x} \in D
  <2>1. SumFunctionOnSet(f, T \cup {x}) = SumFunctionOnSet(f, T) + c
    BY <1>1, SumGrows
  <2>2. IsFiniteSet(T) /\ Cardinality(T) \in Nat /\ Cardinality(T \cup {x}) = Cardinality(T) + 1
    <3>1. IsFiniteSet(T)
      BY FS_Subset
    <3> QED BY <3>1, FS_CardinalityType, FS_AddElement
  <2>3. \A n \in Nat : (n + 1) * c = n * c + c
    OBVIOUS
  <2> QED BY <1>3, <2>1, <2>2, <2>3
<1>4. S \in D
  <2> HIDE DEF D
  <2> QED BY <1>2, <1>3, FiniteInduction
<1> QED BY <1>4

(* A sum of numbers from 1 to n, counted by number.                             *)
LEMMA SumByCount ==
    ASSUME NEW f, NEW I, IsFiniteSet(I), NEW n \in Nat, \A i \in I : f[i] \in 1 .. n,
           NEW g, g = [a \in 1 .. n |-> Cardinality({i \in I : f[i] = a}) * a]
    PROVE  /\ Summable(f, I) /\ Summable(g, 1 .. n)
           /\ SumFunctionOnSet(g, 1 .. n) = SumFunctionOnSet(f, I)
<1> DEFINE h == [a \in 1 .. n |-> SumFunctionOnSet(f, {i \in I : f[i] = a})]
<1>1. Summable(f, I)
  BY DEF Summable
<1>2. IsFiniteSet(1 .. n)
  <2>1. 1 \in Int /\ n \in Int
    OBVIOUS
  <2> QED BY <2>1, FS_Interval, Zenon
<1>3. Summable(h, 1 .. n) /\ SumFunctionOnSet(h, 1 .. n) = SumFunctionOnSet(f, I)
  BY <1>1, <1>2, SumByKey
<1>4. ASSUME NEW a \in 1 .. n PROVE g[a] = h[a]
  <2>1. IsFiniteSet({i \in I : f[i] = a})
    BY FS_Subset
  <2>2. a \in Int
    OBVIOUS
  <2>3. SumFunctionOnSet(f, {i \in I : f[i] = a}) = Cardinality({i \in I : f[i] = a}) * a
    <3>1. PICK J : J = {i \in I : f[i] = a}
      OBVIOUS
    <3>2. SumFunctionOnSet(f, J) = Cardinality(J) * a
      BY <2>1, <2>2, <3>1, SumOfEquals
    <3> QED BY <3>1, <3>2
  <2> QED BY <2>3
<1> HIDE DEF h
<1>5. Summable(g, 1 .. n) /\ SumFunctionOnSet(g, 1 .. n) = SumFunctionOnSet(h, 1 .. n)
  BY <1>3, <1>4, SumsAgree
<1> QED BY <1>1, <1>3, <1>5

(* A sum over other names of the same elements.                                *)
LEMMA SumRenamed ==
    ASSUME NEW f, NEW T, Summable(f, T), NEW S, IsFiniteSet(S), NEW r, NEW h,
           T = {r[x] : x \in S}, \A x, y \in S : r[x] = r[y] => x = y,
           \A x \in S : h[x] = f[r[x]]
    PROVE  SumFunctionOnSet(h, S) = SumFunctionOnSet(f, T)
<1> DEFINE Image(R) == {r[x] : x \in R}
           D == {R \in SUBSET S : SumFunctionOnSet(h, R) = SumFunctionOnSet(f, Image(R))}
<1>1. Summable(h, S)
  BY DEF Summable
<1>2. {} \in D
  <2>1. Image({}) = {}
    OBVIOUS
  <2> HIDE DEF Image
  <2> QED BY <2>1, SumOfNone
<1>3. ASSUME NEW R \in SUBSET S, NEW x \in S \ R, R \in D PROVE R \cup {x} \in D
  <2>1. /\ Image(R) \in SUBSET T /\ r[x] \in T \ Image(R)
        /\ Image(R \cup {x}) = Image(R) \cup {r[x]}
    OBVIOUS
  <2>2. SumFunctionOnSet(h, R) = SumFunctionOnSet(f, Image(R))
    BY <1>3
  <2> HIDE DEF Image
  <2>3. SumFunctionOnSet(f, Image(R) \cup {r[x]}) = SumFunctionOnSet(f, Image(R)) + f[r[x]]
    BY <2>1, SumGrows
  <2>4. SumFunctionOnSet(h, R \cup {x}) = SumFunctionOnSet(h, R) + h[x]
    BY <1>1, SumGrows
  <2> QED BY <2>1, <2>2, <2>3, <2>4
<1>4. S \in D
  <2> HIDE DEF D
  <2> QED BY <1>2, <1>3, FiniteInduction
<1> QED BY <1>4
=============================================================================
