--------------------------- MODULE SpendingProofs ---------------------------
(***************************************************************************)
(* Proofs about Spending, for any block tree, any transactions and any       *)
(* number of workers.                                                       *)
(***************************************************************************)
EXTENDS Spending, SequenceTheorems, TLAPS

-----------------------------------------------------------------------------
(* A block's ancestry is a sequence that ends with the block; Front is the     *)
(* ancestry of its parent.                                                    *)
LEMMA AncestryFacts ==
    ASSUME NEW b \in Block
    PROVE  /\ Anc[b] \in Seq(Block)
           /\ Len(Anc[b]) \in Nat \ {0}
           /\ Anc[b][Len(Anc[b])] = b
           /\ Front(Anc[b]) \in Seq(Block)
           /\ Len(Front(Anc[b])) = Len(Anc[b]) - 1
           /\ \A i \in 1 .. Len(Anc[b]) - 1 : Front(Anc[b])[i] = Anc[b][i]
<1>1. Anc[b] \in Seq(Block) /\ Anc[b] # <<>> /\ Anc[b][Len(Anc[b])] = b
  BY BlockAssumption, AncestryAssumption DEF Top
<1>2. Len(Anc[b]) \in Nat \ {0}
  BY <1>1
<1>3. \A i \in 1 .. Len(Anc[b]) - 1 : Anc[b][i] \in Block
  BY <1>1, <1>2
<1>4. /\ Front(Anc[b]) \in Seq(Block)
      /\ Len(Front(Anc[b])) = Len(Anc[b]) - 1
      /\ \A i \in 1 .. Len(Anc[b]) - 1 : Front(Anc[b])[i] = Anc[b][i]
  BY <1>2, <1>3, SubSeqProperties DEF Front
<1> QED BY <1>1, <1>2, <1>4

(* Two ancestries that meet in a block meet at the same height and agree       *)
(* below it.                                                                  *)
LEMMA SharedAncestry ==
    ASSUME NEW b \in Block, NEW c \in Block,
           NEW i \in 1 .. Len(Anc[b]), NEW k \in 1 .. Len(Anc[c]),
           Anc[b][i] = Anc[c][k]
    PROVE  i = k /\ \A n \in 1 .. i : Anc[b][n] = Anc[c][n]
<1>1. SubSeq(Anc[b], 1, i) = SubSeq(Anc[c], 1, k)
  <2>1. \A x \in Block : \A m \in 1 .. Len(Anc[x]) : Anc[Anc[x][m]] = SubSeq(Anc[x], 1, m)
    BY AncestryAssumption, Zenon
  <2>2. Anc[Anc[b][i]] = SubSeq(Anc[b], 1, i) /\ Anc[Anc[c][k]] = SubSeq(Anc[c], 1, k)
    BY <2>1, Zenon
  <2> QED BY <2>2, Zenon
<1>2. ASSUME NEW x \in Block, NEW m \in 1 .. Len(Anc[x])
      PROVE  /\ Len(SubSeq(Anc[x], 1, m)) = m
             /\ \A n \in 1 .. m : SubSeq(Anc[x], 1, m)[n] = Anc[x][n]
  <2>1. Anc[x] \in Seq(Block) /\ m \in Nat /\ m <= Len(Anc[x])
    <3>1. Anc[x] \in Seq(Block) /\ Len(Anc[x]) \in Nat
      BY AncestryFacts
    <3> QED BY <3>1
  <2>2. \A n \in 1 .. m : Anc[x][n] \in Block
    BY <2>1
  <2> QED BY <2>1, <2>2, SubSeqProperties
<1>3. i = k
  BY <1>1, <1>2
<1> QED BY <1>1, <1>2, <1>3

-----------------------------------------------------------------------------
(* What a walk has established: at is the ancestry up to where it is, and       *)
(* divergent the blocks of the ancestry it passed.                            *)
Resolved(j) ==
    LET anc == Anc[j.block]
    IN  /\ Len(j.at) < Len(anc)
        /\ \A i \in 1 .. Len(j.at) : j.at[i] = anc[i]
        /\ \A x \in Block :
              x \in j.divergent <=> \E i \in Len(j.at) + 1 .. Len(anc) - 1 : anc[i] = x

(* The canonical chain begins with the rest of the ancestry.                  *)
Capped(j) ==
    j.step = "query" =>
        /\ j.cap = Len(j.at)
        /\ j.cap <= Len(canon)
        /\ \A i \in 1 .. j.cap : canon[i] = Anc[j.block][i]

(* The answers so far were right.                                             *)
Right(b, i) == MadeOn(b, Takes[b][i]) /\ FreshOn(b, Takes[b][i])
Settled(j) ==
    /\ \A i \in 1 .. Len(Takes[j.block]) : i < j.flow => Right(j.block, i)
    /\ j.step # "store" /\ j.asks = "taken" => MadeOn(j.block, Takes[j.block][j.flow])

JobOK(w) ==
    job[w] # NoJob =>
        /\ job[w].step = "store" <=> job[w].flow > Len(Takes[job[w].block])
        /\ Elements(Front(Anc[job[w].block])) \subseteq stored
        /\ w \notin reorged => Resolved(job[w]) /\ Capped(job[w]) /\ Settled(job[w])

(* The strengthening: ancestries are stored whole, the canonical chain is one   *)
(* of them, and a validation that no reorganisation overlapped knows its own   *)
(* ancestry and was answered rightly so far.                                  *)
IInv ==
    /\ TypeOK
    /\ \A b \in stored : Elements(Anc[b]) \subseteq stored
    /\ canon # <<>> => \E b \in stored : canon = Anc[b]
    /\ \A w \in Worker : JobOK(w)
    /\ NoDoubleSpendUnlessReorged
    /\ InflowsOnChainUnlessReorged
    /\ RefusedForCause

-----------------------------------------------------------------------------
(* A query after a complete walk reads the ancestry of the parent, no less and *)
(* no more, wherever the canonical chain ends.                                *)
LEMMA ViewIsAncestry ==
    ASSUME canon \in Seq(Block), NEW j \in Job, j.step = "query", Resolved(j), Capped(j)
    PROVE  \A x : x \in View(j) <=> \E i \in 1 .. Len(Anc[j.block]) - 1 : Anc[j.block][i] = x
<1> DEFINE anc == Anc[j.block]
           n == Len(j.at)
<1>1. j.block \in Block /\ j.at \in Seq(Block) /\ j.divergent \subseteq Block /\ j.cap \in Nat
  BY DEF Job
<1>2. anc \in Seq(Block) /\ Len(anc) \in Nat \ {0} /\ n \in Nat /\ n < Len(anc)
  BY <1>1, AncestryFacts DEF Resolved
<1>3. j.cap = n /\ n <= Len(canon) /\ Len(canon) \in Nat /\ \A i \in 1 .. n : canon[i] = anc[i]
  BY DEF Capped
<1>4. {canon[i] : i \in {k \in 1 .. Len(canon) : k <= j.cap}} = {anc[i] : i \in 1 .. n}
  <2>1. {k \in 1 .. Len(canon) : k <= j.cap} = 1 .. n
    BY <1>2, <1>3
  <2> QED BY <2>1, <1>3
<1>5. \A x : x \in j.divergent <=> \E i \in n + 1 .. Len(anc) - 1 : anc[i] = x
  <2>1. \A i \in n + 1 .. Len(anc) - 1 : anc[i] \in Block
    BY <1>2
  <2> QED BY <2>1, <1>1 DEF Resolved
<1>6. 1 .. Len(anc) - 1 = (1 .. n) \cup (n + 1 .. Len(anc) - 1)
  BY <1>2
<1> QED BY <1>4, <1>5, <1>6 DEF View

(* So each query answers what it asks.                                        *)
LEMMA AcceptsRightly ==
    ASSUME canon \in Seq(Block), NEW j \in Job, j.step = "query", Resolved(j), Capped(j)
    PROVE  Accepts(j) <=> IF j.asks = "made"
                          THEN MadeOn(j.block, Takes[j.block][j.flow])
                          ELSE FreshOn(j.block, Takes[j.block][j.flow])
<1> DEFINE anc == Anc[j.block]
<1>1. \A x : x \in View(j) <=> \E i \in 1 .. Len(anc) - 1 : anc[i] = x
  BY ViewIsAncestry
<1>2. j.block \in Block /\ Len(anc) \in Nat \ {0} /\ anc[Len(anc)] = j.block
  BY AncestryFacts DEF Job
<1>3. ASSUME NEW o PROVE Made(j, o) <=> MadeOn(j.block, o)
  <2>1. \A x : x \in View(j) \cup {j.block} <=> \E i \in 1 .. Len(anc) : anc[i] = x
    BY <1>1, <1>2
  <2> QED BY <2>1 DEF Made, MadeOn
<1>4. ASSUME NEW o PROVE UntakenExceptHere(j, o) <=> FreshOn(j.block, o)
  BY <1>1 DEF UntakenExceptHere, FreshOn
<1> QED BY <1>3, <1>4 DEF Accepts

(* A job that is past the first question begins with nothing resolved.        *)
LEMMA AskingOK ==
    ASSUME NEW b \in Block, NEW flow \in Nat \ {0}, NEW asks \in {"made", "taken"}
    PROVE  /\ Asking(b, flow, asks) \in Job
           /\ Resolved(Asking(b, flow, asks))
           /\ Asking(b, flow, asks).step # "query"
           /\ Asking(b, flow, asks).step = "store" <=> flow > Len(Takes[b])
<1>1. Front(Anc[b]) \in Seq(Block) /\ Len(Front(Anc[b])) = Len(Anc[b]) - 1
  BY AncestryFacts
<1>2. Asking(b, flow, asks) \in Job
  BY <1>1 DEF Asking, Job
<1>3. Resolved(Asking(b, flow, asks))
  BY AncestryFacts DEF Asking, Resolved
<1> QED BY <1>2, <1>3 DEF Asking

-----------------------------------------------------------------------------
LEMMA InitOK == Init => IInv
<1> SUFFICES ASSUME Init PROVE IInv
  OBVIOUS
<1>1. TypeOK
  BY DEF Init, TypeOK
<1>2. \A w \in Worker : JobOK(w)
  BY DEF Init, JobOK
<1> QED BY <1>1, <1>2 DEF Init, IInv, NoDoubleSpendUnlessReorged,
                       InflowsOnChainUnlessReorged, RefusedForCause

(* The job of a worker survives a step that leaves it, its reorganisation flag  *)
(* and the canonical chain alone and forgets no block.                        *)
LEMMA OtherJobs ==
    ASSUME NEW w, JobOK(w), job'[w] = job[w], w \in reorged' <=> w \in reorged,
           canon' = canon, stored \subseteq stored'
    PROVE  JobOK(w)'
<1>1. Resolved(job[w])' <=> Resolved(job[w])
  BY DEF Resolved
<1>2. Capped(job[w])' <=> Capped(job[w])
  BY DEF Capped
<1>3. Settled(job[w])' <=> Settled(job[w])
  BY DEF Settled, Right, MadeOn, FreshOn, TakenIn, TimesTaken
<1> QED BY <1>1, <1>2, <1>3 DEF JobOK

(* The parts of IInv about blocks survive a step that stores and refuses none, *)
(* and a job that is replaced is the only one to look at.                     *)
LEMMA JobStep ==
    ASSUME IInv, NEW w \in Worker, NEW j \in Job \cup {NoJob},
           job' = [job EXCEPT ![w] = j], reorged' \in {reorged, reorged \ {w}},
           UNCHANGED <<stored, canon, tainted, refused>>, JobOK(w)'
    PROVE  IInv'
<1>1. TypeOK'
  BY DEF IInv, TypeOK
<1>2. ASSUME NEW v \in Worker PROVE JobOK(v)'
  <2>1. CASE v = w
    BY <2>1
  <2>2. CASE v # w
    <3>1. job'[v] = job[v] /\ (v \in reorged' <=> v \in reorged)
      BY <2>2 DEF IInv, TypeOK
    <3> QED BY <3>1, OtherJobs DEF IInv
  <2> QED BY <2>1, <2>2
<1>3. (\A b \in stored : Elements(Anc[b]) \subseteq stored)'
  BY DEF IInv, Elements
<1>4. (canon # <<>> => \E b \in stored : canon = Anc[b])'
  BY DEF IInv
<1>5. NoDoubleSpendUnlessReorged' /\ InflowsOnChainUnlessReorged' /\ RefusedForCause'
  BY DEF IInv, NoDoubleSpendUnlessReorged, InflowsOnChainUnlessReorged, RefusedForCause,
         SpendsFresh, InflowsExist, MadeOn, FreshOn, TakenIn, TimesTaken
<1> QED BY <1>1, <1>2, <1>3, <1>4, <1>5 DEF IInv

LEMMA BeginOK ==
    ASSUME IInv, NEW w \in Worker, NEW b \in Block, Begin(w, b)
    PROVE  IInv'
<1> DEFINE j == Asking(b, 1, "made")
<1>1. /\ j \in Job /\ Resolved(j) /\ j.step # "query"
      /\ j.step = "store" <=> 1 > Len(Takes[b])
  BY AskingOK
<1>2. j.block = b /\ j.flow = 1 /\ j.asks = "made"
  BY DEF Asking
<1>3. job'[w] = j
  BY DEF Begin, IInv, TypeOK
<1>4. Capped(j)' /\ Resolved(j)' /\ Settled(j)'
  <2>1. Len(Takes[b]) \in Nat
    BY BlockAssumption
  <2> QED BY <1>1, <1>2, <2>1 DEF Capped, Resolved, Settled
<1>5. JobOK(w)'
  <2>1. Elements(Front(Anc[b])) \subseteq stored'
    BY DEF Begin
  <2> HIDE DEF j
  <2> QED BY <1>1, <1>2, <1>3, <1>4, <2>1 DEF JobOK
<1> QED BY <1>1, <1>5, JobStep DEF Begin

LEMMA WalkOK ==
    ASSUME IInv, NEW w \in Worker, Walk(w)
    PROVE  IInv'
<1> DEFINE j == job[w]
           anc == Anc[j.block]
           n == Len(j.at)
<1>1. j \in Job /\ j # NoJob /\ j.step = "walk" /\ canon \in Seq(Block)
  BY DEF Walk, NoJob, IInv, TypeOK
<1>2. /\ j.block \in Block /\ j.at \in Seq(Block) /\ n \in Nat
      /\ j.divergent \subseteq Block /\ j.cap \in Nat
      /\ j.flow \in Nat \ {0} /\ j.asks \in {"made", "taken"}
  BY <1>1 DEF Job
<1>3. anc \in Seq(Block) /\ Len(anc) \in Nat \ {0}
  BY <1>2, AncestryFacts
<1>4. JobOK(w) /\ ~(j.flow > Len(Takes[j.block]))
  BY <1>1 DEF IInv, JobOK
<1>5. CASE j.at = NoBlock \/ Top(j.at) \in Elements(canon)
  <2> PICK k : k = [j EXCEPT !.cap = Len(j.at), !.step = "query"]
    OBVIOUS
  <2>1. job' = [job EXCEPT ![w] = k]
    BY <1>5 DEF Walk
  <2>2. /\ k \in Job /\ k # NoJob /\ k.block = j.block /\ k.flow = j.flow /\ k.asks = j.asks
        /\ k.at = j.at /\ k.divergent = j.divergent /\ k.step = "query" /\ k.cap = n
    BY <1>1, <1>2 DEF Job, NoJob
  <2>3. ASSUME Resolved(j) PROVE Capped(k)
    <3>1. CASE n = 0
      BY <3>1, <2>2, <1>1 DEF Capped
    <3>2. CASE n > 0
      <4>1. PICK m \in 1 .. Len(canon) : canon[m] = Top(j.at)
        BY <1>5, <3>2 DEF NoBlock, Elements
      <4>2. PICK c \in Block : canon = Anc[c]
        BY <4>1, <1>1 DEF IInv, TypeOK
      <4>3. anc[n] = canon[m] /\ n \in 1 .. Len(anc)
        <5>1. n \in 1 .. n /\ n < Len(anc)
          BY <2>3, <3>2, <1>2 DEF Resolved
        <5>2. j.at[n] = anc[n]
          BY <2>3, <5>1 DEF Resolved
        <5>3. canon[m] = j.at[n]
          BY <4>1 DEF Top
        <5>4. n \in 1 .. Len(anc)
          BY <5>1, <1>2, <1>3
        <5> QED BY <5>2, <5>3, <5>4, Zenon
      <4>4. n = m /\ \A i \in 1 .. n : anc[i] = canon[i]
        <5>1. m \in 1 .. Len(Anc[c]) /\ Anc[j.block][n] = Anc[c][m]
          <6>1. m \in 1 .. Len(Anc[c]) /\ canon[m] = Anc[c][m]
            BY <4>2
          <6> QED BY <4>3, <6>1, Zenon
        <5>2. n = m /\ \A i \in 1 .. n : Anc[j.block][i] = Anc[c][i]
          <6>1. j.block \in Block /\ n \in 1 .. Len(Anc[j.block])
            BY <4>3, <1>2
          <6> HIDE DEF j, n
          <6> QED BY <5>1, <6>1, SharedAncestry, SMT
        <5> QED BY <4>2, <5>2
      <4> QED BY <4>4, <4>1, <1>1, <2>2 DEF Capped
    <3> QED BY <3>1, <3>2, <1>2
  <2>4. job'[w] = k
    BY <2>1 DEF IInv, TypeOK
  <2>5. ASSUME w \notin reorged PROVE Resolved(k)' /\ Capped(k)' /\ Settled(k)'
    <3>1. Resolved(j) /\ Settled(j)
      BY <2>5, <1>4, <1>1 DEF JobOK
    <3>2. Resolved(k)'
      BY <3>1, <2>2 DEF Resolved
    <3>3. Capped(k)'
      BY <3>1, <2>3 DEF Capped, Walk
    <3>4. Settled(k)'
      <4>1. Settled(k)
        BY <3>1, <2>2, <1>1 DEF Settled
      <4> QED BY <4>1 DEF Settled, Right, MadeOn, FreshOn, TakenIn, TimesTaken
    <3> QED BY <3>2, <3>3, <3>4
  <2>6. JobOK(w)'
    BY <2>2, <2>4, <2>5, <1>4, <1>1 DEF JobOK, Walk
  <2> QED BY <2>1, <2>2, <2>6, JobStep DEF Walk
<1>6. CASE ~(j.at = NoBlock \/ Top(j.at) \in Elements(canon))
  <2> PICK k : k = [j EXCEPT !.divergent = @ \cup {Top(j.at)}, !.at = Front(@)]
    OBVIOUS
  <2>1. job' = [job EXCEPT ![w] = k]
    BY <1>6 DEF Walk
  <2>2. /\ n > 0
        /\ Front(j.at) \in Seq(Block) /\ Len(Front(j.at)) = n - 1
        /\ \A i \in 1 .. n - 1 : Front(j.at)[i] = j.at[i]
        /\ j.at[n] \in Block
    <3>1. n > 0 /\ \A i \in 1 .. n - 1 : j.at[i] \in Block
      BY <1>6, <1>2 DEF NoBlock
    <3>2. j.at[n] \in Block
      BY <3>1, <1>2
    <3> QED BY <3>1, <3>2, <1>2, SubSeqProperties DEF Front
  <2>3. /\ k \in Job /\ k # NoJob /\ k.block = j.block /\ k.flow = j.flow /\ k.asks = j.asks
        /\ k.at = Front(j.at) /\ k.divergent = j.divergent \cup {j.at[n]} /\ k.step = "walk"
    BY <1>1, <1>2, <2>2 DEF Job, NoJob, Top
  <2>4. job'[w] = k
    BY <2>1 DEF IInv, TypeOK
  <2>5. ASSUME Resolved(j) PROVE Resolved(k)
    <3>1. j.at[n] = anc[n] /\ n < Len(anc)
      <4>1. n \in 1 .. n
        BY <2>2, <1>2
      <4> QED BY <4>1, <2>5 DEF Resolved
    <3>2. n .. Len(anc) - 1 = {n} \cup (n + 1 .. Len(anc) - 1)
      BY <3>1, <1>2, <1>3
    <3>3. \A x \in Block : x \in k.divergent <=> \E i \in n .. Len(anc) - 1 : anc[i] = x
      BY <3>1, <3>2, <2>3, <2>5 DEF Resolved
    <3>4. Len(k.at) < Len(anc)
      BY <3>1, <2>2, <2>3, <1>2, <1>3
    <3>5. \A i \in 1 .. n - 1 : k.at[i] = anc[i]
      <4>1. \A i \in 1 .. n : j.at[i] = anc[i]
        BY <2>5 DEF Resolved
      <4> QED BY <4>1, <2>2, <2>3, <1>2
    <3>6. Len(k.at) = n - 1 /\ Len(k.at) + 1 = n
      BY <2>2, <2>3, <1>2
    <3> QED BY <3>3, <3>4, <3>5, <3>6, <2>3 DEF Resolved
  <2>6. ASSUME w \notin reorged PROVE Resolved(k)' /\ Capped(k)' /\ Settled(k)'
    <3>1. Resolved(j) /\ Settled(j)
      BY <2>6, <1>4, <1>1 DEF JobOK
    <3>2. Resolved(k)'
      BY <3>1, <2>5 DEF Resolved
    <3>3. Capped(k)'
      BY <2>3 DEF Capped
    <3>4. Settled(k)'
      <4>1. Settled(k)
        BY <3>1, <2>3, <1>1 DEF Settled
      <4> QED BY <4>1 DEF Settled, Right, MadeOn, FreshOn, TakenIn, TimesTaken
    <3> QED BY <3>2, <3>3, <3>4
  <2>7. JobOK(w)'
    BY <2>3, <2>4, <2>6, <1>4, <1>1 DEF JobOK, Walk
  <2> QED BY <2>1, <2>3, <2>7, JobStep DEF Walk
<1> QED BY <1>5, <1>6

(* What a query in hand knows.                                                *)
LEMMA QueryFacts ==
    ASSUME IInv, NEW w \in Worker, job[w].step = "query"
    PROVE  /\ job[w] \in Job /\ job[w] # NoJob
           /\ job[w].block \in Block /\ job[w].asks \in {"made", "taken"}
           /\ job[w].flow \in 1 .. Len(Takes[job[w].block])
           /\ Elements(Front(Anc[job[w].block])) \subseteq stored
           /\ w \notin reorged =>
                 /\ Settled(job[w])
                 /\ Accepts(job[w]) <=>
                       IF job[w].asks = "made"
                       THEN MadeOn(job[w].block, Takes[job[w].block][job[w].flow])
                       ELSE FreshOn(job[w].block, Takes[job[w].block][job[w].flow])
<1>1. job[w] \in Job /\ job[w] # NoJob /\ canon \in Seq(Block)
  BY DEF NoJob, IInv, TypeOK
<1>2. job[w].block \in Block /\ job[w].asks \in {"made", "taken"} /\ job[w].flow \in Nat \ {0}
  BY <1>1 DEF Job
<1>3. JobOK(w)
  BY DEF IInv
<1>4. ~(job[w].flow > Len(Takes[job[w].block])) /\ Len(Takes[job[w].block]) \in Nat
  BY <1>1, <1>2, <1>3, BlockAssumption DEF JobOK
<1>5. job[w].flow \in 1 .. Len(Takes[job[w].block])
  BY <1>2, <1>4
<1>6. w \notin reorged => Resolved(job[w]) /\ Capped(job[w]) /\ Settled(job[w])
  BY <1>1, <1>3 DEF JobOK
<1> QED BY <1>1, <1>2, <1>3, <1>5, <1>6, AcceptsRightly DEF JobOK

LEMMA PassOK ==
    ASSUME IInv, NEW w \in Worker, Pass(w)
    PROVE  IInv'
<1> PICK j : j = job[w]
  OBVIOUS
<1>1. /\ j \in Job /\ j # NoJob /\ j.block \in Block /\ j.asks \in {"made", "taken"}
      /\ j.flow \in 1 .. Len(Takes[j.block]) /\ j.step = "query"
      /\ Elements(Front(Anc[j.block])) \subseteq stored
  BY QueryFacts DEF Pass
<1>2. w \notin reorged =>
          /\ Settled(j)
          /\ j.asks = "made" => MadeOn(j.block, Takes[j.block][j.flow])
          /\ j.asks = "taken" => FreshOn(j.block, Takes[j.block][j.flow])
  BY QueryFacts DEF Pass
<1>3. Len(Takes[j.block]) \in Nat /\ j.flow \in Nat \ {0}
  BY <1>1, BlockAssumption
<1> PICK k : k = IF j.asks = "made" THEN Asking(j.block, j.flow, "taken")
                 ELSE Asking(j.block, j.flow + 1, "made")
  OBVIOUS
<1>4. job' = [job EXCEPT ![w] = k] /\ job'[w] = k
  BY DEF Pass, IInv, TypeOK
<1>5. /\ k \in Job /\ Resolved(k) /\ k.step # "query" /\ k # NoJob
      /\ k.step = "store" <=> k.flow > Len(Takes[k.block])
      /\ k.block = j.block
  <2> PICK f \in Nat \ {0}, a \in {"made", "taken"} : k = Asking(j.block, f, a)
    <3>1. j.flow + 1 \in Nat \ {0}
      BY <1>3
    <3> QED BY <3>1, <1>3
  <2>1. k.block = j.block /\ k.flow = f
    BY DEF Asking
  <2>2. /\ k \in Job /\ Resolved(k) /\ k.step # "query"
        /\ k.step = "store" <=> f > Len(Takes[j.block])
    BY <1>1, AskingOK
  <2>3. k # NoJob
    BY <2>2 DEF Job, NoJob
  <2> QED BY <2>1, <2>2, <2>3
<1>6. ASSUME w \notin reorged PROVE Settled(k)
  <2>1. CASE j.asks = "made"
    <3>1. k.flow = j.flow /\ k.asks = "taken"
      BY <2>1 DEF Asking
    <3>2. Settled(j) /\ MadeOn(j.block, Takes[j.block][j.flow])
      BY <2>1, <1>2, <1>6
    <3> QED BY <3>1, <3>2, <1>5, Zenon DEF Settled
  <2>2. CASE j.asks = "taken"
    <3>1. k.flow = j.flow + 1 /\ k.asks = "made"
      BY <2>2 DEF Asking
    <3>2. Right(j.block, j.flow)
      <4>1. Settled(j) /\ FreshOn(j.block, Takes[j.block][j.flow])
        BY <2>2, <1>2, <1>6
      <4>2. j.step # "store"
        BY <1>1
      <4> QED BY <4>1, <4>2, <2>2 DEF Settled, Right
    <3>3. \A i \in 1 .. Len(Takes[j.block]) : i < j.flow + 1 => i < j.flow \/ i = j.flow
      BY <1>3
    <3>4. \A i \in 1 .. Len(Takes[j.block]) : i < j.flow => Right(j.block, i)
      BY <1>2, <1>6 DEF Settled
    <3>5. \A i \in 1 .. Len(Takes[j.block]) : i < j.flow + 1 => Right(j.block, i)
      BY <3>2, <3>3, <3>4, Zenon
    <3> QED BY <3>1, <3>5, <1>5, Zenon DEF Settled
  <2> QED BY <2>1, <2>2, <1>1
<1>7. ASSUME w \notin reorged PROVE Resolved(k)' /\ Capped(k)' /\ Settled(k)'
  <2>1. Resolved(k)'
    BY <1>5, Zenon DEF Resolved
  <2>2. Capped(k)'
    BY <1>5, Zenon DEF Capped
  <2>3. Settled(k)'
    BY <1>6, <1>7, Zenon DEF Settled, Right, MadeOn, FreshOn, TakenIn, TimesTaken
  <2> QED BY <2>1, <2>2, <2>3
<1>8. JobOK(w)'
  BY <1>1, <1>4, <1>5, <1>7 DEF JobOK, Pass
<1> QED BY <1>4, <1>5, <1>8, JobStep DEF Pass

(* The other jobs when one ends and the canonical chain stays.                 *)
LEMMA EndsJob ==
    ASSUME IInv, NEW w \in Worker, job' = [job EXCEPT ![w] = NoJob],
           reorged' = reorged \ {w}, canon' = canon, stored \subseteq stored',
           NEW v \in Worker
    PROVE  JobOK(v)'
<1>1. CASE v = w
  BY <1>1 DEF JobOK, IInv, TypeOK
<1>2. CASE v # w
  <2>1. job'[v] = job[v] /\ (v \in reorged' <=> v \in reorged)
    BY <1>2 DEF IInv, TypeOK
  <2> QED BY <2>1, OtherJobs DEF IInv
<1> QED BY <1>1, <1>2

LEMMA RefuseOK ==
    ASSUME IInv, NEW w \in Worker, Refuse(w)
    PROVE  IInv'
<1>1. TypeOK'
  BY QueryFacts DEF IInv, TypeOK, Refuse
<1>2. \A v \in Worker : JobOK(v)'
  BY EndsJob DEF Refuse
<1>3. ASSUME w \notin reorged
      PROVE  ~(InflowsExist(job[w].block) /\ SpendsFresh(job[w].block))
  <2>1. Takes[job[w].block][job[w].flow] \in TakenIn(job[w].block)
    BY QueryFacts DEF TakenIn, Elements, Refuse
  <2> QED BY <2>1, <1>3, QueryFacts DEF InflowsExist, SpendsFresh, Refuse
<1>4. \A b \in refused' : ~(InflowsExist(b) /\ SpendsFresh(b))
  BY <1>3 DEF Refuse, IInv, RefusedForCause
<1>5. RefusedForCause'
  BY <1>4 DEF RefusedForCause, SpendsFresh, InflowsExist, MadeOn, FreshOn, TakenIn, TimesTaken
<1>6. NoDoubleSpendUnlessReorged' /\ InflowsOnChainUnlessReorged'
  BY DEF Refuse, IInv, NoDoubleSpendUnlessReorged, InflowsOnChainUnlessReorged,
         SpendsFresh, InflowsExist, MadeOn, FreshOn, TakenIn, TimesTaken
<1>7. /\ (\A b \in stored : Elements(Anc[b]) \subseteq stored)'
      /\ (canon # <<>> => \E b \in stored : canon = Anc[b])'
  BY DEF IInv, Elements, Refuse
<1> QED BY <1>1, <1>2, <1>5, <1>6, <1>7 DEF IInv

LEMMA StoreOK ==
    ASSUME IInv, NEW w \in Worker, Store(w)
    PROVE  IInv'
<1> PICK b : b = job[w].block
  OBVIOUS
<1>1. job[w] \in Job /\ job[w] # NoJob /\ job[w].step = "store" /\ b \in Block
  BY DEF Store, NoJob, IInv, TypeOK, Job
<1>2. JobOK(w) /\ job[w].flow > Len(Takes[b])
  BY <1>1 DEF IInv, JobOK
<1>3. TypeOK'
  BY <1>1 DEF IInv, TypeOK, Store
<1>4. \A v \in Worker : JobOK(v)'
  BY EndsJob DEF Store
<1>5. stored' = stored \cup {b}
  BY DEF Store
<1>6. Elements(Anc[b]) \subseteq stored'
  <2>1. \A i \in 1 .. Len(Anc[b]) - 1 : Anc[b][i] \in stored
    <3>1. \A i \in 1 .. Len(Front(Anc[b])) : Front(Anc[b])[i] \in stored
      BY <1>1, <1>2 DEF JobOK, Elements
    <3>2. /\ Len(Front(Anc[b])) = Len(Anc[b]) - 1
          /\ \A i \in 1 .. Len(Anc[b]) - 1 : Front(Anc[b])[i] = Anc[b][i]
      BY <1>1, AncestryFacts
    <3> QED BY <3>1, <3>2
  <2>2. \A i \in 1 .. Len(Anc[b]) : i \in 1 .. Len(Anc[b]) - 1 \/ i = Len(Anc[b])
    BY <1>1, AncestryFacts
  <2>3. Anc[b][Len(Anc[b])] = b
    BY <1>1, AncestryFacts
  <2> QED BY <2>1, <2>2, <2>3, <1>5 DEF Elements
<1>7. (\A c \in stored : Elements(Anc[c]) \subseteq stored)'
  BY <1>5, <1>6 DEF IInv, Elements
<1>8. (canon # <<>> => \E c \in stored : canon = Anc[c])'
  BY <1>5 DEF IInv, Store
<1>9. ASSUME w \notin reorged PROVE InflowsExist(b) /\ SpendsFresh(b)
  <2>1. Settled(job[w])
    BY <1>1, <1>2, <1>9 DEF JobOK
  <2>2. \A i \in 1 .. Len(Takes[b]) : i < job[w].flow
    BY <1>1, <1>2, BlockAssumption DEF Job
  <2>3. \A i \in 1 .. Len(Takes[b]) : MadeOn(b, Takes[b][i]) /\ FreshOn(b, Takes[b][i])
    BY <2>1, <2>2, <1>1 DEF Settled, Right
  <2> QED BY <2>3 DEF InflowsExist, SpendsFresh, TakenIn, Elements
<1>10. \A c \in stored' \ tainted' : InflowsExist(c) /\ SpendsFresh(c)
  BY <1>5, <1>9 DEF Store, IInv, NoDoubleSpendUnlessReorged, InflowsOnChainUnlessReorged
<1>11. NoDoubleSpendUnlessReorged' /\ InflowsOnChainUnlessReorged'
  BY <1>10 DEF NoDoubleSpendUnlessReorged, InflowsOnChainUnlessReorged,
               SpendsFresh, InflowsExist, MadeOn, FreshOn, TakenIn, TimesTaken
<1>12. RefusedForCause'
  BY DEF Store, IInv, RefusedForCause,
         SpendsFresh, InflowsExist, MadeOn, FreshOn, TakenIn, TimesTaken
<1> QED BY <1>3, <1>4, <1>7, <1>8, <1>11, <1>12 DEF IInv

LEMMA AbandonOK ==
    ASSUME IInv, NEW w \in Worker, Abandon(w)
    PROVE  IInv'
<1>1. JobOK(w)'
  BY EndsJob DEF Abandon
<1> QED BY <1>1, JobStep DEF Abandon

LEMMA AdoptOK ==
    ASSUME IInv, NEW b \in Block, Adopt(b)
    PROVE  IInv'
<1>1. TypeOK'
  BY AncestryFacts DEF IInv, TypeOK, Adopt
<1>2. ASSUME NEW w \in Worker PROVE JobOK(w)'
  <2> PICK j : j = job[w]
    OBVIOUS
  <2>1. job'[w] = j /\ JobOK(w) /\ stored' = stored /\ canon' = Anc[b] /\ reorged \subseteq reorged'
    BY DEF Adopt, IInv
  <2>2. ASSUME j # NoJob, w \notin reorged' PROVE Resolved(j)' /\ Capped(j)' /\ Settled(j)'
    <3>1. w \notin reorged /\ IsPrefix(canon, Anc[b])
      BY <2>2 DEF Adopt
    <3>2. Resolved(j) /\ Capped(j) /\ Settled(j)
      BY <2>1, <2>2, <3>1 DEF JobOK
    <3>3. Resolved(j)'
      BY <3>2 DEF Resolved
    <3>4. Settled(j)'
      BY <3>2 DEF Settled, Right, MadeOn, FreshOn, TakenIn, TimesTaken
    <3>5. Capped(j)'
      <4>1. j \in Job /\ Len(canon) \in Nat /\ Len(Anc[b]) \in Nat /\ j.cap \in Nat
        BY <2>2, AncestryFacts DEF IInv, TypeOK, Job
      <4> QED BY <4>1, <3>1, <3>2, <2>1 DEF Capped, IsPrefix
    <3> QED BY <3>3, <3>4, <3>5
  <2> QED BY <2>1, <2>2 DEF JobOK
<1>3. (\A c \in stored : Elements(Anc[c]) \subseteq stored)'
  BY DEF IInv, Elements, Adopt
<1>4. (canon # <<>> => \E c \in stored : canon = Anc[c])'
  BY DEF Adopt
<1>5. NoDoubleSpendUnlessReorged' /\ InflowsOnChainUnlessReorged' /\ RefusedForCause'
  BY DEF Adopt, IInv, NoDoubleSpendUnlessReorged, InflowsOnChainUnlessReorged, RefusedForCause,
         SpendsFresh, InflowsExist, MadeOn, FreshOn, TakenIn, TimesTaken
<1> QED BY <1>1, <1>2, <1>3, <1>4, <1>5 DEF IInv

LEMMA StutterOK == IInv /\ UNCHANGED vars => IInv'
<1> SUFFICES ASSUME IInv, UNCHANGED vars PROVE IInv'
  OBVIOUS
<1>1. TypeOK'
  BY DEF IInv, TypeOK, vars
<1>2. \A w \in Worker : JobOK(w)'
  BY OtherJobs DEF IInv, vars
<1>3. /\ (\A c \in stored : Elements(Anc[c]) \subseteq stored)'
      /\ (canon # <<>> => \E c \in stored : canon = Anc[c])'
  BY DEF IInv, Elements, vars
<1>4. NoDoubleSpendUnlessReorged' /\ InflowsOnChainUnlessReorged' /\ RefusedForCause'
  BY DEF vars, IInv, NoDoubleSpendUnlessReorged, InflowsOnChainUnlessReorged, RefusedForCause,
         SpendsFresh, InflowsExist, MadeOn, FreshOn, TakenIn, TimesTaken
<1> QED BY <1>1, <1>2, <1>3, <1>4 DEF IInv

-----------------------------------------------------------------------------
(* IInv is an inductive invariant: validation without a reorganisation in it    *)
(* answers every question as the block's own chain does.                      *)
THEOREM SpendingIsInductive == Spec => []IInv
<1>1. IInv /\ [Next]_vars => IInv'
  <2> SUFFICES ASSUME IInv, Next PROVE IInv'
    BY StutterOK
  <2>1. ASSUME NEW w \in Worker, NEW b \in Block, Begin(w, b) PROVE IInv'
    BY <2>1, BeginOK
  <2>2. ASSUME NEW w \in Worker, Walk(w) PROVE IInv'
    BY <2>2, WalkOK
  <2>3. ASSUME NEW w \in Worker, Pass(w) PROVE IInv'
    BY <2>3, PassOK
  <2>4. ASSUME NEW w \in Worker, Refuse(w) PROVE IInv'
    BY <2>4, RefuseOK
  <2>5. ASSUME NEW w \in Worker, Store(w) PROVE IInv'
    BY <2>5, StoreOK
  <2>6. ASSUME NEW w \in Worker, Abandon(w) PROVE IInv'
    BY <2>6, AbandonOK
  <2>7. ASSUME NEW b \in Block, Adopt(b) PROVE IInv'
    BY <2>7, AdoptOK
  <2> QED BY <2>1, <2>2, <2>3, <2>4, <2>5, <2>6, <2>7 DEF Next
<1> QED BY <1>1, InitOK, PTL DEF Spec

(* The variables keep their types.                                            *)
THEOREM SpendingTypeCorrect == Spec => []TypeOK
<1>1. IInv => TypeOK
  BY DEF IInv
<1> QED BY <1>1, SpendingIsInductive, PTL

(* A block whose validation (Chain.validate_txn_inflow) overlapped no           *)
(* reorganisation spends nothing its chain spent, on any fork.                 *)
THEOREM SpentOnceUnlessReorged == Spec => []NoDoubleSpendUnlessReorged
<1>1. IInv => NoDoubleSpendUnlessReorged
  BY DEF IInv
<1> QED BY <1>1, SpendingIsInductive, PTL

(* And consumes only outflows of its own chain.                               *)
THEOREM InflowsAreOnChainUnlessReorged == Spec => []InflowsOnChainUnlessReorged
<1>1. IInv => InflowsOnChainUnlessReorged
  BY DEF IInv
<1> QED BY <1>1, SpendingIsInductive, PTL

(* And is refused only if it does neither, whatever the other forks hold.      *)
THEOREM RefusalsHaveCause == Spec => []RefusedForCause
<1>1. IInv => RefusedForCause
  BY DEF IInv
<1> QED BY <1>1, SpendingIsInductive, PTL
=============================================================================
