---------------------------- MODULE MempoolProofs ----------------------------
(***************************************************************************)
(* Proofs about Mempool, for any transactions, any finite number of workers  *)
(* and any limits.                                                          *)
(***************************************************************************)
EXTENDS Mempool, Lemmas, SequenceTheorems

-----------------------------------------------------------------------------
(* The loops.                                                                *)

(* What the pool lists is of the pool, and an empty list is of an empty pool.   *)
LEMMA OrderedFacts ==
    ASSUME NEW S, S \subseteq Txn
    PROVE  /\ Ordered(S) \in Seq(Txn)
           /\ S # {} => Ordered(S) # <<>>
<1> DEFINE n == Len(InOrder)
           Round(f, i) == IF InOrder[i] \in S THEN Append(f[i - 1], InOrder[i]) ELSE f[i - 1]
           Body(f) == [i \in 0 .. n |-> IF i = 0 THEN <<>> ELSE Round(f, i)]
           upTo == CHOOSE f : f = Body(f)
           step == [i \in 1 .. n |-> [s \in Seq(Txn) |->
                        IF InOrder[i] \in S THEN Append(s, InOrder[i]) ELSE s]]
<1>1. n \in Nat /\ \A i \in 1 .. n : InOrder[i] \in Txn
  BY TxnAssumption
<1>2. <<>> \in Seq(Txn)
  OBVIOUS
<1>3. step \in [1 .. n -> [Seq(Txn) -> Seq(Txn)]]
  <2>1. \A i \in 1 .. n : \A s \in Seq(Txn) :
           (IF InOrder[i] \in S THEN Append(s, InOrder[i]) ELSE s) \in Seq(Txn)
    BY <1>1
  <2> HIDE DEF n
  <2> QED BY <2>1
<1>4. PICK f \in [0 .. n -> Seq(Txn)] :
         f[0] = <<>> /\ \A i \in 1 .. n : f[i] = step[i][f[i - 1]]
  <2>1. IsLoop(n, Seq(Txn), <<>>, step)
    <3> HIDE DEF step, n
    <3> QED BY <1>1, <1>2, <1>3 DEF IsLoop
  <2> HIDE DEF step, n
  <2>2. PICK f : f \in Histories(n, Seq(Txn), <<>>, step)
    BY <2>1, LoopHasHistory
  <2> QED BY <2>2 DEF Histories
<1>5. \A i \in 1 .. n : f[i] = Round(f, i)
  <2> TAKE i \in 1 .. n
  <2>1. f[i - 1] \in Seq(Txn)
    BY <1>1
  <2>2. step[i] = [s \in Seq(Txn) |-> IF InOrder[i] \in S THEN Append(s, InOrder[i]) ELSE s]
    <3> HIDE DEF n
    <3> QED OBVIOUS
  <2> HIDE DEF n, step
  <2>3. step[i][f[i - 1]] = Round(f, i)
    BY <2>1, <2>2
  <2> QED BY <1>4, <2>3
<1>6. f = Body(f)
  <2> HIDE DEF n, Round
  <2> QED BY <1>1, <1>4, <1>5
<1>7. upTo = Body(upTo)
  <2> HIDE DEF Body
  <2> QED BY <1>6
<1> HIDE DEF upTo, step
<1>8. upTo[0] = <<>> /\ \A i \in 1 .. n : upTo[i] = Round(upTo, i)
  <2>1. \A i \in 0 .. n : upTo[i] = IF i = 0 THEN <<>> ELSE Round(upTo, i)
    <3> HIDE DEF Round
    <3> QED BY <1>7
  <2> HIDE DEF n, Round
  <2> QED BY <1>1, <2>1
<1> DEFINE Some(i) == (\E k \in 1 .. i : InOrder[k] \in S) => upTo[i] # <<>>
           D == {i \in 0 .. n : upTo[i] \in Seq(Txn) /\ Some(i)}
<1>9. 0 .. n \subseteq D
  <2>1. 0 \in D
    <3>1. 0 \in 0 .. n /\ 1 .. 0 = {}
      BY <1>1
    <3>2. Some(0)
      BY <3>1
    <3> HIDE DEF Some, n
    <3> QED BY <1>8, <1>2, <3>1, <3>2
  <2>2. ASSUME NEW i \in 1 .. n, i - 1 \in D PROVE i \in D
    <3>1. upTo[i - 1] \in Seq(Txn) /\ Some(i - 1)
      <4> HIDE DEF Some, n
      <4> QED BY <2>2
    <3>2. CASE InOrder[i] \in S
      <4>1. upTo[i] = Append(upTo[i - 1], InOrder[i])
        BY <1>8, <3>2
      <4>2. upTo[i] \in Seq(Txn) /\ upTo[i] # <<>>
        <5>1. InOrder[i] \in Txn
          BY <1>1
        <5> HIDE DEF Some, n
        <5> QED BY <4>1, <3>1, <5>1, AppendProperties
      <4> QED BY <4>2
    <3>3. CASE InOrder[i] \notin S
      <4>1. upTo[i] = upTo[i - 1]
        BY <1>8, <3>3
      <4>2. ASSUME NEW k \in 1 .. i, InOrder[k] \in S PROVE k \in 1 .. i - 1
        BY <3>3, <4>2
      <4> QED BY <3>1, <4>1, <4>2
    <3> QED BY <3>2, <3>3
  <2> HIDE DEF D
  <2> QED BY <1>1, <2>1, <2>2, InductionUpTo
<1>10. n \in D
  BY <1>1, <1>9
<1>11. Ordered(S) = upTo[n]
  BY DEF Ordered, upTo
<1>12. S # {} => \E k \in 1 .. n : InOrder[k] \in S
  BY TxnAssumption DEF Range
<1> QED BY <1>10, <1>11, <1>12

(* A sequence of transactions that fit a chain one after another.              *)
Fitting(txns, confirmed) ==
    \A k \in 1 .. Len(txns) : Fits(txns[k], confirmed \cup Range(SubSeq(txns, 1, k - 1)))

Accumulator == [txns : Seq(Txn), left : Seq(Txn)]

(* What comes before the last element is not changed by it.                    *)
LEMMA AppendKeepsPrefixes ==
    ASSUME NEW S, NEW s \in Seq(S), NEW x \in S
    PROVE  /\ SubSeq(Append(s, x), 1, Len(s)) = s
           /\ \A k \in 1 .. Len(s) : SubSeq(Append(s, x), 1, k - 1) = SubSeq(s, 1, k - 1)
<1> DEFINE r == Append(s, x)
<1>1. /\ r \in Seq(S) /\ Len(r) = Len(s) + 1 /\ Len(s) \in Nat
      /\ \A i \in 1 .. Len(s) : r[i] = s[i] /\ s[i] \in S
  BY AppendProperties, ElementOfSeq
<1> HIDE DEF r
<1>2. ASSUME NEW m \in 0 .. Len(s) PROVE SubSeq(r, 1, m) = SubSeq(s, 1, m)
  <2>1. \A i \in 1 .. m : i \in 1 .. Len(s) /\ r[i] = s[i] /\ s[i] \in S
    BY <1>1
  <2>2. /\ SubSeq(r, 1, m) \in Seq(S) /\ Len(SubSeq(r, 1, m)) = m
        /\ \A i \in 1 .. m : SubSeq(r, 1, m)[i] = r[i]
    BY <2>1, <1>1, SubSeqProperties
  <2>3. /\ SubSeq(s, 1, m) \in Seq(S) /\ Len(SubSeq(s, 1, m)) = m
        /\ \A i \in 1 .. m : SubSeq(s, 1, m)[i] = s[i]
    BY <2>1, <1>1, SubSeqProperties
  <2> QED BY <2>1, <2>2, <2>3, SeqEqual
<1>3. SubSeq(s, 1, Len(s)) = s
  BY <1>1, SubSeqFull
<1>4. \A k \in 1 .. Len(s) : SubSeq(r, 1, k - 1) = SubSeq(s, 1, k - 1)
  BY <1>1, <1>2
<1>5. SubSeq(r, 1, Len(s)) = s
  BY <1>1, <1>2, <1>3
<1> QED BY <1>4, <1>5 DEF r

(* One round of the selection keeps the template fitting.                      *)
LEMMA TakeFacts ==
    ASSUME NEW acc \in Accumulator, NEW t \in Txn, NEW confirmed,
           Fitting(acc.txns, confirmed)
    PROVE  /\ Take(acc, t, confirmed) \in Accumulator
           /\ Fitting(Take(acc, t, confirmed).txns, confirmed)
<1> DEFINE x == acc.txns
           r == Append(x, t)
<1>1. x \in Seq(Txn) /\ acc.left \in Seq(Txn) /\ Len(x) \in Nat
  BY DEF Accumulator
<1>2. CASE Fits(t, confirmed \cup Range(x))
  <2>1. Take(acc, t, confirmed) = [acc EXCEPT !.txns = r]
    BY <1>2 DEF Take
  <2>2. /\ r \in Seq(Txn) /\ Len(r) = Len(x) + 1 /\ r[Len(x) + 1] = t
        /\ \A k \in 1 .. Len(x) : r[k] = x[k]
    BY <1>1, AppendProperties
  <2>3. /\ SubSeq(r, 1, Len(x)) = x
        /\ \A k \in 1 .. Len(x) : SubSeq(r, 1, k - 1) = SubSeq(x, 1, k - 1)
    BY <1>1, AppendKeepsPrefixes
  <2> HIDE DEF r
  <2>4. Take(acc, t, confirmed) \in Accumulator /\ Take(acc, t, confirmed).txns = r
    BY <2>1, <2>2 DEF Accumulator
  <2>5. ASSUME NEW k \in 1 .. Len(r)
        PROVE  Fits(r[k], confirmed \cup Range(SubSeq(r, 1, k - 1)))
    <3>1. CASE k = Len(x) + 1
      <4>1. SubSeq(r, 1, k - 1) = x /\ r[k] = t
        BY <1>1, <2>2, <2>3, <3>1
      <4> QED BY <1>2, <4>1
    <3>2. CASE k # Len(x) + 1
      <4>1. k \in 1 .. Len(x)
        BY <1>1, <2>2, <3>2
      <4>2. r[k] = x[k] /\ SubSeq(r, 1, k - 1) = SubSeq(x, 1, k - 1)
        BY <2>2, <2>3, <4>1
      <4>3. Fits(x[k], confirmed \cup Range(SubSeq(x, 1, k - 1)))
        BY <4>1 DEF Fitting
      <4> QED BY <4>2, <4>3
    <3> QED BY <3>1, <3>2
  <2> QED BY <2>4, <2>5 DEF Fitting
<1>3. CASE ~Fits(t, confirmed \cup Range(x))
  <2>1. Take(acc, t, confirmed) = [acc EXCEPT !.left = Append(@, t)]
    BY <1>3 DEF Take
  <2>2. Append(acc.left, t) \in Seq(Txn)
    BY <1>1
  <2>3. Take(acc, t, confirmed) \in Accumulator /\ Take(acc, t, confirmed).txns = x
    BY <2>1, <2>2 DEF Accumulator
  <2> QED BY <2>3
<1> QED BY <1>2, <1>3

(* The template and what is discarded are of the pool, and the template fits.   *)
LEMMA SelectFacts ==
    ASSUME NEW candidates \in Seq(Txn), NEW confirmed
    PROVE  /\ Select(candidates, confirmed) \in Accumulator
           /\ Fitting(Select(candidates, confirmed).txns, confirmed)
<1> DEFINE n == Len(candidates)
           none == [txns |-> <<>>, left |-> <<>>]
           Round(f, i) == Take(f[i - 1], candidates[i], confirmed)
           Body(f) == [i \in 0 .. n |-> IF i = 0 THEN none ELSE Round(f, i)]
           upTo == CHOOSE f : f = Body(f)
           A == {acc \in Accumulator : Fitting(acc.txns, confirmed)}
           step == [i \in 1 .. n |-> [acc \in A |-> Take(acc, candidates[i], confirmed)]]
<1>1. n \in Nat /\ \A i \in 1 .. n : candidates[i] \in Txn
  OBVIOUS
<1>2. none \in A
  <2>1. none \in Accumulator /\ none.txns = <<>>
    BY DEF Accumulator
  <2>2. 1 .. Len(<<>>) = {}
    OBVIOUS
  <2> HIDE DEF none
  <2>3. Fitting(none.txns, confirmed)
    BY <2>1, <2>2 DEF Fitting
  <2> QED BY <2>1, <2>3
<1>3. \A i \in 1 .. n : \A acc \in A : Take(acc, candidates[i], confirmed) \in A
  BY <1>1, TakeFacts
<1> HIDE DEF none, A, n
<1>4. IsLoop(n, A, none, step)
  BY <1>1, <1>2, <1>3 DEF IsLoop
<1>5. PICK f \in [0 .. n -> A] :
         f[0] = none /\ \A i \in 1 .. n : f[i] = step[i][f[i - 1]]
  <2> HIDE DEF step
  <2>1. PICK f : f \in Histories(n, A, none, step)
    BY <1>4, LoopHasHistory
  <2> QED BY <2>1 DEF Histories
<1>6. \A i \in 1 .. n : f[i] = Round(f, i)
  <2> TAKE i \in 1 .. n
  <2>1. f[i - 1] \in A
    BY <1>1
  <2>2. step[i] = [acc \in A |-> Take(acc, candidates[i], confirmed)]
    OBVIOUS
  <2> HIDE DEF step
  <2>3. step[i][f[i - 1]] = Round(f, i)
    BY <2>1, <2>2
  <2> QED BY <1>5, <2>3
<1>7. f = Body(f)
  <2> HIDE DEF Round
  <2> QED BY <1>1, <1>5, <1>6
<1>8. upTo = Body(upTo)
  <2> HIDE DEF Body
  <2> QED BY <1>7
<1> HIDE DEF upTo, step
<1>9. upTo[0] = none /\ \A i \in 1 .. n : upTo[i] = Round(upTo, i)
  <2>1. \A i \in 0 .. n : upTo[i] = IF i = 0 THEN none ELSE Round(upTo, i)
    <3> HIDE DEF Round
    <3> QED BY <1>8
  <2> HIDE DEF Round
  <2> QED BY <1>1, <2>1
<1> DEFINE D == {i \in 0 .. n : upTo[i] \in A}
<1>10. 0 .. n \subseteq D
  <2>1. 0 \in D
    BY <1>1, <1>2, <1>9
  <2>2. \A i \in 1 .. n : i - 1 \in D => i \in D
    BY <1>1, <1>3, <1>9
  <2> HIDE DEF D
  <2> QED BY <1>1, <2>1, <2>2, InductionUpTo
<1>11. upTo[n] \in A
  BY <1>1, <1>10
<1>12. Select(candidates, confirmed) = upTo[n]
  BY DEF Select, upTo, none, n
<1> QED BY <1>11, <1>12 DEF A

-----------------------------------------------------------------------------
(* The strengthening.  A loop over a list runs only while the list has          *)
(* elements; a reservation is committed for a transaction that is pending or    *)
(* was removed meanwhile; what is about to be deleted goes with all its          *)
(* reservations, or leaves a trace; a template fits the first blocks of a branch,  *)
(* which stay what they were.                                                *)
ResumeOK(j) ==
    /\ j.op = "prune" => j.left # <<>>
    /\ j.op \in {"build", "template", "sealed"} => j.height <= Len(branch[j.base])
    /\ j.op \in {"template", "sealed"} =>
          Fitting(j.txns, Txns(SubSeq(branch[j.base], 1, j.height)))

JobOK(j) ==
    /\ ResumeOK(j)
    /\ j.op = "insert" => j.txn \in pending \cup raced
    /\ j.op = "delete" =>
          /\ ResumeOK(j.next)
          /\ \A r \in reserved : r[1] \in j.rows => r \in j.flows \/ r[1] \in raced
          /\ Underway \cap j.rows \subseteq raced

(* Whoever has passed the check of the limit counts as having added.            *)
Adding == {job[w].txn : w \in {v \in Worker : job[v].op = "add"}}

PoolBound == Cardinality(pending \cup Adding) <= MaxPending + Cardinality(Worker) - 1

IInv ==
    /\ TypeOK
    /\ PoolBound
    /\ ReservationsLeaveToo
    /\ \A p \in Process : JobOK(job[p])

(* The types of what processes share.                                          *)
SharedOK ==
    /\ pending \subseteq Txn
    /\ reserved \subseteq Txn \X Nat
    /\ rows \subseteq Txn
    /\ branch \in [1 .. 2 -> Seq(SUBSET Txn)]
    /\ best \in 1 .. 2
    /\ now \in Nat
    /\ raced \subseteq Txn

(* What no step does: change a block below the top of a branch.                 *)
BranchesGrow ==
    \A b \in 1 .. 2 :
        /\ Len(branch[b]) <= Len(branch'[b])
        /\ \A h \in 0 .. Len(branch[b]) : SubSeq(branch'[b], 1, h) = SubSeq(branch[b], 1, h)

(* Nor let a removal and a reservation meet without a trace: one that removes a    *)
(* transaction under a worker that reserves for it shows, a reservation is only    *)
(* added by such a worker, and one that begins to reserve for what is about to be  *)
(* deleted shows.                                                            *)
RacesShow ==
    /\ raced \subseteq raced'
    /\ \A t \in Underway : t \in pending \cup raced => t \in pending' \cup raced'
    /\ \A r \in reserved' : r \in reserved \/ r[1] \in Underway
    /\ \A t \in Underway' \cap Doomed : t \in Underway \cup raced'

(* A job's fields, by what the process does.                                    *)
LEMMA JobFields ==
    ASSUME NEW j \in Job
    PROVE  /\ j.op \in {"idle", "admit", "add", "reserve", "insert", "delete", "prune",
                        "build", "template", "sealed"}
           /\ j.op \in {"admit", "add", "reserve", "insert"} => j.txn \in Txn
           /\ j.op \in {"reserve", "insert"} => j.flow \in Nat
           /\ j.op = "delete" =>
                 /\ j.rows \subseteq Txn /\ j.flows \subseteq Txn \X Nat
                 /\ j.next \in Resume
           /\ j.op \in {"prune", "template"} => j.left \in Seq(Txn)
           /\ j.op \in {"build", "template", "sealed"} => j.base \in 1 .. 2 /\ j.height \in Nat
           /\ j.op \in {"template", "sealed"} => j.txns \in Seq(Txn)
           /\ j.op = "sealed" => j.at \in Nat
           /\ j.op = "idle" => j = NoJob
BY DEF Job, Resume, NoJob

LEMMA ResumeFields ==
    ASSUME NEW j \in Resume
    PROVE  j \in Job /\ j.op \in {"idle", "prune", "build", "template"}
BY DEF Job, Resume, NoJob

LEMMA NoJobOK == NoJob \in Resume /\ NoJob \in Job /\ ResumeOK(NoJob)' /\ JobOK(NoJob)'
                 /\ NoJob.op = "idle"
BY DEF NoJob, Resume, Job, ResumeOK, JobOK

(* There are finitely many transactions.                                       *)
LEMMA FinitelyManyTxns == IsFiniteSet(Txn)
<1>1. DOMAIN InOrder = 1 .. Len(InOrder) /\ Len(InOrder) \in Nat /\ Range(InOrder) = Txn
  BY TxnAssumption
<1>2. IsFiniteSet(DOMAIN InOrder)
  BY <1>1, FS_Interval
<1> QED BY <1>1, <1>2, ImageIsNoLarger

(* What a branch held below a height it goes on holding.                         *)
LEMMA ResumeStaysOK ==
    ASSUME NEW j \in Job, ResumeOK(j), BranchesGrow,
           branch \in [1 .. 2 -> Seq(SUBSET Txn)], branch' \in [1 .. 2 -> Seq(SUBSET Txn)]
    PROVE  ResumeOK(j)'
<1>1. ASSUME j.op \in {"build", "template", "sealed"}
      PROVE  /\ j.height <= Len(branch'[j.base])
             /\ SubSeq(branch'[j.base], 1, j.height) = SubSeq(branch[j.base], 1, j.height)
  <2>1. j.base \in 1 .. 2 /\ j.height \in Nat /\ j.height <= Len(branch[j.base])
    BY <1>1, JobFields DEF ResumeOK
  <2>2. PICK b \in 1 .. 2, h \in Nat : b = j.base /\ h = j.height
    BY <2>1
  <2>3. Len(branch[b]) \in Nat /\ Len(branch'[b]) \in Nat
    OBVIOUS
  <2>4. h \in 0 .. Len(branch[b])
    BY <2>1, <2>2, <2>3
  <2>5. /\ Len(branch[b]) <= Len(branch'[b])
        /\ SubSeq(branch'[b], 1, h) = SubSeq(branch[b], 1, h)
    BY <2>4 DEF BranchesGrow
  <2>6. h <= Len(branch'[b])
    BY <2>3, <2>4, <2>5
  <2> QED BY <2>2, <2>5, <2>6
<1>2. ASSUME j.op \in {"template", "sealed"}
      PROVE  Fitting(j.txns, Txns(SubSeq(branch'[j.base], 1, j.height)))
  <2>1. Fitting(j.txns, Txns(SubSeq(branch[j.base], 1, j.height)))
    BY <1>2 DEF ResumeOK
  <2>2. SubSeq(branch'[j.base], 1, j.height) = SubSeq(branch[j.base], 1, j.height)
    BY <1>1, <1>2
  <2> QED BY <2>1, <2>2, Zenon
<1>3. j.op = "prune" => j.left # <<>>
  BY DEF ResumeOK
<1> QED BY <1>1, <1>2, <1>3 DEF ResumeOK

(* The jobs a step leaves alone stay sound.                                     *)
LEMMA OtherJobsOK ==
    ASSUME IInv, NEW v \in Process, BranchesGrow, RacesShow,
           branch' \in [1 .. 2 -> Seq(SUBSET Txn)], job'[v] = job[v]
    PROVE  JobOK(job[v])'
<1> PICK j \in Job : j = job[v]
  BY DEF IInv, TypeOK
<1>1. JobOK(j) /\ branch \in [1 .. 2 -> Seq(SUBSET Txn)]
  BY DEF IInv, TypeOK
<1>2. ASSUME j.op = "insert" PROVE j.txn \in pending' \cup raced'
  <2>1. j.txn \in Underway
    BY <1>2 DEF Underway
  <2> QED BY <1>1, <1>2, <2>1 DEF JobOK, RacesShow
<1>3. ResumeOK(j)'
  BY <1>1, ResumeStaysOK DEF JobOK
<1>4. ASSUME j.op = "delete"
      PROVE  /\ ResumeOK(j.next)'
             /\ \A r \in reserved' : r[1] \in j.rows => r \in j.flows \/ r[1] \in raced'
             /\ Underway' \cap j.rows \subseteq raced'
  <2>1. j.next \in Job /\ ResumeOK(j.next)
    BY <1>1, <1>4, JobFields, ResumeFields DEF JobOK
  <2>2. j.rows \subseteq Doomed
    BY <1>4 DEF Doomed
  <2>3. /\ \A r \in reserved : r[1] \in j.rows => r \in j.flows \/ r[1] \in raced
        /\ Underway \cap j.rows \subseteq raced
    BY <1>1, <1>4 DEF JobOK
  <2>4. ResumeOK(j.next)'
    BY <1>1, <2>1, ResumeStaysOK
  <2> QED BY <2>2, <2>3, <2>4 DEF RacesShow
<1>5. job'[v] = j
  OBVIOUS
<1> QED BY <1>2, <1>3, <1>4, <1>5 DEF JobOK

(* A step that gives one process a sound job, and keeps what is shared sound.    *)
LEMMA StepOK ==
    ASSUME IInv, NEW p \in Process, NEW k \in Job, Become(p, k),
           SharedOK', PoolBound', ReservationsLeaveToo', BranchesGrow, RacesShow, JobOK(k)'
    PROVE  IInv'
<1>1. job \in [Process -> Job] /\ job' = [job EXCEPT ![p] = k]
  BY DEF IInv, TypeOK, Become
<1>2. TypeOK'
  BY <1>1 DEF SharedOK, TypeOK
<1>3. branch' \in [1 .. 2 -> Seq(SUBSET Txn)]
  BY DEF SharedOK
<1>4. ASSUME NEW v \in Process PROVE JobOK(job[v])'
  <2>1. CASE v = p
    <3>1. job'[v] = k
      BY <1>1, <2>1
    <3> QED BY <3>1
  <2>2. CASE v # p
    <3>1. job'[v] = job[v]
      BY <1>1, <2>2
    <3> QED BY <1>3, <3>1, OtherJobsOK
  <2> QED BY <2>1, <2>2
<1> QED BY <1>2, <1>4 DEF IInv

(* A worker that ends or continues a job no longer counts as adding, the others   *)
(* do as before.                                                             *)
LEMMA AddingShrinks ==
    ASSUME TypeOK, NEW p \in Process, NEW k, Become(p, k), k.op # "add"
    PROVE  Adding' \subseteq Adding
BY DEF TypeOK, Become, Adding, Process

(* A process that does not turn to a reservation begins none.                   *)
LEMMA UnderwayShrinks ==
    ASSUME TypeOK, NEW p \in Process, NEW k, Become(p, k), k.op # "insert"
    PROVE  Underway' \subseteq Underway
BY DEF TypeOK, Become, Underway

(* The pool's bound survives a step that adds nobody.                           *)
LEMMA PoolShrinks ==
    ASSUME IInv, Adding' \subseteq Adding, pending' \subseteq pending \cup Adding
    PROVE  PoolBound'
<1>1. job \in [Process -> Job] /\ pending \subseteq Txn
  BY DEF IInv, TypeOK
<1>2. Adding \subseteq Txn
  BY <1>1, JobFields DEF Adding, Process
<1>3. pending' \cup Adding' \subseteq pending \cup Adding
  OBVIOUS
<1>4. IsFiniteSet(pending \cup Adding)
  <2>1. pending \cup Adding \in SUBSET Txn
    BY <1>1, <1>2
  <2> QED BY <2>1, FinitelyManyTxns, FS_Subset
<1>5. Cardinality(pending' \cup Adding') <= Cardinality(pending \cup Adding)
      /\ IsFiniteSet(pending' \cup Adding')
  BY <1>3, <1>4, FS_Subset
<1>6. /\ Cardinality(pending \cup Adding) \in Nat /\ Cardinality(pending' \cup Adding') \in Nat
      /\ Cardinality(Worker) \in Nat /\ MaxPending \in Nat
  BY <1>4, <1>5, PoolAssumption, FS_CardinalityType
<1>7. PoolBound
  BY DEF IInv
<1> QED BY <1>5, <1>6, <1>7 DEF PoolBound

(* A step that leaves the pool alone.                                          *)
LEMMA PoolAlone ==
    ASSUME IInv, UNCHANGED <<pending, reserved, raced>>,
           NEW p \in Process, NEW k, Become(p, k), k.op # "insert"
    PROVE  ReservationsLeaveToo' /\ RacesShow
<1>1. Underway' \subseteq Underway
  BY UnderwayShrinks DEF IInv
<1> QED BY <1>1 DEF IInv, ReservationsLeaveToo, RacesShow

LEMMA BranchesAlone ==
    ASSUME IInv, UNCHANGED branch
    PROVE  BranchesGrow
BY DEF IInv, TypeOK, BranchesGrow

(* What is loaded is marked where somebody reserves for it, and goes with the      *)
(* reservations it has.                                                      *)
LEMMA LoadOK ==
    ASSUME IInv, NEW p \in Process, NEW S \in SUBSET Txn, NEW next \in Resume,
           ResumeOK(next), Load(p, S, next),
           UNCHANGED <<pending, reserved, rows, branch, best, now>>
    PROVE  IInv'
<1> PICK k : k = IF S = {} THEN next
                 ELSE [op |-> "delete", rows |-> S,
                       flows |-> {r \in reserved : r[1] \in S}, next |-> next]
  OBVIOUS
<1>1. Become(p, k) /\ raced' = raced \cup (S \cap Underway)
  BY DEF Load
<1>2. /\ job \in [Process -> Job] /\ raced \subseteq Txn /\ reserved \subseteq Txn \X Nat
      /\ branch \in [1 .. 2 -> Seq(SUBSET Txn)] /\ TypeOK
  BY DEF IInv, TypeOK
<1>3. next \in Job /\ next.op \in {"idle", "prune", "build", "template"}
  BY ResumeFields
<1>4. ResumeOK(next)'
  BY <1>2, <1>3, BranchesAlone, ResumeStaysOK
<1>5. k \in Job /\ k.op # "add" /\ k.op # "insert"
  <2>1. CASE S = {}
    BY <1>3, <2>1
  <2>2. CASE S # {}
    <3>1. {r \in reserved : r[1] \in S} \in SUBSET (Txn \X Nat)
      BY <1>2
    <3>2. k \in [op : {"delete"}, rows : SUBSET Txn, flows : SUBSET (Txn \X Nat), next : Resume]
      BY <2>2, <3>1
    <3> QED BY <3>2 DEF Job
  <2> QED BY <2>1, <2>2
<1>6. Underway' \subseteq Underway
  BY <1>1, <1>2, <1>5, UnderwayShrinks
<1>7. JobOK(k)'
  <2>1. CASE S = {}
    BY <1>3, <1>4, <2>1 DEF JobOK
  <2>2. CASE S # {}
    <3>1. /\ k.op = "delete" /\ k.rows = S /\ k.next = next
          /\ k.flows = {r \in reserved : r[1] \in S}
      BY <2>2
    <3>2. ResumeOK(k)'
      BY <3>1 DEF ResumeOK
    <3>3. \A r \in reserved' : r[1] \in k.rows => r \in k.flows
      BY <3>1
    <3>4. Underway' \cap k.rows \subseteq raced'
      BY <1>1, <1>6, <3>1
    <3> QED BY <1>4, <3>1, <3>2, <3>3, <3>4 DEF JobOK
  <2> QED BY <2>1, <2>2
<1>8. RacesShow
  BY <1>1, <1>6 DEF RacesShow
<1>9. Underway \subseteq Txn
  BY <1>2, JobFields DEF Underway
<1>10. SharedOK'
  BY <1>1, <1>2, <1>9 DEF TypeOK, SharedOK
<1>11. PoolBound'
  BY <1>1, <1>2, <1>5, AddingShrinks, PoolShrinks
<1>12. ReservationsLeaveToo'
  BY <1>1 DEF IInv, ReservationsLeaveToo
<1> QED BY <1>1, <1>5, <1>7, <1>8, <1>10, <1>11, <1>12, BranchesAlone, StepOK

(* A list of more than one element has a rest.                                 *)
LEMMA TailOfLonger ==
    ASSUME NEW S, NEW s \in Seq(S), s # <<>>, Len(s) # 1
    PROVE  Tail(s) \in Seq(S) /\ Tail(s) # <<>>
<1>1. Len(s) \in Nat \ {0}
  BY EmptySeq
<1>2. Tail(s) \in Seq(S) /\ Len(Tail(s)) = Len(s) - 1
  BY HeadTailProperties
<1>3. Len(Tail(s)) # 0
  BY <1>1, <1>2
<1> QED BY <1>2, <1>3, EmptySeq

-----------------------------------------------------------------------------
(* The steps.                                                                *)

LEMMA SubmitOK ==
    ASSUME IInv, NEW w \in Process, NEW t \in Txn, Submit(w, t)
    PROVE  IInv'
<1> PICK k : k = [op |-> "admit", txn |-> t]
  OBVIOUS
<1>1. k \in Job /\ JobOK(k)' /\ k.op # "add" /\ k.op # "insert"
  BY DEF Job, JobOK, ResumeOK
<1>2. Become(w, k) /\ UNCHANGED <<pending, reserved, rows, branch, best, now, raced>>
  BY DEF Submit
<1>3. SharedOK'
  BY <1>2 DEF IInv, TypeOK, SharedOK
<1>4. PoolBound'
  BY <1>1, <1>2, AddingShrinks, PoolShrinks DEF IInv
<1> QED BY <1>1, <1>2, <1>3, <1>4, PoolAlone, BranchesAlone, StepOK

(* Whoever passes the check finds room for one more than the others can add.     *)
LEMMA AdmitOK ==
    ASSUME IInv, NEW w \in Process, Admit(w)
    PROVE  IInv'
<1> DEFINE t == job[w].txn
<1>1. job \in [Process -> Job] /\ job[w] \in Job /\ pending \subseteq Txn
  BY DEF IInv, TypeOK
<1>2. UNCHANGED <<pending, reserved, rows, branch, best, now, raced>>
  BY DEF Admit
<1>3. SharedOK'
  BY <1>2 DEF IInv, TypeOK, SharedOK
<1>4. CASE t \in pending \/ Cardinality(pending) >= MaxPending
  <2>1. Become(w, NoJob)
    BY <1>4 DEF Admit
  <2>2. PoolBound'
    BY <1>2, <2>1, NoJobOK, AddingShrinks, PoolShrinks DEF IInv
  <2> QED BY <1>2, <1>3, <2>1, <2>2, NoJobOK, PoolAlone, BranchesAlone, StepOK
<1>5. CASE ~(t \in pending \/ Cardinality(pending) >= MaxPending)
  <2> PICK k : k = [op |-> "add", txn |-> t]
    OBVIOUS
  <2>1. Become(w, k)
    BY <1>5 DEF Admit
  <2>2. k \in Job /\ JobOK(k)'
    <3>1. t \in Txn
      BY <1>1, JobFields DEF Admit
    <3> QED BY <3>1 DEF Job, JobOK, ResumeOK
  <2>3. PoolBound'
    <3> DEFINE adders == {v \in Worker : job'[v].op = "add"}
               of == [v \in adders |-> job'[v].txn]
    <3>1. adders \in SUBSET Worker
      OBVIOUS
    <3>2. IsFiniteSet(adders) /\ Cardinality(adders) <= Cardinality(Worker)
      BY <3>1, PoolAssumption, FS_Subset
    <3>3. Adding' = Range(of) /\ DOMAIN of = adders
      BY DEF Adding, Range
    <3> HIDE DEF of, adders
    <3>4. IsFiniteSet(Adding') /\ Cardinality(Adding') <= Cardinality(adders)
      BY <3>2, <3>3, ImageIsNoLarger
    <3>5. IsFiniteSet(pending)
      BY <1>1, FinitelyManyTxns, FS_Subset
    <3>6. IsFiniteSet(pending \cup Adding')
          /\ Cardinality(pending \cup Adding') <= Cardinality(pending) + Cardinality(Adding')
      BY <3>4, <3>5, UnionIsNoLarger
    <3>7. /\ Cardinality(pending) \in Nat /\ Cardinality(Adding') \in Nat
          /\ Cardinality(adders) \in Nat /\ Cardinality(Worker) \in Nat
          /\ Cardinality(pending \cup Adding') \in Nat /\ MaxPending \in Nat
      BY <3>2, <3>4, <3>5, <3>6, FS_CardinalityType, PoolAssumption
    <3>8. Cardinality(pending) < MaxPending
      BY <1>5, <3>7
    <3>9. Cardinality(pending \cup Adding') <= MaxPending + Cardinality(Worker) - 1
      BY <3>2, <3>4, <3>6, <3>7, <3>8
    <3> QED BY <1>2, <3>9 DEF PoolBound
  <2> QED BY <1>2, <1>3, <2>1, <2>2, <2>3, PoolAlone, BranchesAlone, StepOK
<1> QED BY <1>4, <1>5

LEMMA AddOK ==
    ASSUME IInv, NEW w \in Worker, Add(w)
    PROVE  IInv'
<1> DEFINE t == job[w].txn
<1>1. w \in Process /\ job[w] \in Job /\ t \in Txn /\ job[w].op = "add" /\ TypeOK
  BY JobFields DEF IInv, TypeOK, Add, Process
<1> PICK k : k = IF t \in pending THEN NoJob
                 ELSE [op |-> "reserve", txn |-> t, flow |-> 1]
  OBVIOUS
<1>2. Become(w, k) /\ pending' = pending \cup {t}
      /\ UNCHANGED <<reserved, rows, branch, best, now, raced>>
  BY DEF Add
<1>3. k \in Job /\ JobOK(k)' /\ k.op # "add" /\ k.op # "insert"
  <2>1. CASE t \in pending
    BY <2>1, NoJobOK
  <2>2. CASE t \notin pending
    BY <2>2, <1>1 DEF Job, JobOK, ResumeOK
  <2> QED BY <2>1, <2>2
<1>4. SharedOK'
  BY <1>1, <1>2 DEF IInv, TypeOK, SharedOK
<1>5. PoolBound'
  <2>1. t \in Adding
    BY <1>1 DEF Adding
  <2> QED BY <1>1, <1>2, <1>3, <2>1, AddingShrinks, PoolShrinks
<1>6. ReservationsLeaveToo' /\ RacesShow
  <2>1. Underway' \subseteq Underway
    BY <1>1, <1>2, <1>3, UnderwayShrinks
  <2> QED BY <1>2, <2>1 DEF IInv, ReservationsLeaveToo, RacesShow
<1> QED BY <1>1, <1>2, <1>3, <1>4, <1>5, <1>6, BranchesAlone, StepOK

(* A reservation is about to be committed only for a row that was just read; where  *)
(* the row is about to be deleted, that shows.                                *)
LEMMA FindOK ==
    ASSUME IInv, NEW w \in Process, Find(w)
    PROVE  IInv'
<1> PICK j \in Job : j = job[w]
  BY DEF IInv, TypeOK
<1>1. j.op = "reserve" /\ j.txn \in Txn /\ j.flow \in Nat /\ TypeOK
  BY JobFields DEF Find, IInv
<1>2. UNCHANGED <<pending, reserved, rows, branch, best, now>>
  BY DEF Find
<1>3. j \in [op : {"reserve", "insert"}, txn : Txn, flow : Nat]
  BY <1>1 DEF Job, Resume, NoJob
<1> DEFINE known == Maker[Inflows[j.txn][j.flow]] \in rows \cup {NoTxn}
           found == known /\ j.txn \in pending
<1>4. CASE found
  <2> PICK k : k = [j EXCEPT !.op = "insert"]
    OBVIOUS
  <2>1. Become(w, k) /\ raced' = raced \cup ({j.txn} \cap Doomed)
    BY <1>4 DEF Find
  <2>2. /\ k \in [op : {"reserve", "insert"}, txn : Txn, flow : Nat]
        /\ k.op = "insert" /\ k.txn = j.txn
    BY <1>3
  <2>3. k \in Job
    BY <2>2 DEF Job
  <2>4. ResumeOK(k)'
    BY <2>2 DEF ResumeOK
  <2>5. JobOK(k)'
    BY <1>2, <1>4, <2>2, <2>4 DEF JobOK
  <2>6. Underway' \subseteq Underway \cup {j.txn}
    BY <1>1, <2>1, <2>2 DEF TypeOK, Become, Underway
  <2>7. RacesShow
    BY <1>2, <2>1, <2>6 DEF RacesShow
  <2>8. SharedOK'
    BY <1>1, <1>2, <2>1 DEF TypeOK, SharedOK
  <2>9. PoolBound'
    BY <1>1, <1>2, <2>1, <2>2, AddingShrinks, PoolShrinks
  <2>10. ReservationsLeaveToo'
    BY <1>2, <2>1 DEF IInv, ReservationsLeaveToo
  <2> QED BY <1>2, <2>1, <2>3, <2>5, <2>7, <2>8, <2>9, <2>10, BranchesAlone, StepOK
<1>5. CASE ~found
  <2> PICK k : k = IF known \/ j.flow = Len(Inflows[j.txn]) THEN NoJob
                   ELSE [j EXCEPT !.flow = @ + 1]
    BY Zenon
  <2>1. Become(w, k) /\ raced' = raced
    BY <1>5, Zenon DEF Find
  <2> HIDE DEF known, found
  <2>2. k \in Job /\ JobOK(k)' /\ k.op # "add" /\ k.op # "insert"
    <3>1. CASE k = NoJob
      BY <3>1, NoJobOK
    <3>2. CASE k # NoJob
      <4>1. /\ k \in [op : {"reserve", "insert"}, txn : Txn, flow : Nat]
            /\ k.op = "reserve"
        BY <1>1, <1>3, <3>2
      <4>2. k \in Job
        BY <4>1 DEF Job
      <4> QED BY <4>1, <4>2 DEF JobOK, ResumeOK
    <3> QED BY <3>1, <3>2
  <2>3. SharedOK'
    BY <1>1, <1>2, <2>1 DEF TypeOK, SharedOK
  <2>4. PoolBound'
    BY <1>1, <1>2, <2>1, <2>2, AddingShrinks, PoolShrinks
  <2> QED BY <1>2, <2>1, <2>2, <2>3, <2>4, PoolAlone, BranchesAlone, StepOK, Zenon
<1> QED BY <1>4, <1>5

(* What is reserved is of a transaction that is pending, or was removed under the   *)
(* worker.                                                                   *)
LEMMA ReserveOK ==
    ASSUME IInv, NEW w \in Process, Reserve(w)
    PROVE  IInv'
<1> PICK j \in Job : j = job[w]
  BY DEF IInv, TypeOK
<1>1. /\ j.op = "insert" /\ j.txn \in Txn /\ j.flow \in Nat /\ j.txn \in pending \cup raced
      /\ TypeOK
  BY JobFields DEF Reserve, IInv, JobOK
<1>2. /\ UNCHANGED <<pending, rows, branch, best, now, raced>>
      /\ reserved' = reserved \cup {<<j.txn, j.flow>>}
  BY DEF Reserve
<1> PICK k : k = IF j.flow = Len(Inflows[j.txn]) THEN NoJob
                 ELSE [j EXCEPT !.op = "reserve", !.flow = @ + 1]
  OBVIOUS
<1>3. Become(w, k)
  BY DEF Reserve
<1>4. k \in Job /\ JobOK(k)' /\ k.op # "add" /\ k.op # "insert"
  <2>1. CASE j.flow = Len(Inflows[j.txn])
    BY <2>1, NoJobOK
  <2>2. CASE j.flow # Len(Inflows[j.txn])
    <3>1. j \in [op : {"reserve", "insert"}, txn : Txn, flow : Nat]
      BY <1>1 DEF Job, Resume, NoJob
    <3>2. k = [j EXCEPT !.op = "reserve", !.flow = j.flow + 1] /\ j.flow + 1 \in Nat
      BY <1>1, <2>2
    <3>3. k \in [op : {"reserve", "insert"}, txn : Txn, flow : Nat] /\ k.op = "reserve"
      BY <3>1, <3>2
    <3>4. k \in Job
      BY <3>3 DEF Job
    <3> QED BY <3>3, <3>4 DEF JobOK, ResumeOK
  <2> QED BY <2>1, <2>2
<1>5. SharedOK'
  BY <1>1, <1>2 DEF TypeOK, SharedOK
<1>6. PoolBound'
  BY <1>1, <1>2, <1>3, <1>4, AddingShrinks, PoolShrinks
<1>7. RacesShow
  <2>1. Underway' \subseteq Underway
    BY <1>1, <1>3, <1>4, UnderwayShrinks
  <2>2. j.txn \in Underway
    BY <1>1 DEF Underway
  <2> QED BY <1>2, <2>1, <2>2 DEF RacesShow
<1>8. ReservationsLeaveToo'
  BY <1>1, <1>2 DEF IInv, ReservationsLeaveToo
<1> QED BY <1>2, <1>3, <1>4, <1>5, <1>6, <1>7, <1>8, BranchesAlone, StepOK

(* A removal takes along what it loaded; what was reserved since shows.          *)
LEMMA DeleteOK ==
    ASSUME IInv, NEW p \in Process, Delete(p)
    PROVE  IInv'
<1> PICK j \in Job : j = job[p]
  BY DEF IInv, TypeOK
<1>1. /\ j.op = "delete" /\ j.next \in Resume /\ TypeOK /\ JobOK(j)
  BY JobFields DEF Delete, IInv
<1> PICK k \in Resume : k = j.next
  BY <1>1
<1>2. /\ Become(p, k) /\ pending' = pending \ j.rows /\ reserved' = reserved \ j.flows
      /\ UNCHANGED <<rows, branch, best, now, raced>>
  BY DEF Delete
<1>3. k \in Job /\ k.op \in {"idle", "prune", "build", "template"}
  BY ResumeFields
<1>4. JobOK(k)'
  <2>1. ResumeOK(k)
    BY <1>1 DEF JobOK
  <2>2. ResumeOK(k)'
    BY <1>1, <1>2, <1>3, <2>1, BranchesAlone, ResumeStaysOK DEF TypeOK
  <2> QED BY <1>3, <2>2 DEF JobOK
<1>5. SharedOK'
  BY <1>1, <1>2 DEF TypeOK, SharedOK
<1>6. PoolBound'
  BY <1>1, <1>2, <1>3, AddingShrinks, PoolShrinks
<1>7. /\ \A r \in reserved : r[1] \in j.rows => r \in j.flows \/ r[1] \in raced
      /\ Underway \cap j.rows \subseteq raced
  BY <1>1 DEF JobOK
<1>8. ReservationsLeaveToo'
  BY <1>2, <1>7 DEF IInv, ReservationsLeaveToo
<1>9. RacesShow
  <2>1. Underway' \subseteq Underway
    BY <1>1, <1>2, <1>3, UnderwayShrinks
  <2> QED BY <1>2, <1>7, <2>1 DEF RacesShow
<1> QED BY <1>2, <1>3, <1>4, <1>5, <1>6, <1>8, <1>9, BranchesAlone, StepOK

(* A block that is stored leaves what is below it as it was.                    *)
LEMMA AcceptOK ==
    ASSUME IInv, NEW w \in Process, NEW b \in 1 .. 2, NEW S \in SUBSET Txn,
           NEW at, NEW live, Accept(w, b, S, at, live)
    PROVE  IInv'
<1>1. branch \in [1 .. 2 -> Seq(SUBSET Txn)] /\ best \in 1 .. 2
  BY DEF IInv, TypeOK
<1> PICK k : k = IF live /\ S # {} THEN [op |-> "prune", left |-> Ordered(S)] ELSE NoJob
  OBVIOUS
<1>2. /\ Become(w, k) /\ UNCHANGED <<pending, reserved, now, raced>>
      /\ branch' = [branch EXCEPT ![b] = Append(@, S)] /\ best' \in {b, best}
      /\ rows' = rows \cup S
  BY DEF Accept
<1>3. k \in Job /\ JobOK(k)' /\ k.op # "add" /\ k.op # "insert"
  <2>1. CASE live /\ S # {}
    <3>1. Ordered(S) \in Seq(Txn) /\ Ordered(S) # <<>>
      BY <2>1, OrderedFacts
    <3> HIDE DEF Ordered
    <3> QED BY <2>1, <3>1 DEF Job, Resume, JobOK, ResumeOK
  <2>2. CASE ~(live /\ S # {})
    BY <2>2, NoJobOK
  <2> QED BY <2>1, <2>2
<1>4. branch' \in [1 .. 2 -> Seq(SUBSET Txn)]
  <2>1. Append(branch[b], S) \in Seq(SUBSET Txn)
    BY <1>1, AppendProperties
  <2> QED BY <1>1, <1>2, <2>1
<1>5. SharedOK'
  BY <1>1, <1>2, <1>4 DEF IInv, TypeOK, SharedOK
<1>6. PoolBound'
  BY <1>2, <1>3, AddingShrinks, PoolShrinks DEF IInv
<1>7. BranchesGrow
  <2> SUFFICES ASSUME NEW c \in 1 .. 2
               PROVE  /\ Len(branch[c]) <= Len(branch'[c])
                      /\ \A h \in 0 .. Len(branch[c]) :
                            SubSeq(branch'[c], 1, h) = SubSeq(branch[c], 1, h)
    BY DEF BranchesGrow
  <2>1. branch[c] \in Seq(SUBSET Txn) /\ Len(branch[c]) \in Nat
    BY <1>1
  <2>2. CASE c = b
    <3> PICK s \in Seq(SUBSET Txn) : s = branch[c]
      BY <2>1
    <3>1. branch'[c] = Append(s, S) /\ Len(Append(s, S)) = Len(s) + 1
      BY <1>1, <1>2, <2>2, AppendProperties
    <3>2. ASSUME NEW h \in 0 .. Len(s) PROVE SubSeq(Append(s, S), 1, h) = SubSeq(s, 1, h)
      <4>1. CASE h = Len(s)
        <5>1. SubSeq(s, 1, Len(s)) = s
          BY SubSeqFull
        <5> QED BY <4>1, <5>1, AppendKeepsPrefixes
      <4>2. CASE h # Len(s)
        <5>1. h + 1 \in 1 .. Len(s) /\ (h + 1) - 1 = h
          BY <4>2, <2>1
        <5>2. \A i \in 1 .. Len(s) : SubSeq(Append(s, S), 1, i - 1) = SubSeq(s, 1, i - 1)
          BY AppendKeepsPrefixes
        <5>3. SubSeq(Append(s, S), 1, (h + 1) - 1) = SubSeq(s, 1, (h + 1) - 1)
          BY <5>1, <5>2, Zenon
        <5> QED BY <5>1, <5>3
      <4> QED BY <4>1, <4>2
    <3> QED BY <3>1, <3>2, <2>1
  <2>3. CASE c # b
    <3>1. branch'[c] = branch[c]
      BY <1>1, <1>2, <2>3
    <3> QED BY <2>1, <3>1
  <2> QED BY <2>2, <2>3
<1> QED BY <1>2, <1>3, <1>5, <1>6, <1>7, PoolAlone, StepOK

LEMMA PruneOK ==
    ASSUME IInv, NEW w \in Process, Prune(w)
    PROVE  IInv'
<1> PICK j \in Job : j = job[w]
  BY DEF IInv, TypeOK
<1>1. j.op = "prune" /\ j.left \in Seq(Txn) /\ j.left # <<>>
  BY JobFields DEF Prune, IInv, JobOK, ResumeOK
<1> PICK k : k = IF Len(j.left) = 1 THEN NoJob ELSE [j EXCEPT !.left = Tail(@)]
  OBVIOUS
<1>2. /\ Load(w, {Head(j.left)} \cap pending, k)
      /\ UNCHANGED <<pending, reserved, rows, branch, best, now>>
  BY DEF Prune
<1>3. k \in Resume /\ ResumeOK(k)
  <2>1. CASE Len(j.left) = 1
    BY <2>1 DEF Resume, ResumeOK, NoJob
  <2>2. CASE Len(j.left) # 1
    <3>1. Tail(j.left) \in Seq(Txn) /\ Tail(j.left) # <<>>
      BY <1>1, <2>2, TailOfLonger
    <3>2. j \in [op : {"prune"}, left : Seq(Txn)]
      BY <1>1 DEF Job, Resume, NoJob
    <3>3. k \in [op : {"prune"}, left : Seq(Txn)] /\ k.left = Tail(j.left)
      BY <2>2, <3>1, <3>2
    <3> QED BY <3>1, <3>3 DEF Resume, ResumeOK
  <2> QED BY <2>1, <2>2
<1>4. {Head(j.left)} \cap pending \in SUBSET Txn
  BY DEF IInv, TypeOK
<1> QED BY <1>2, <1>3, <1>4, LoadOK

LEMMA ExpireOK ==
    ASSUME IInv, NEW p \in Process, Expire(p)
    PROVE  IInv'
<1>1. ExpiredPending \in SUBSET Txn
  BY DEF IInv, TypeOK, ExpiredPending
<1>2. NoJob \in Resume /\ ResumeOK(NoJob)
  BY DEF Resume, ResumeOK, NoJob
<1> QED BY <1>1, <1>2, LoadOK DEF Expire

LEMMA RefreshOK ==
    ASSUME IInv, NEW w \in Process, Refresh(w)
    PROVE  IInv'
<1> PICK k : k = [op |-> "build", base |-> best, height |-> Len(branch[best])]
  OBVIOUS
<1>1. ExpiredPending \in SUBSET Txn
  BY DEF IInv, TypeOK, ExpiredPending
<1>2. Len(branch[best]) \in Nat /\ best \in 1 .. 2
  BY DEF IInv, TypeOK
<1>3. k \in Resume /\ ResumeOK(k)
  BY <1>2 DEF Resume, ResumeOK
<1> QED BY <1>1, <1>3, LoadOK DEF Refresh

(* Time passes, and nobody does anything.                                      *)
LEMMA TickOK ==
    ASSUME IInv, Tick
    PROVE  IInv'
<1>1. job \in [Process -> Job] /\ UNCHANGED <<pending, reserved, rows, branch, best, job, raced>>
      /\ now' \in Nat
  BY DEF IInv, TypeOK, Tick
<1>2. Become(Lister, job[Lister]) /\ Lister \in Process
  BY <1>1 DEF Become, Process
<1>3. Underway' = Underway /\ Adding' = Adding
  BY <1>1 DEF Underway, Adding
<1>4. RacesShow /\ ReservationsLeaveToo' /\ PoolBound'
  BY <1>1, <1>3 DEF RacesShow, IInv, ReservationsLeaveToo, PoolBound
<1>5. SharedOK'
  BY <1>1 DEF IInv, TypeOK, SharedOK
<1>6. JobOK(job[Lister])'
  BY <1>1, <1>2, <1>4, <1>5, BranchesAlone, OtherJobsOK DEF SharedOK
<1> PICK k \in Job : k = job[Lister]
  BY <1>1, <1>2
<1>7. JobOK(k)'
  <2>1. job'[Lister] = k
    BY <1>1
  <2> QED BY <1>6, <2>1
<1>8. Become(Lister, k)
  BY <1>2
<1> QED BY <1>1, <1>2, <1>4, <1>5, <1>7, <1>8, BranchesAlone, StepOK

(* What a template takes fits the chain it is built on.                         *)
LEMMA TemplateFacts ==
    ASSUME NEW S \in SUBSET Txn, NEW confirmed
    PROVE  \E chosen \in Accumulator : /\ chosen = Select(Ordered(S), confirmed)
                                       /\ Fitting(chosen.txns, confirmed)
<1>1. Ordered(S) \in Seq(Txn)
  BY OrderedFacts
<1> QED BY <1>1, SelectFacts

LEMMA BuildOK ==
    ASSUME IInv, NEW w \in Process, Build(w)
    PROVE  IInv'
<1> PICK j \in Job : j = job[w]
  BY DEF IInv, TypeOK
<1>1. /\ j.op = "build" /\ j.base \in 1 .. 2 /\ j.height \in Nat /\ JobOK(j)
      /\ pending \subseteq Txn /\ TypeOK
  BY JobFields DEF Build, IInv, TypeOK
<1> PICK confirmed : confirmed = Txns(SubSeq(branch[j.base], 1, j.height))
  OBVIOUS
<1>2. PICK chosen \in Accumulator :
         /\ chosen = Select(Ordered((pending \ ExpiredPending) \ confirmed), confirmed)
         /\ Fitting(chosen.txns, confirmed)
  <2>1. (pending \ ExpiredPending) \ confirmed \in SUBSET Txn
    BY <1>1
  <2> QED BY <2>1, TemplateFacts
<1> PICK k : k = [op |-> "template", base |-> j.base, height |-> j.height,
                  txns |-> chosen.txns, left |-> chosen.left]
  OBVIOUS
<1>3. Become(w, k) /\ UNCHANGED <<pending, reserved, rows, branch, best, now, raced>>
  BY <1>2 DEF Build
<1>4. k \in [op : {"template"}, base : 1 .. 2, height : Nat, txns : Seq(Txn), left : Seq(Txn)]
  BY <1>1 DEF Accumulator
<1>5. k \in Job /\ k.op = "template" /\ k.base = j.base /\ k.height = j.height
      /\ k.txns = chosen.txns
  <2>1. k \in Job
    BY <1>4 DEF Job, Resume
  <2> QED BY <2>1
<1>6. JobOK(k)'
  <2>1. Fitting(k.txns, Txns(SubSeq(branch'[k.base], 1, k.height)))
    BY <1>2, <1>3, <1>5
  <2>2. k.height <= Len(branch'[k.base])
    BY <1>1, <1>3, <1>5 DEF JobOK, ResumeOK
  <2> QED BY <1>5, <2>1, <2>2 DEF JobOK, ResumeOK
<1>7. SharedOK'
  BY <1>1, <1>3 DEF TypeOK, SharedOK
<1>8. PoolBound'
  BY <1>1, <1>3, <1>5, AddingShrinks, PoolShrinks
<1> QED BY <1>3, <1>5, <1>6, <1>7, <1>8, PoolAlone, BranchesAlone, StepOK

LEMMA DiscardFailedOK ==
    ASSUME IInv, NEW w \in Process, DiscardFailed(w)
    PROVE  IInv'
<1> PICK j \in Job : j = job[w]
  BY DEF IInv, TypeOK
<1>1. /\ j.op = "template" /\ j.left \in Seq(Txn) /\ j.left # <<>> /\ ResumeOK(j)
  BY JobFields DEF DiscardFailed, IInv, JobOK
<1> PICK k : k = [j EXCEPT !.left = Tail(@)]
  OBVIOUS
<1>2. /\ Load(w, {Head(j.left)} \cap pending, k)
      /\ UNCHANGED <<pending, reserved, rows, branch, best, now>>
  BY DEF DiscardFailed
<1>3. k \in Resume /\ k.op = "template" /\ k.base = j.base /\ k.height = j.height /\ k.txns = j.txns
  <2>1. Tail(j.left) \in Seq(Txn)
    BY <1>1, HeadTailProperties
  <2>2. j \in [op : {"template"}, base : 1 .. 2, height : Nat, txns : Seq(Txn), left : Seq(Txn)]
    BY <1>1 DEF Job, Resume, NoJob
  <2>3. /\ k \in [op : {"template"}, base : 1 .. 2, height : Nat, txns : Seq(Txn), left : Seq(Txn)]
        /\ k.op = "template" /\ k.base = j.base /\ k.height = j.height /\ k.txns = j.txns
    BY <2>1, <2>2
  <2> QED BY <2>3 DEF Resume
<1>4. ResumeOK(k)
  BY <1>1, <1>3 DEF ResumeOK
<1>5. {Head(j.left)} \cap pending \in SUBSET Txn
  BY DEF IInv, TypeOK
<1> QED BY <1>2, <1>3, <1>4, <1>5, LoadOK

LEMMA SealOK ==
    ASSUME IInv, NEW w \in Process, Seal(w)
    PROVE  IInv'
<1> PICK j \in Job : j = job[w]
  BY DEF IInv, TypeOK
<1>1. j.op = "template" /\ JobOK(j) /\ j.base \in 1 .. 2 /\ j.height \in Nat /\ j.txns \in Seq(Txn)
  BY JobFields DEF Seal, IInv
<1> PICK k : k = [op |-> "sealed", base |-> j.base, height |-> j.height, txns |-> j.txns, at |-> now]
  OBVIOUS
<1>2. Become(w, k) /\ UNCHANGED <<pending, reserved, rows, branch, best, now, raced>>
  BY DEF Seal
<1>3. k \in Job /\ k.op = "sealed" /\ k.base = j.base /\ k.height = j.height /\ k.txns = j.txns
  BY <1>1 DEF Job, IInv, TypeOK
<1>4. JobOK(k)'
  BY <1>1, <1>2, <1>3 DEF JobOK, ResumeOK
<1>5. SharedOK'
  BY <1>2 DEF IInv, TypeOK, SharedOK
<1>6. PoolBound'
  BY <1>2, <1>3, AddingShrinks, PoolShrinks DEF IInv
<1> QED BY <1>2, <1>3, <1>4, <1>5, <1>6, PoolAlone, BranchesAlone, StepOK

LEMMA DropOK ==
    ASSUME IInv, NEW w \in Process, Drop(w)
    PROVE  IInv'
<1>1. Become(w, NoJob) /\ UNCHANGED <<pending, reserved, rows, branch, best, now, raced>>
  BY DEF Drop
<1>2. SharedOK'
  BY <1>1 DEF IInv, TypeOK, SharedOK
<1>3. PoolBound'
  BY <1>1, NoJobOK, AddingShrinks, PoolShrinks DEF IInv
<1> QED BY <1>1, <1>2, <1>3, NoJobOK, PoolAlone, BranchesAlone, StepOK

-----------------------------------------------------------------------------
(* Nothing is pending and nobody is busy at the start.                          *)
LEMMA InitOK == Init => IInv
<1> SUFFICES ASSUME Init PROVE IInv
  OBVIOUS
<1>1. TypeOK
  <2>1. <<<<>>, <<>>>> \in [1 .. 2 -> Seq(SUBSET Txn)]
    <3>1. <<>> \in Seq(SUBSET Txn)
      OBVIOUS
    <3> DEFINE S == Seq(SUBSET Txn)
    <3> HIDE DEF S
    <3>2. ASSUME NEW e \in S PROVE <<e, e>> \in [1 .. 2 -> S]
      OBVIOUS
    <3> QED BY <3>1, <3>2 DEF S
  <2>2. [p \in Process |-> NoJob] \in [Process -> Job]
    BY NoJobOK
  <2> QED BY <2>1, <2>2 DEF Init, TypeOK
<1>2. PoolBound
  <2>1. pending \cup Adding = {}
    BY DEF Init, Adding, NoJob, Process
  <2>2. Cardinality(Worker) \in Nat /\ Cardinality(Worker) # 0 /\ MaxPending \in Nat
    BY PoolAssumption, FS_CardinalityType, FS_EmptySet
  <2>3. Cardinality(pending \cup Adding) = 0
    BY <2>1, FS_EmptySet
  <2> QED BY <2>2, <2>3 DEF PoolBound
<1>3. ReservationsLeaveToo
  BY DEF Init, ReservationsLeaveToo
<1>4. \A p \in Process : JobOK(job[p])
  BY DEF Init, NoJob, JobOK, ResumeOK
<1> QED BY <1>1, <1>2, <1>3, <1>4 DEF IInv

(* The invariant is kept by every step.                                        *)
LEMMA NextOK == IInv /\ [Next]_vars => IInv'
<1> SUFFICES ASSUME IInv, [Next]_vars PROVE IInv'
  OBVIOUS
<1>0. Worker \subseteq Process /\ Lister \in Process
  BY DEF Process
<1>1. CASE Tick \/ Expire(Lister)
  BY <1>0, <1>1, TickOK, ExpireOK
<1>2. ASSUME NEW w \in Worker, NEW t \in Txn, Submit(w, t) PROVE IInv'
  BY <1>0, <1>2, SubmitOK
<1>3. ASSUME NEW w \in Worker, NEW b \in 1 .. 2, NEW S \in SUBSET Txn, NEW live \in BOOLEAN,
             ReceiveBlock(w, b, S, live)
      PROVE  IInv'
  BY <1>0, <1>3, AcceptOK DEF ReceiveBlock
<1>4. ASSUME NEW w \in Worker, Solve(w) PROVE IInv'
  <2> PICK j \in Job : j = job[w]
    BY <1>0 DEF IInv, TypeOK
  <2>1. Accept(w, j.base, Range(j.txns), j.at, TRUE) /\ j.op = "sealed"
    BY <1>4 DEF Solve
  <2>2. j.base \in 1 .. 2 /\ Range(j.txns) \in SUBSET Txn
    BY <2>1, JobFields, RangeOfSeq
  <2> QED BY <1>0, <2>1, <2>2, AcceptOK
<1>5. ASSUME NEW w \in Worker,
             Admit(w) \/ Add(w) \/ Find(w) \/ Reserve(w) \/ Prune(w)
             \/ Refresh(w) \/ Build(w) \/ DiscardFailed(w) \/ Seal(w)
      PROVE  IInv'
  BY <1>0, <1>5, AdmitOK, AddOK, FindOK, ReserveOK, PruneOK, RefreshOK, BuildOK,
     DiscardFailedOK, SealOK
<1>6. ASSUME NEW p \in Process, Delete(p) \/ Drop(p) PROVE IInv'
  BY <1>6, DeleteOK, DropOK
<1>7. CASE UNCHANGED vars
  BY <1>7 DEF vars, IInv, TypeOK, PoolBound, Adding, ReservationsLeaveToo, JobOK, ResumeOK,
              Underway
<1> QED BY <1>1, <1>2, <1>3, <1>4, <1>5, <1>6, <1>7 DEF Next

(* The strengthening holds of every behaviour.                                 *)
THEOREM MempoolIsInductive == Spec => []IInv
BY InitOK, NextOK, PTL DEF Spec

(* The pool, its reservations and the workers' jobs keep their types.            *)
THEOREM MempoolTypeCorrect == Spec => []TypeOK
<1>1. IInv => TypeOK
  BY DEF IInv
<1> QED BY <1>1, MempoolIsInductive, PTL

(* The limit of the pool (transaction.py:412) is overshot by the other workers at  *)
(* most: the bound counts the pool and whoever passed the check.                *)
THEOREM PoolStaysBounded == Spec => []SoftCap
<1>1. ASSUME IInv PROVE SoftCap
  <2>1. job \in [Process -> Job] /\ pending \subseteq Txn
    BY <1>1 DEF IInv, TypeOK
  <2>2. Adding \subseteq Txn
    BY <2>1, JobFields DEF Adding, Process
  <2>3. IsFiniteSet(pending \cup Adding)
    <3>1. pending \cup Adding \in SUBSET Txn
      BY <2>1, <2>2
    <3> QED BY <3>1, FinitelyManyTxns, FS_Subset
  <2>4. Cardinality(pending) <= Cardinality(pending \cup Adding) /\ IsFiniteSet(pending)
    BY <2>3, FS_Subset
  <2>5. /\ Cardinality(pending) \in Nat /\ Cardinality(pending \cup Adding) \in Nat
        /\ Cardinality(Worker) \in Nat /\ MaxPending \in Nat
    BY <2>3, <2>4, FS_CardinalityType, PoolAssumption
  <2> QED BY <1>1, <2>4, <2>5 DEF IInv, PoolBound, SoftCap
<1> QED BY <1>1, MempoolIsInductive, PTL

(* Whoever removes a transaction takes its reservations along                    *)
(* (models.py:1525-1529), but for those whose commit overlapped the removal: what  *)
(* such a race leaves behind stays.                                           *)
THEOREM ReservationsNeverDangle == Spec => []ReservationsLeaveToo
<1>1. IInv => ReservationsLeaveToo
  BY DEF IInv
<1> QED BY <1>1, MempoolIsInductive, PTL

(* What fits one after another follows together: every transaction consumes        *)
(* something, so none fits after itself, and of two the later one tells.          *)
LEMMA FittingFollows ==
    ASSUME NEW txns \in Seq(Txn), NEW blocks, Fitting(txns, Txns(blocks))
    PROVE  Follow(Range(txns), blocks)
<1> DEFINE Before(k) == Txns(blocks) \cup Range(SubSeq(txns, 1, k - 1))
<1>1. Len(txns) \in Nat /\ \A i \in 1 .. Len(txns) : txns[i] \in Txn
  BY ElementOfSeq
<1>2. ASSUME NEW k \in 1 .. Len(txns) PROVE Range(SubSeq(txns, 1, k - 1)) = {txns[i] : i \in 1 .. k - 1}
  <2>1. \A i \in 1 .. k - 1 : txns[i] \in Txn
    BY <1>1
  <2>2. /\ SubSeq(txns, 1, k - 1) \in Seq(Txn) /\ Len(SubSeq(txns, 1, k - 1)) = k - 1
        /\ \A i \in 1 .. k - 1 : SubSeq(txns, 1, k - 1)[i] = txns[i]
    BY <1>1, <2>1, SubSeqProperties
  <2>3. DOMAIN SubSeq(txns, 1, k - 1) = 1 .. k - 1
    BY <2>2
  <2> QED BY <2>2, <2>3 DEF Range
<1>3. \A k \in 1 .. Len(txns) : Fits(txns[k], Before(k))
  BY DEF Fitting
<1>4. \A t \in Txn : Spent(t) # {}
  <2> SUFFICES ASSUME NEW t \in Txn PROVE Spent(t) # {}
    OBVIOUS
  <2>1. Inflows[t] \in Seq(DOMAIN Maker) /\ Inflows[t] # <<>>
    BY TxnAssumption
  <2>2. 1 \in DOMAIN Inflows[t]
    BY <2>1, EmptySeq
  <2> QED BY <2>2 DEF Spent, Range
<1>5. ASSUME NEW k \in 1 .. Len(txns) PROVE txns[k] \notin Before(k)
  BY <1>1, <1>3, <1>4 DEF Fits
<1>6. Range(txns) = {txns[i] : i \in 1 .. Len(txns)}
  BY DEF Range
<1> SUFFICES ASSUME NEW k \in 1 .. Len(txns)
             PROVE  Fits(txns[k], Txns(blocks) \cup (Range(txns) \ {txns[k]}))
  BY <1>6 DEF Follow
<1>7. Before(k) \subseteq Txns(blocks) \cup (Range(txns) \ {txns[k]})
  BY <1>1, <1>2, <1>5, <1>6
<1>8. \A o \in Spent(txns[k]) : Maker[o] \in Txns(blocks) \cup (Range(txns) \ {txns[k]}) \cup {NoTxn}
  BY <1>3, <1>7 DEF Fits
<1>9. ASSUME NEW i \in 1 .. Len(txns), txns[i] # txns[k]
      PROVE  Spent(txns[i]) \cap Spent(txns[k]) = {}
  <2>1. CASE i < k
    <3>1. txns[i] \in Before(k)
      BY <1>1, <1>2, <2>1
    <3> QED BY <1>3, <3>1 DEF Fits
  <2>2. CASE i > k
    <3>1. txns[k] \in Before(i)
      BY <1>1, <1>2, <2>2
    <3> QED BY <1>3, <3>1 DEF Fits
  <2> QED BY <1>1, <1>9, <2>1, <2>2
<1>10. \A u \in Txns(blocks) : Spent(u) \cap Spent(txns[k]) = {}
  BY <1>3 DEF Fits
<1> QED BY <1>6, <1>8, <1>9, <1>10 DEF Fits

(* The transactions of the miller's template can follow the chain it was built on   *)
(* and each other (miller.py:88-98), whatever the pool held and whatever became of  *)
(* the chain since: no two of them, and none of them and the chain, consume the     *)
(* same outflow, and what each consumes is made.                               *)
THEOREM TemplatesFollowChain == Spec => []TemplateFollows
<1>1. ASSUME IInv PROVE TemplateFollows
  <2> SUFFICES ASSUME NEW w \in Worker, job[w].op \in {"template", "sealed"}
               PROVE  Follow(Range(job[w].txns), SubSeq(branch[job[w].base], 1, job[w].height))
    BY DEF TemplateFollows
  <2>1. w \in Process
    BY DEF Process
  <2>2. job[w] \in Job /\ ResumeOK(job[w])
    BY <1>1, <2>1 DEF IInv, TypeOK, JobOK
  <2>3. job[w].txns \in Seq(Txn)
    BY <2>2, JobFields
  <2>4. Fitting(job[w].txns, Txns(SubSeq(branch[job[w].base], 1, job[w].height)))
    BY <2>2 DEF ResumeOK
  <2> QED BY <2>3, <2>4, FittingFollows
<1> QED BY <1>1, MempoolIsInductive, PTL
=============================================================================
