------------------------------ MODULE ApiProofs ------------------------------
(***************************************************************************)
(* Proofs about Api, for any clients, transactions and requests at a time.     *)
(***************************************************************************)
EXTENDS Api, FiniteSetTheorems, TLAPS

-----------------------------------------------------------------------------
(* The strengthening.                                                        *)

AnyTip == [branch : 1 .. 2, height : Nat]
AnyPost == [op : Posting, client : Client, txn : Txn]

(* No branch is higher than the canonical one.                                *)
HeightOK ==
    /\ height \in [1 .. 2 -> Nat] /\ best \in 1 .. 2
    /\ \A b \in 1 .. 2 : height[b] <= height[best]

(* A read that no reorganisation has met.                                     *)
Undone(j) == j.op \in Reading /\ ~j.reorged

(* Tips of this height were left: no undisturbed read has one, nor will a new one.   *)
Left(h) == h < height[best] /\ \A w \in Worker : Undone(job[w]) => h < job[w].tip.height

(* What a canonical answer says is so of the tip.                               *)
HoldsAt(tip, ask, value) ==
    value.status = "canonical" =>
        /\ Has(tip.branch, tip.height, ask)
        /\ value.height = At[ask][tip.branch]
        /\ value.confirmations = Cardinality({n \in 1 .. tip.height : n >= value.height})

(* The value answers the question for one of the tips.                          *)
Answers(tip, tips, ask, value) ==
    IF ask \in Txn THEN HoldsAt(tip, ask, value)
    ELSE \E u \in tips : value = {ChainOf(u)}

(* The tips the canonical branch has had from a height on.                      *)
TipsFrom(h) == {[branch |-> best, height |-> n] : n \in h .. height[best]}

Routed == [longest |-> TRUE, route |-> {}]

(* What an undisturbed read has found so far.                                   *)
GotOK(j) ==
    /\ j.op \in {"outflows", "inflows", "execute"} =>
          j.ask \notin Txn /\ j.got \in Seq({Routed})
    /\ j.op = "execute" => j.got # <<>>
    /\ j.op \in {"find", "scan", "block", "orphan", "pool"} => j.ask \in Txn
    /\ j.op = "scan" => j.got = <<[above |-> {}, cap |-> j.tip.height]>>
    /\ j.op = "block" => Has(j.tip.branch, j.tip.height, j.ask)

(* An undisturbed read is on the canonical branch, at a tip it had, and has seen all   *)
(* tips since.                                                                *)
OnCourse(tip) == tip.branch = best /\ tip.height <= height[best]
Current(j) == OnCourse(j.tip) /\ j.seen = TipsFrom(j.tip.height) /\ GotOK(j)

IsRead(j) ==
    /\ j = [f \in DOMAIN j |-> j[f]]
    /\ DOMAIN j = {"op", "ask", "tip", "got", "seen", "reorged"}
    /\ j.op \in Reading \cup {"answered"} /\ j.tip \in AnyTip /\ j.reorged \in BOOLEAN

ReadOK(j) ==
    /\ j.op \in Reading => IF j.reorged THEN Left(j.tip.height) ELSE Current(j)
    /\ j.op = "answered" /\ ~j.reorged => Answers(j.tip, j.seen, j.ask, j.got)

JobOK(j) == j = NoJob \/ j \in AnyPost \/ (IsRead(j) /\ ReadOK(j))

JobsOK == job = [w \in Worker |-> job[w]] /\ \A w \in Worker : JobOK(job[w])

(* A cached answer is right for the tip it is kept under, or nobody asks for it.     *)
Fresh(tip, ask, value) == OnCourse(tip) /\ Answers(tip, TipsFrom(tip.height), ask, value)
EntryOK(tip, ask, value) == tip \in AnyTip /\ (Left(tip.height) \/ Fresh(tip, ask, value))

CacheOK ==
    \A e \in cache : \E tip, ask, value :
        e = [key |-> <<tip, ask>>, value |-> value] /\ EntryOK(tip, ask, value)

(* The requests of a client past the quota, together with what it is charged for.   *)
Counted == {"check", "add", "record"}
Admitted(c) == {w \in Worker : job[w].op \in Counted /\ job[w].client = c}
Load(c) == Cardinality(PendingOf(c) \ again) + Cardinality(Admitted(c))

PoolOK ==
    /\ IsFiniteSet(pending) /\ submission \in [Txn -> Client \cup {NoClient}]
    /\ \A c \in Client : RoleOf(c) = Transactor => Load(c) <= Cap + Cardinality(Worker) - 1

IInv == HeightOK /\ JobsOK /\ CacheOK /\ PoolOK

-----------------------------------------------------------------------------
(* The tips.                                                                 *)

(* The canonical tip moves up, and to another branch only when it moves up.        *)
LEMMA TipRises ==
    ASSUME HeightOK, NEW b \in 1 .. 2, NEW live, AddBlock(b, live)
    PROVE  /\ HeightOK'
           /\ \/ best' = best /\ height'[best'] \in {height[best], height[best] + 1}
              \/ best' # best /\ height'[best'] = height[best] + 1
<1>1. /\ height' = [height EXCEPT ![b] = @ + 1]
      /\ best' = IF height[b] = height[best] THEN b ELSE best
  BY DEF AddBlock
<1>2. height' \in [1 .. 2 -> Nat] /\ best' \in 1 .. 2
  BY <1>1 DEF HeightOK
<1>3. \A c \in 1 .. 2 : height'[c] = IF c = b THEN height[c] + 1 ELSE height[c]
  BY <1>1 DEF HeightOK
<1>4. height[b] \in Nat /\ height[best] \in Nat /\ height[b] <= height[best]
  BY DEF HeightOK
<1>5. CASE height[b] = height[best]
  <2>1. best' = b /\ height'[best'] = height[best] + 1
    BY <1>1, <1>3, <1>5
  <2>2. ASSUME NEW c \in 1 .. 2 PROVE height'[c] <= height'[best']
    BY <1>3, <1>4, <2>1, <2>2 DEF HeightOK
  <2> QED BY <1>2, <2>1, <2>2 DEF HeightOK
<1>6. CASE height[b] # height[best]
  <2>1. best' = best /\ b # best
    BY <1>1, <1>6
  <2>2. height'[best] = height[best]
    BY <1>3, <2>1 DEF HeightOK
  <2>3. ASSUME NEW c \in 1 .. 2 PROVE height'[c] <= height'[best']
    <3>1. height[c] \in Nat /\ height[c] <= height[best]
      BY DEF HeightOK
    <3> QED BY <1>3, <1>4, <1>6, <2>1, <2>2, <3>1
  <2> QED BY <1>2, <2>1, <2>2, <2>3 DEF HeightOK
<1> QED BY <1>5, <1>6

(* A read goes on with its question, tip and history.                           *)
SameRead(j, k) ==
    /\ k = [f \in DOMAIN k |-> k[f]]
    /\ DOMAIN k = {"op", "ask", "tip", "got", "seen", "reorged"}
    /\ k.ask = j.ask /\ k.tip = j.tip /\ k.seen = j.seen /\ k.reorged = j.reorged

(* Every job is idle, a post or a read.                                        *)
LEMMA ReadOps ==
    ASSUME NEW j, JobOK(j)
    PROVE  /\ j.op \in Posting \cup Reading \cup {"idle", "answered"}
           /\ j.op \in Reading \cup {"answered"} => IsRead(j) /\ ReadOK(j)
           /\ j.op \in Posting => j \in AnyPost
           /\ j.op = "idle" => j = NoJob
<1>1. CASE j = NoJob
  BY <1>1 DEF NoJob, Reading, Posting
<1>2. CASE j \in AnyPost
  <2>1. j.op \in Posting
    BY <1>2 DEF AnyPost
  <2> QED BY <1>2, <2>1 DEF Posting, Reading
<1>3. CASE IsRead(j) /\ ReadOK(j)
  <2>1. j.op \in Reading \cup {"answered"}
    BY <1>3 DEF IsRead
  <2> QED BY <1>3, <2>1 DEF Posting, Reading
<1> QED BY <1>1, <1>2, <1>3 DEF JobOK

-----------------------------------------------------------------------------
(* Steps of one worker.                                                       *)

(* A step that leaves the chain alone keeps what was left behind, and all other jobs   *)
(* and entries, right.                                                        *)
LEMMA StepKeeps ==
    ASSUME HeightOK, JobsOK, CacheOK, NEW w \in Worker, NEW k, JobOK(k),
           Become(w, k), UNCHANGED <<height, best>>,
           Undone(k) => \/ Undone(job[w]) /\ k.tip = job[w].tip
                        \/ k.tip.height = height[best],
           \A e \in cache' : e \in cache \/ \E tip, ask, value :
               e = [key |-> <<tip, ask>>, value |-> value] /\ EntryOK(tip, ask, value)
    PROVE  HeightOK' /\ JobsOK' /\ CacheOK'
<1>1. HeightOK'
  BY DEF HeightOK
<1>2. /\ job' = [job EXCEPT ![w] = k]
      /\ job' = [v \in Worker |-> job'[v]]
      /\ \A v \in Worker : job'[v] = IF v = w THEN k ELSE job[v]
  <2> QED BY DEF Become, JobsOK
<1>3. ASSUME NEW h, Left(h) PROVE Left(h)'
  <2>1. ASSUME NEW v \in Worker, Undone(job'[v]) PROVE h < job'[v].tip.height
    <3>1. CASE v # w
      BY <1>2, <1>3, <2>1, <3>1 DEF Left
    <3>2. CASE v = w
      <4>1. job'[v] = k
        BY <1>2, <3>2
      <4> QED BY <1>3, <2>1, <4>1 DEF Left
    <3> QED BY <3>1, <3>2
  <2>2. h < height'[best']
    BY <1>3 DEF Left
  <2>3. \A v \in Worker : Undone(job'[v]) => h < job'[v].tip.height
    BY <2>1
  <2> QED BY <2>2, <2>3 DEF Left, Undone
<1>4. ASSUME NEW j, JobOK(j) PROVE JobOK(j)'
  <2>1. Current(j) => Current(j)'
    BY DEF Current, OnCourse, TipsFrom
  <2> QED BY <1>3, <1>4, <2>1 DEF JobOK, ReadOK
<1>5. ASSUME NEW v \in Worker PROVE JobOK(job[v])'
  <2>1. JobOK(job'[v])
    BY <1>2 DEF JobsOK
  <2>2. \A j : JobOK(j) => JobOK(j)'
    BY <1>4
  <2> QED BY <2>1, <2>2
<1>6. ASSUME NEW tip, NEW ask, NEW value, EntryOK(tip, ask, value)
      PROVE  EntryOK(tip, ask, value)'
  <2>1. Fresh(tip, ask, value) => Fresh(tip, ask, value)'
    BY DEF Fresh, OnCourse, TipsFrom
  <2> QED BY <1>3, <1>6, <2>1 DEF EntryOK
<1>7. CacheOK'
  <2>1. ASSUME NEW e \in cache'
        PROVE  \E tip, ask, value :
                   e = [key |-> <<tip, ask>>, value |-> value] /\ EntryOK(tip, ask, value)
    BY <2>1 DEF CacheOK
  <2> QED BY <1>6, <2>1 DEF CacheOK
<1> QED BY <1>1, <1>2, <1>5, <1>7 DEF JobsOK

-----------------------------------------------------------------------------
(* The load of a client.                                                      *)

(* The charged transactions and the admitted requests are finitely many.          *)
LEMMA LoadIsFinite ==
    ASSUME IsFiniteSet(pending), NEW c
    PROVE  /\ IsFiniteSet(PendingOf(c)) /\ IsFiniteSet(PendingOf(c) \ again)
           /\ Cardinality(PendingOf(c) \ again) <= Cardinality(PendingOf(c))
           /\ IsFiniteSet(Admitted(c)) /\ Cardinality(Admitted(c)) <= Cardinality(Worker)
           /\ Cardinality(PendingOf(c) \ again) \in Nat /\ Cardinality(PendingOf(c)) \in Nat
           /\ Cardinality(Admitted(c)) \in Nat /\ Cardinality(Worker) \in Nat
<1>1. PendingOf(c) \subseteq pending /\ Admitted(c) \subseteq Worker
  BY DEF PendingOf, Admitted
<1>2. IsFiniteSet(Worker)
  BY ApiAssumption
<1>3. IsFiniteSet(PendingOf(c)) /\ IsFiniteSet(Admitted(c))
      /\ Cardinality(Admitted(c)) <= Cardinality(Worker)
  BY <1>1, <1>2, FS_Subset
<1>4. IsFiniteSet(PendingOf(c) \ again)
      /\ Cardinality(PendingOf(c) \ again) <= Cardinality(PendingOf(c))
  BY <1>3, FS_Subset
<1> QED BY <1>2, <1>3, <1>4, FS_CardinalityType

(* Who is charged with no more, and has no more requests admitted, stays within the   *)
(* bound.                                                                     *)
LEMMA LoadKeeps ==
    ASSUME PoolOK, IsFiniteSet(pending'), submission' \in [Txn -> Client \cup {NoClient}],
           \A c \in Client : RoleOf(c) = Transactor =>
               /\ (PendingOf(c) \ again)' \subseteq PendingOf(c) \ again
               /\ Admitted(c)' \subseteq Admitted(c)
    PROVE  PoolOK'
<1>1. ASSUME NEW c \in Client, RoleOf(c) = Transactor
      PROVE  Load(c)' <= Cap + Cardinality(Worker) - 1
  <2>1. /\ IsFiniteSet(PendingOf(c) \ again) /\ IsFiniteSet(Admitted(c))
        /\ Cardinality(PendingOf(c) \ again) \in Nat /\ Cardinality(Admitted(c)) \in Nat
    BY LoadIsFinite DEF PoolOK
  <2>2. Cardinality(Worker) \in Nat /\ Cap \in Nat
    BY ApiAssumption, FS_CardinalityType
  <2>3. /\ IsFiniteSet((PendingOf(c) \ again)') /\ IsFiniteSet(Admitted(c)')
        /\ Cardinality((PendingOf(c) \ again)') <= Cardinality(PendingOf(c) \ again)
        /\ Cardinality(Admitted(c)') <= Cardinality(Admitted(c))
    BY <1>1, <2>1, FS_Subset
  <2>4. Cardinality((PendingOf(c) \ again)') \in Nat /\ Cardinality(Admitted(c)') \in Nat
    BY <2>3, FS_CardinalityType
  <2>5. Load(c) <= Cap + Cardinality(Worker) - 1
    BY <1>1 DEF PoolOK
  <2>6. Load(c)' = Cardinality((PendingOf(c) \ again)') + Cardinality(Admitted(c)')
    BY DEF Load
  <2>7. Load(c) = Cardinality(PendingOf(c) \ again) + Cardinality(Admitted(c))
    BY DEF Load
  <2> HIDE DEF Load
  <2> QED BY <2>1, <2>2, <2>3, <2>4, <2>5, <2>6, <2>7
<1> QED BY <1>1 DEF PoolOK

(* A worker whose request is not counted any more, or not yet, adds to no load.     *)
LEMMA UncountedKeeps ==
    ASSUME PoolOK, JobsOK, NEW w \in Worker, NEW k, Become(w, k), k.op \notin Counted,
           pending' \subseteq pending, UNCHANGED <<submission, again>>
    PROVE  PoolOK'
<1>1. \A v \in Worker : job'[v] = IF v = w THEN k ELSE job[v]
  BY DEF Become, JobsOK
<1>2. ASSUME NEW c
      PROVE  /\ (PendingOf(c) \ again)' \subseteq PendingOf(c) \ again
             /\ Admitted(c)' \subseteq Admitted(c)
  BY <1>1 DEF PendingOf, Admitted
<1>3. IsFiniteSet(pending') /\ submission' \in [Txn -> Client \cup {NoClient}]
  BY FS_Subset DEF PoolOK
<1> QED BY <1>2, <1>3, LoadKeeps

-----------------------------------------------------------------------------
(* Reads.                                                                    *)

(* A read that goes on keeps the invariant if what it has found is right.           *)
LEMMA ReadGoesOn ==
    ASSUME IInv, NEW w \in Worker, job[w].op \in Reading, NEW op \in Reading, NEW got,
           Continue(w, op, got), UNCHANGED <<height, best, pending, submission, cache, again>>,
           \A k : SameRead(job[w], k) /\ k.op = op /\ k.got = got /\ Undone(job[w])
                  => GotOK(k)
    PROVE  IInv'
<1> DEFINE j == job[w]
<1>k. PICK k : k = [j EXCEPT !.op = op, !.got = got]
  OBVIOUS
<1>1. IsRead(j) /\ ReadOK(j) /\ JobsOK
  BY ReadOps DEF IInv, JobsOK
<1>2. SameRead(j, k) /\ k.op = op /\ k.got = got
  BY <1>1, <1>k DEF IsRead, SameRead
<1>3. Become(w, k)
  BY <1>k DEF Continue, Become
<1> HIDE DEF j
<1>4. job[w] = j
  BY DEF j
<1>5. IsRead(k)
  BY <1>1, <1>2 DEF IsRead, SameRead
<1>6. k.op # "answered"
  BY <1>2 DEF Reading
<1>7. Undone(k) <=> Undone(j)
  BY <1>2, <1>4 DEF Undone, SameRead
<1>8. IF k.reorged THEN Left(k.tip.height) ELSE Current(k)
  <2>1. IF j.reorged THEN Left(j.tip.height) ELSE Current(j)
    BY <1>1, <1>4 DEF ReadOK
  <2>2. CASE j.reorged
    BY <1>2, <2>1, <2>2 DEF SameRead
  <2>3. CASE ~j.reorged
    <3>1. Undone(j)
      BY <1>4, <2>3 DEF Undone
    <3>2. GotOK(k)
      BY <1>2, <1>4, <3>1
    <3> QED BY <1>2, <2>1, <2>3, <3>2 DEF SameRead, Current
  <2> QED BY <2>2, <2>3
<1>9. JobOK(k)
  BY <1>5, <1>6, <1>8 DEF JobOK, ReadOK
<1>10. k.tip = j.tip
  BY <1>2 DEF SameRead
<1>11. HeightOK' /\ JobsOK' /\ CacheOK'
  <2>1. \A e \in cache' : e \in cache
    OBVIOUS
  <2> QED BY <1>3, <1>4, <1>7, <1>9, <1>10, <2>1, StepKeeps DEF IInv
<1>12. PoolOK'
  <2>1. k.op \notin Counted
    BY <1>2 DEF Reading, Counted
  <2> QED BY <1>3, <2>1, UncountedKeeps DEF IInv
<1> QED BY <1>11, <1>12 DEF IInv

(* A read that is answered keeps it if the value is one of the tips it has seen.     *)
LEMMA ReadIsAnswered ==
    ASSUME IInv, NEW w \in Worker, job[w].op \in Reading, NEW value, Answer(w, value),
           UNCHANGED <<height, best, pending, submission, again>>,
           cache' \in {cache, cache \cup {[key |-> Key(job[w]), value |-> value]}},
           Undone(job[w]) => Answers(job[w].tip, TipsFrom(job[w].tip.height), job[w].ask, value)
    PROVE  IInv'
<1> DEFINE j == job[w]
<1>k. PICK k : k = [j EXCEPT !.op = "answered", !.got = value]
  OBVIOUS
<1>1. IsRead(j) /\ ReadOK(j) /\ JobsOK
  BY ReadOps DEF IInv, JobsOK
<1>2. SameRead(j, k) /\ k.op = "answered" /\ k.got = value
  BY <1>1, <1>k DEF IsRead, SameRead
<1>3. Become(w, k)
  BY <1>k DEF Answer, Continue, Become
<1> HIDE DEF j
<1>4. job[w] = j /\ j.op \in Reading
  BY DEF j
<1>5. IsRead(k)
  BY <1>1, <1>2 DEF IsRead, SameRead
<1>6. ~Undone(k) /\ k.op \notin Reading
  BY <1>2 DEF Undone, Reading
<1>7. IF j.reorged THEN Left(j.tip.height) ELSE Current(j)
  BY <1>1, <1>4 DEF ReadOK
<1>8. ~j.reorged => Answers(j.tip, TipsFrom(j.tip.height), j.ask, value)
  BY <1>4 DEF Undone
<1>9. ~k.reorged => Answers(k.tip, k.seen, k.ask, k.got)
  <2>1. ASSUME ~j.reorged PROVE j.seen = TipsFrom(j.tip.height)
    BY <1>7, <2>1 DEF Current
  <2> QED BY <1>2, <1>8, <2>1 DEF SameRead
<1>10. JobOK(k)
  BY <1>5, <1>6, <1>9 DEF JobOK, ReadOK
<1>11. EntryOK(j.tip, j.ask, value)
  <2>1. j.tip \in AnyTip
    BY <1>1 DEF IsRead
  <2> QED BY <1>7, <1>8, <2>1 DEF EntryOK, Fresh, Current
<1>12. HeightOK' /\ JobsOK' /\ CacheOK'
  <2>1. ASSUME NEW e \in cache'
        PROVE  e \in cache \/ \E tip, ask, ans :
                   e = [key |-> <<tip, ask>>, value |-> ans] /\ EntryOK(tip, ask, ans)
    <3>1. e \in cache \/ e = [key |-> <<j.tip, j.ask>>, value |-> value]
      BY <1>4, <2>1 DEF Key
    <3> QED BY <1>11, <3>1
  <2> QED BY <1>3, <1>6, <1>10, <2>1, StepKeeps DEF IInv
<1>13. PoolOK'
  <2>1. k.op \notin Counted
    BY <1>2 DEF Counted
  <2> QED BY <1>3, <2>1, UncountedKeeps DEF IInv
<1> QED BY <1>12, <1>13 DEF IInv

(* What is known of a read, and more of an undisturbed one.                       *)
LEMMA ReadFacts ==
    ASSUME IInv, NEW w \in Worker, job[w].op \in Reading
    PROVE  /\ IsRead(job[w]) /\ job[w].tip \in AnyTip
           /\ Undone(job[w]) => Current(job[w]) /\ ~Left(job[w].tip.height)
           /\ ~Undone(job[w]) => Left(job[w].tip.height)
<1>1. IsRead(job[w]) /\ ReadOK(job[w])
  BY ReadOps DEF IInv, JobsOK
<1>2. job[w].tip \in AnyTip
  BY <1>1 DEF IsRead
<1>3. Undone(job[w]) => ~Left(job[w].tip.height)
  BY <1>2 DEF Left, AnyTip
<1> QED BY <1>1, <1>2, <1>3 DEF ReadOK, Undone

LEMMA ReadKeeps ==
    ASSUME IInv, NEW w \in Worker, NEW question \in Question, Read(w, question)
    PROVE  IInv'
<1>k. PICK k : k = [op |-> "lookup", ask |-> question, tip |-> Tip, got |-> <<>>,
                    seen |-> {Tip}, reorged |-> FALSE]
  OBVIOUS
<1>1. Become(w, k) /\ UNCHANGED <<height, best, pending, submission, cache, again>>
  BY <1>k DEF Read
<1>2. /\ k = [f \in DOMAIN k |-> k[f]]
      /\ DOMAIN k = {"op", "ask", "tip", "got", "seen", "reorged"}
      /\ k.op = "lookup" /\ k.tip = Tip /\ k.seen = {Tip} /\ k.reorged = FALSE
  BY <1>k
<1>3. height[best] \in Nat /\ best \in 1 .. 2
  BY DEF IInv, HeightOK
<1>4. Tip \in AnyTip /\ Tip.height = height[best] /\ Tip.branch = best
  BY <1>3 DEF Tip, AnyTip
<1>5. TipsFrom(height[best]) = {Tip}
  <2>1. height[best] .. height[best] = {height[best]}
    BY <1>3
  <2> QED BY <2>1 DEF TipsFrom, Tip
<1>6. GotOK(k)
  BY <1>2 DEF GotOK
<1>7. Current(k)
  BY <1>2, <1>3, <1>4, <1>5, <1>6 DEF Current, OnCourse
<1>8. IsRead(k)
  BY <1>2, <1>4 DEF IsRead, Reading
<1>9. JobOK(k)
  BY <1>2, <1>7, <1>8 DEF JobOK, ReadOK
<1>10. HeightOK' /\ JobsOK' /\ CacheOK'
  <2>1. \A e \in cache' : e \in cache
    BY <1>1
  <2>2. k.tip.height = height[best]
    BY <1>2, <1>4
  <2>3. UNCHANGED <<height, best>>
    BY <1>1
  <2> QED BY <1>1, <1>9, <2>1, <2>2, <2>3, StepKeeps DEF IInv
<1>11. PoolOK'
  <2>1. k.op \notin Counted
    BY <1>2 DEF Counted
  <2>2. pending' \subseteq pending /\ UNCHANGED <<submission, again>>
    BY <1>1
  <2> QED BY <1>1, <2>1, <2>2, UncountedKeeps DEF IInv
<1> QED BY <1>10, <1>11 DEF IInv

(* A hit answers: an entry under the tip of an undisturbed read was not left.      *)
LEMMA LookupKeeps ==
    ASSUME IInv, NEW w \in Worker, Lookup(w)
    PROVE  IInv'
<1>1. /\ job[w].op = "lookup"
      /\ UNCHANGED <<height, best, pending, submission, cache, again>>
  BY DEF Lookup
<1>2. job[w].op \in Reading
  BY <1>1 DEF Reading
<1>3. CASE Hits(job[w]) = {}
  <2>o. PICK op : op = IF job[w].ask \in Txn THEN "find" ELSE "outflows"
    OBVIOUS
  <2>1. Continue(w, op, <<>>)
    BY <1>3, <2>o DEF Lookup
  <2>2. op \in Reading
    BY <2>o DEF Reading
  <2>3. ASSUME NEW k, SameRead(job[w], k), k.op = op, k.got = <<>>
        PROVE  GotOK(k)
    BY <2>o, <2>3 DEF SameRead, GotOK
  <2>4. \A k : SameRead(job[w], k) /\ k.op = op /\ k.got = <<>> /\ Undone(job[w]) => GotOK(k)
    BY <2>3
  <2> QED BY <1>1, <1>2, <2>1, <2>2, <2>4, ReadGoesOn
<1>4. CASE Hits(job[w]) # {}
  <2>1. PICK c \in Hits(job[w]) : Answer(w, c.value)
    BY <1>4 DEF Lookup
  <2>2. c \in cache /\ c.key = <<job[w].tip, job[w].ask>>
    BY DEF Hits, Key
  <2>3. PICK tip, ask, value :
            c = [key |-> <<tip, ask>>, value |-> value] /\ EntryOK(tip, ask, value)
    BY <2>2 DEF IInv, CacheOK
  <2>4. tip = job[w].tip /\ ask = job[w].ask /\ value = c.value
    BY <2>2, <2>3
  <2>5. EntryOK(job[w].tip, job[w].ask, c.value)
    BY <2>3, <2>4
  <2>6. ASSUME Undone(job[w])
        PROVE  Answers(job[w].tip, TipsFrom(job[w].tip.height), job[w].ask, c.value)
    BY <1>2, <2>5, <2>6, ReadFacts DEF EntryOK, Fresh
  <2> QED BY <1>1, <1>2, <2>1, <2>6, ReadIsAnswered
<1> QED BY <1>3, <1>4

(* An undisturbed read is still on the longest chain, so it takes the materialization.  *)
LEMMA RoutesAreLongest ==
    ASSUME IInv, NEW w \in Worker, job[w].op \in {"outflows", "inflows"}, Undone(job[w]),
           NEW longest \in Longest(job[w])
    PROVE  /\ job[w].ask \notin Txn /\ job[w].got \in Seq({Routed})
           /\ [longest |-> longest, route |-> Route(job[w].tip, longest)] = Routed
<1>1. job[w].op \in Reading
  BY DEF Reading
<1>2. Current(job[w])
  BY <1>1, ReadFacts
<1>3. job[w].tip.branch = best /\ job[w].ask \notin Txn /\ job[w].got \in Seq({Routed})
  BY <1>2 DEF Current, OnCourse, GotOK
<1>4. longest = TRUE
  <2>1. CASE job[w].got = <<>>
    BY <1>3, <2>1 DEF Longest
  <2>2. CASE job[w].got # <<>>
    <3>1. Last(job[w].got) = Routed
      BY <1>3, <2>2 DEF Last
    <3>2. Last(job[w].got).longest = TRUE
      BY <3>1 DEF Routed
    <3>3. longest \in {job[w].tip.branch = best} \cup {Last(job[w].got).longest}
      BY <2>2 DEF Longest
    <3>4. (job[w].tip.branch = best) = TRUE
      BY <1>3
    <3> QED BY <3>2, <3>3, <3>4, Zenon
  <2> QED BY <2>1, <2>2
<1> QED BY <1>3, <1>4 DEF Route, Routed

LEMMA RoutesKeep ==
    ASSUME IInv, NEW w \in Worker, RouteOutflows(w) \/ RouteInflows(w)
    PROVE  IInv'
<1>1. /\ job[w].op \in {"outflows", "inflows"}
      /\ UNCHANGED <<height, best, pending, submission, cache, again>>
  BY DEF RouteOutflows, RouteInflows
<1>2. job[w].op \in Reading
  BY <1>1 DEF Reading
<1>3. PICK longest \in Longest(job[w]), op \in {"outflows", "inflows", "execute"} :
          Continue(w, op, Append(job[w].got,
                       [longest |-> longest, route |-> Route(job[w].tip, longest)]))
  <2>1. CASE RouteOutflows(w)
    BY <2>1 DEF RouteOutflows
  <2>2. CASE RouteInflows(w)
    <3>1. PICK longest \in Longest(job[w]) :
              Continue(w, IF Len(job[w].got) + 1 = 2 * Legs(job[w].ask)
                          THEN "execute" ELSE "outflows",
                       Append(job[w].got,
                              [longest |-> longest, route |-> Route(job[w].tip, longest)]))
      BY <2>2 DEF RouteInflows
    <3> QED BY <3>1, Zenon
  <2> QED BY <2>1, <2>2
<1>g. PICK got : got = Append(job[w].got,
                           [longest |-> longest, route |-> Route(job[w].tip, longest)])
  OBVIOUS
<1>4. Continue(w, op, got) /\ op \in Reading
  BY <1>3, <1>g DEF Reading
<1>5. ASSUME NEW k, SameRead(job[w], k), k.op = op, k.got = got, Undone(job[w])
      PROVE  GotOK(k)
  <2>1. /\ job[w].ask \notin Txn /\ job[w].got \in Seq({Routed})
        /\ got = Append(job[w].got, Routed)
    BY <1>1, <1>5, <1>g, RoutesAreLongest
  <2>2. got \in Seq({Routed}) /\ got # <<>>
    BY <2>1
  <2>3. k.ask = job[w].ask
    BY <1>5 DEF SameRead
  <2> QED BY <1>5, <2>1, <2>2, <2>3 DEF GotOK
<1>6. \A k : SameRead(job[w], k) /\ k.op = op /\ k.got = got /\ Undone(job[w]) => GotOK(k)
  BY <1>5
<1> QED BY <1>1, <1>2, <1>4, <1>6, ReadGoesOn

(* A balance is taken from the canonical chain of the moment, one the read has seen.  *)
LEMMA ExecuteKeeps ==
    ASSUME IInv, NEW w \in Worker, Execute(w)
    PROVE  IInv'
<1>v. PICK value : value = {Scope(job[w].got[i].route) : i \in DOMAIN job[w].got}
  OBVIOUS
<1>1. /\ job[w].op = "execute" /\ Answer(w, value)
      /\ UNCHANGED <<height, best, pending, submission, again>>
      /\ cache' \in {cache, cache \cup {[key |-> Key(job[w]), value |-> value]}}
  BY <1>v DEF Execute, AnswerAndCache
<1>2. job[w].op \in Reading
  BY <1>1 DEF Reading
<1>3. ASSUME Undone(job[w])
      PROVE  Answers(job[w].tip, TipsFrom(job[w].tip.height), job[w].ask, value)
  <2>1. Current(job[w]) /\ job[w].tip \in AnyTip
    BY <1>2, <1>3, ReadFacts
  <2>2. /\ job[w].ask \notin Txn /\ job[w].got \in Seq({Routed}) /\ job[w].got # <<>>
        /\ job[w].tip.height <= height[best]
    BY <1>1, <2>1 DEF Current, GotOK, OnCourse
  <2>3. \A i \in DOMAIN job[w].got : job[w].got[i].route = {}
    BY <2>2 DEF Routed
  <2>4. 1 \in DOMAIN job[w].got
    BY <2>2
  <2>5. value = {Canonical}
    BY <1>v, <2>3, <2>4 DEF Scope
  <2>6. Tip \in TipsFrom(job[w].tip.height)
    <3>1. height[best] \in job[w].tip.height .. height[best]
      BY <2>1, <2>2 DEF IInv, HeightOK, AnyTip
    <3> QED BY <3>1 DEF TipsFrom, Tip
  <2> QED BY <2>2, <2>5, <2>6 DEF Answers, Canonical
<1> QED BY <1>1, <1>2, <1>3, ReadIsAnswered

LEMMA FindAncestryKeeps ==
    ASSUME IInv, NEW w \in Worker, FindAncestry(w)
    PROVE  IInv'
<1>g. PICK got : got = <<Ancestry(job[w].tip)>>
  OBVIOUS
<1>1. /\ job[w].op = "find" /\ Continue(w, "scan", got)
      /\ UNCHANGED <<height, best, pending, submission, cache, again>>
  BY <1>g DEF FindAncestry
<1>2. job[w].op \in Reading /\ "scan" \in Reading
  BY <1>1 DEF Reading
<1>3. ASSUME NEW k, SameRead(job[w], k), k.op = "scan", k.got = got, Undone(job[w])
      PROVE  GotOK(k)
  <2>1. Current(job[w])
    BY <1>2, <1>3, ReadFacts
  <2>2. job[w].tip.branch = best /\ job[w].ask \in Txn
    BY <1>1, <2>1 DEF Current, GotOK, OnCourse
  <2>3. got = <<[above |-> {}, cap |-> job[w].tip.height]>>
    BY <1>g, <2>2 DEF Ancestry
  <2>4. k.tip = job[w].tip /\ k.ask = job[w].ask
    BY <1>3 DEF SameRead
  <2> QED BY <1>3, <2>2, <2>3, <2>4 DEF GotOK
<1>4. \A k : SameRead(job[w], k) /\ k.op = "scan" /\ k.got = got /\ Undone(job[w])
             => GotOK(k)
  BY <1>3
<1> QED BY <1>1, <1>2, <1>4, ReadGoesOn

(* What is found up to the tip's height is in the tip's chain.                     *)
LEMMA ScanKeeps ==
    ASSUME IInv, NEW w \in Worker, Scan(w)
    PROVE  IInv'
<1> DEFINE Found == \E c \in Within(job[w].got[1]) : At[job[w].ask][c[1]] = c[2]
<1>o. PICK op : op = IF Found THEN "block" ELSE "orphan"
  OBVIOUS
<1>1. /\ job[w].op = "scan" /\ Continue(w, op, <<>>)
      /\ UNCHANGED <<height, best, pending, submission, cache, again>>
  BY <1>o DEF Scan
<1>2. job[w].op \in Reading /\ op \in Reading
  BY <1>1, <1>o DEF Reading
<1>3. ASSUME Undone(job[w]), Found
      PROVE  Has(job[w].tip.branch, job[w].tip.height, job[w].ask)
  <2>1. Current(job[w]) /\ job[w].tip \in AnyTip
    BY <1>2, <1>3, ReadFacts
  <2>2. /\ job[w].tip.branch = best
        /\ job[w].got = <<[above |-> {}, cap |-> job[w].tip.height]>>
    BY <1>1, <2>1 DEF Current, GotOK, OnCourse
  <2>3. Within(job[w].got[1]) = {c \in Canonical : c[2] <= job[w].tip.height}
    BY <2>2 DEF Within
  <2>4. PICK c \in Canonical : c[2] <= job[w].tip.height /\ At[job[w].ask][c[1]] = c[2]
    BY <1>3, <2>3
  <2>5. c[1] = best /\ c[2] \in 1 .. height[best]
    BY <2>4 DEF Canonical, ChainOf, Blocks, Tip
  <2>6. height[best] \in Nat /\ job[w].tip.height \in Nat
    BY <2>1 DEF IInv, HeightOK, AnyTip
  <2> QED BY <2>2, <2>4, <2>5, <2>6 DEF Has
<1>4. ASSUME NEW k, SameRead(job[w], k), k.op = op, k.got = <<>>, Undone(job[w])
      PROVE  GotOK(k)
  <2>1. Current(job[w])
    BY <1>2, <1>4, ReadFacts
  <2>2. job[w].ask \in Txn
    BY <1>1, <2>1 DEF Current, GotOK
  <2>3. k.tip = job[w].tip /\ k.ask = job[w].ask
    BY <1>4 DEF SameRead
  <2>4. k.op \in {"block", "orphan"} /\ (k.op = "block" => Found)
    BY <1>4, <1>o
  <2> HIDE DEF Found
  <2> QED BY <1>3, <1>4, <2>2, <2>3, <2>4 DEF GotOK
<1>5. \A k : SameRead(job[w], k) /\ k.op = op /\ k.got = <<>> /\ Undone(job[w])
             => GotOK(k)
  BY <1>4
<1> HIDE DEF Found
<1> QED BY <1>1, <1>2, <1>5, ReadGoesOn

(* The confirmations that a block has under a tip are the blocks from it to the tip.   *)
LEMMA ConfirmationsCount ==
    ASSUME NEW top \in Nat, NEW at \in 1 .. top
    PROVE  Cardinality({n \in 1 .. top : n >= at}) = top - at + 1
<1>1. {n \in 1 .. top : n >= at} = at .. top
  OBVIOUS
<1>2. Cardinality(at .. top) = top - at + 1
  BY FS_Interval
<1> QED BY <1>1, <1>2

(* The transaction is where the tip's chain has it, however far the chain has grown.   *)
LEMMA LocateKeeps ==
    ASSUME IInv, NEW w \in Worker, Locate(w)
    PROVE  IInv'
<1>a. PICK at : at = IF Has(best, height[best], job[w].ask) THEN At[job[w].ask][best] ELSE 0
  OBVIOUS
<1>v. PICK value : value = [status |-> "canonical", height |-> at,
                            confirmations |-> Confirmations(job[w].tip, at)]
  OBVIOUS
<1>1. /\ job[w].op = "block" /\ Answer(w, value)
      /\ UNCHANGED <<height, best, pending, submission, again>>
      /\ cache' = cache \cup {[key |-> Key(job[w]), value |-> value]}
  BY <1>a, <1>v DEF Locate, AnswerAndCache
<1>2. job[w].op \in Reading
  BY <1>1 DEF Reading
<1>3. ASSUME Undone(job[w])
      PROVE  Answers(job[w].tip, TipsFrom(job[w].tip.height), job[w].ask, value)
  <2>1. Current(job[w]) /\ job[w].tip \in AnyTip
    BY <1>2, <1>3, ReadFacts
  <2>2. /\ job[w].ask \in Txn /\ Has(job[w].tip.branch, job[w].tip.height, job[w].ask)
        /\ job[w].tip.branch = best /\ job[w].tip.height <= height[best]
    BY <1>1, <2>1 DEF Current, GotOK, OnCourse
  <2>3. height[best] \in Nat /\ job[w].tip.height \in Nat
    BY <2>1 DEF IInv, HeightOK, AnyTip
  <2>4. at = At[job[w].ask][best] /\ at \in 1 .. job[w].tip.height
    BY <1>a, <2>2, <2>3 DEF Has
  <2>5. Confirmations(job[w].tip, at)
            = Cardinality({n \in 1 .. job[w].tip.height : n >= at})
    BY <2>3, <2>4, ConfirmationsCount DEF Confirmations
  <2>6. value.height = at /\ value.confirmations = Confirmations(job[w].tip, at)
    BY <1>v
  <2>7. HoldsAt(job[w].tip, job[w].ask, value)
    BY <2>2, <2>4, <2>5, <2>6 DEF HoldsAt
  <2> QED BY <2>2, <2>7 DEF Answers
<1> QED BY <1>1, <1>2, <1>3, ReadIsAnswered

(* The other answers claim nothing of the chain.                                 *)
LEMMA NotCanonicalKeeps ==
    ASSUME IInv, NEW w \in Worker, job[w].op \in {"orphan", "pool"}, NEW value,
           Answer(w, value), value.status # "canonical",
           UNCHANGED <<height, best, pending, submission, again>>,
           cache' \in {cache, cache \cup {[key |-> Key(job[w]), value |-> value]}}
    PROVE  IInv'
<1>1. job[w].op \in Reading
  BY DEF Reading
<1>2. ASSUME Undone(job[w])
      PROVE  Answers(job[w].tip, TipsFrom(job[w].tip.height), job[w].ask, value)
  <2>1. Current(job[w])
    BY <1>1, <1>2, ReadFacts
  <2>2. job[w].ask \in Txn
    BY <2>1 DEF Current, GotOK
  <2> QED BY <2>2 DEF Answers, HoldsAt
<1> QED BY <1>1, <1>2, ReadIsAnswered

LEMMA OrphanKeeps ==
    ASSUME IInv, NEW w \in Worker, Orphan(w)
    PROVE  IInv'
<1>1. job[w].op = "orphan" /\ UNCHANGED <<height, best, pending, submission, again>>
  BY DEF Orphan
<1>2. CASE Stored(job[w].ask)
  <2>v. PICK value : value = [status |-> "orphaned"]
    OBVIOUS
  <2>1. Answer(w, value) /\ cache' = cache \cup {[key |-> Key(job[w]), value |-> value]}
    BY <1>2, <2>v DEF Orphan, AnswerAndCache
  <2>2. value.status # "canonical"
    BY <2>v
  <2> QED BY <1>1, <2>1, <2>2, NotCanonicalKeeps
<1>3. CASE ~Stored(job[w].ask)
  <2>1. Continue(w, "pool", <<>>) /\ UNCHANGED cache
    BY <1>3 DEF Orphan
  <2>2. job[w].op \in Reading /\ "pool" \in Reading
    BY <1>1 DEF Reading
  <2>3. ASSUME NEW k, SameRead(job[w], k), k.op = "pool", Undone(job[w])
        PROVE  GotOK(k)
    <3>1. Current(job[w])
      BY <2>2, <2>3, ReadFacts
    <3>2. job[w].ask \in Txn
      BY <1>1, <3>1 DEF Current, GotOK
    <3> QED BY <2>3, <3>2 DEF GotOK, SameRead
  <2>4. \A k : SameRead(job[w], k) /\ k.op = "pool" /\ k.got = <<>> /\ Undone(job[w])
               => GotOK(k)
    BY <2>3
  <2> QED BY <1>1, <2>1, <2>2, <2>4, ReadGoesOn
<1> QED BY <1>2, <1>3

LEMMA PoolKeeps ==
    ASSUME IInv, NEW w \in Worker, Pool(w)
    PROVE  IInv'
<1>1. job[w].op = "pool" /\ UNCHANGED <<height, best, pending, submission, again>>
  BY DEF Pool
<1>v. PICK value : value = IF job[w].ask \in pending THEN [status |-> "pending"]
                           ELSE [status |-> "not found"]
  OBVIOUS
<1>2. /\ Answer(w, value)
      /\ cache' \in {cache, cache \cup {[key |-> Key(job[w]), value |-> value]}}
  <2>1. CASE job[w].ask \in pending
    BY <1>v, <2>1 DEF Pool, AnswerAndCache
  <2>2. CASE job[w].ask \notin pending
    BY <1>v, <2>2 DEF Pool
  <2> QED BY <2>1, <2>2
<1>3. value.status # "canonical"
  BY <1>v
<1> QED BY <1>1, <1>2, <1>3, NotCanonicalKeeps

-----------------------------------------------------------------------------
(* The chain grows.                                                          *)

(* What a block does to a read in progress.                                     *)
LEMMA WitnessIs ==
    ASSUME JobsOK, NEW tip, NEW reorg \in BOOLEAN, Witness(tip, reorg), NEW w \in Worker
    PROVE  /\ job' = [v \in Worker |-> job'[v]]
           /\ job[w].op \notin Reading => job'[w] = job[w]
           /\ job[w].op \in Reading =>
                 /\ IsRead(job'[w]) /\ job'[w].op = job[w].op
                 /\ job'[w].ask = job[w].ask /\ job'[w].tip = job[w].tip
                 /\ job'[w].got = job[w].got
                 /\ job'[w].reorged = (job[w].reorged \/ reorg)
                 /\ ~job'[w].reorged => job'[w].seen = job[w].seen \cup {tip}
<1> DEFINE Seen(j) == IF j.reorged \/ reorg THEN {} ELSE j.seen \cup {tip}
<1>1. /\ job' = [v \in Worker |-> job'[v]]
      /\ job'[w] = IF job[w].op \notin Reading THEN job[w]
                   ELSE [job[w] EXCEPT !.reorged = job[w].reorged \/ reorg,
                                       !.seen = Seen(job[w])]
  BY DEF Witness
<1>2. ASSUME job[w].op \in Reading
      PROVE  /\ IsRead(job'[w]) /\ job'[w].op = job[w].op
             /\ job'[w].ask = job[w].ask /\ job'[w].tip = job[w].tip
             /\ job'[w].got = job[w].got
             /\ job'[w].reorged = (job[w].reorged \/ reorg)
             /\ ~job'[w].reorged => job'[w].seen = job[w].seen \cup {tip}
  <2>1. IsRead(job[w])
    BY <1>2, ReadOps DEF JobsOK
  <2>r. PICK r \in BOOLEAN : r = (job[w].reorged \/ reorg)
    OBVIOUS
  <2>s. PICK s : s = Seen(job[w])
    OBVIOUS
  <2>2. job'[w] = [job[w] EXCEPT !.reorged = r, !.seen = s]
    BY <1>1, <1>2, <2>r, <2>s, Zenon
  <2>3. ~r => s = job[w].seen \cup {tip}
    BY <2>r, <2>s
  <2> HIDE DEF Seen
  <2>4. /\ job'[w] = [f \in DOMAIN job'[w] |-> job'[w][f]]
        /\ DOMAIN job'[w] = {"op", "ask", "tip", "got", "seen", "reorged"}
    <3>1. /\ job[w] = [f \in DOMAIN job[w] |-> job[w][f]]
          /\ DOMAIN job[w] = {"op", "ask", "tip", "got", "seen", "reorged"}
      BY <2>1 DEF IsRead
    <3> QED BY <2>2, <3>1
  <2>5. /\ job'[w].op = job[w].op /\ job'[w].ask = job[w].ask /\ job'[w].tip = job[w].tip
        /\ job'[w].got = job[w].got /\ job'[w].reorged = r /\ job'[w].seen = s
    BY <2>1, <2>2 DEF IsRead
  <2>6. IsRead(job'[w])
    BY <2>1, <2>4, <2>5 DEF IsRead
  <2> QED BY <2>3, <2>5, <2>6, <2>r
<1> QED BY <1>1, <1>2

(* A block keeps a read undisturbed, or leaves its tip behind.                     *)
LEMMA AddBlockKeeps ==
    ASSUME IInv, NEW b \in 1 .. 2, NEW live \in BOOLEAN, AddBlock(b, live)
    PROVE  IInv'
<1> DEFINE reorg == best' # best
<1>t. PICK tip : tip = [branch |-> best', height |-> height'[best']]
  OBVIOUS
<1>1. /\ HeightOK /\ JobsOK /\ CacheOK /\ PoolOK
      /\ pending' \subseteq pending /\ cache' \subseteq cache
      /\ UNCHANGED <<submission, again>>
      /\ Witness(tip, reorg)
  BY <1>t DEF AddBlock, Reachable, IInv
<1>2. /\ HeightOK'
      /\ \/ ~reorg /\ height'[best'] \in {height[best], height[best] + 1}
         \/ reorg /\ height'[best'] = height[best] + 1
  BY TipRises DEF IInv
<1>3. height[best] \in Nat /\ height'[best'] \in Nat
  BY <1>1, <1>2 DEF HeightOK
<1>4. reorg \in BOOLEAN
  OBVIOUS
<1>5. ~reorg => best' = best
  OBVIOUS
<1> HIDE DEF reorg
<1>6. job' = [v \in Worker |-> job'[v]]
  BY <1>1 DEF Witness
<1>7. ASSUME NEW w \in Worker, Undone(job'[w])
      PROVE  Undone(job[w]) /\ ~reorg /\ job'[w].tip = job[w].tip
  <2>1. job[w].op \in Reading
    BY <1>1, <1>4, <1>7, WitnessIs DEF Undone
  <2> QED BY <1>1, <1>4, <1>7, <2>1, WitnessIs DEF Undone
<1>8. ASSUME NEW h \in Nat, \/ Left(h)
                            \/ reorg /\ h <= height[best]
      PROVE  Left(h)'
  <2>1. h < height'[best']
    BY <1>2, <1>3, <1>8 DEF Left
  <2>2. ASSUME NEW w \in Worker, Undone(job'[w]) PROVE h < job'[w].tip.height
    BY <1>7, <1>8, <2>2 DEF Left
  <2>3. \A w \in Worker : Undone(job'[w]) => h < job'[w].tip.height
    BY <2>2
  <2> QED BY <2>1, <2>3 DEF Left, Undone
<1>9. ASSUME NEW h \in Nat, h <= height[best], ~reorg
      PROVE  TipsFrom(h)' = TipsFrom(h) \cup {tip} /\ h <= height'[best']
  <2>1. /\ best' = best
        /\ h .. height'[best'] = (h .. height[best]) \cup {height'[best']}
        /\ h <= height'[best']
    BY <1>2, <1>3, <1>5, <1>9
  <2> QED BY <1>t, <2>1 DEF TipsFrom
<1>10. ASSUME NEW w \in Worker PROVE JobOK(job[w])'
  <2>k. PICK k : k = job'[w]
    OBVIOUS
  <2>1. JobOK(job[w])
    BY <1>1 DEF JobsOK
  <2>2. ASSUME job[w].op \notin Reading PROVE JobOK(k)'
    <3>1. k = job[w]
      BY <1>1, <1>4, <2>2, <2>k, WitnessIs
    <3>2. \/ k = NoJob \/ k \in AnyPost
          \/ /\ IsRead(k) /\ k.op \notin Reading
             /\ k.op = "answered" /\ ~k.reorged => Answers(k.tip, k.seen, k.ask, k.got)
      BY <2>1, <2>2, <3>1 DEF JobOK, ReadOK
    <3> QED BY <3>2 DEF JobOK, ReadOK
  <2>3. ASSUME job[w].op \in Reading PROVE JobOK(k)'
    <3>1. /\ IsRead(k) /\ k.op = job[w].op /\ k.ask = job[w].ask /\ k.tip = job[w].tip
          /\ k.got = job[w].got /\ k.reorged = (job[w].reorged \/ reorg)
          /\ ~k.reorged => k.seen = job[w].seen \cup {tip}
      BY <1>1, <1>4, <2>3, <2>k, WitnessIs
    <3>h. PICK h : h = k.tip.height
      OBVIOUS
    <3>2. /\ IF job[w].reorged THEN Left(h) ELSE Current(job[w])
          /\ h \in Nat
      <4>1. job[w].tip.height = h
        BY <3>1, <3>h
      <4> QED BY <2>1, <2>3, <4>1, ReadOps DEF ReadOK, IsRead, AnyTip
    <3>3. k.op # "answered"
      BY <2>3, <3>1 DEF Reading
    <3>4. CASE k.reorged
      <4>1. Left(h) \/ (reorg /\ h <= height[best])
        BY <3>1, <3>2, <3>4, <3>h DEF Current, OnCourse
      <4>2. Left(h)'
        BY <1>8, <3>2, <4>1
      <4>3. Left(k.tip.height)'
        BY <3>h, <4>2
      <4>4. ReadOK(k)'
        <5> HIDE DEF Left
        <5> QED BY <3>3, <3>4, <4>3 DEF ReadOK
      <4> QED BY <3>1, <4>4 DEF JobOK
    <3>5. CASE ~k.reorged
      <4>1. ~reorg /\ Current(job[w])
        BY <3>1, <3>2, <3>5
      <4>2. /\ k.tip.branch = best /\ h <= height[best]
            /\ job[w].seen = TipsFrom(h) /\ GotOK(job[w])
        BY <3>1, <3>h, <4>1 DEF Current, OnCourse
      <4>3. TipsFrom(h)' = k.seen /\ h <= height'[best']
        BY <1>9, <3>1, <3>2, <3>5, <4>1, <4>2
      <4>4. GotOK(k)
        BY <3>1, <4>2 DEF GotOK
      <4>5. OnCourse(k.tip)'
        BY <1>5, <3>h, <4>1, <4>2, <4>3 DEF OnCourse
      <4>6. k.seen = TipsFrom(k.tip.height)'
        BY <3>h, <4>3
      <4>7. Current(k)'
        BY <4>4, <4>5, <4>6 DEF Current
      <4> QED BY <3>1, <3>3, <3>5, <4>7 DEF JobOK, ReadOK
    <3> QED BY <3>4, <3>5
  <2>4. JobOK(k)'
    BY <2>2, <2>3
  <2> QED BY <2>k, <2>4
<1>11. ASSUME NEW at, NEW ask, NEW value, EntryOK(at, ask, value)
       PROVE  EntryOK(at, ask, value)'
  <2>1. at.height \in Nat /\ at \in AnyTip
    BY <1>11 DEF EntryOK, AnyTip
  <2>2. CASE Left(at.height)
    BY <1>8, <2>1, <2>2 DEF EntryOK
  <2>3. CASE Fresh(at, ask, value)
    <3>1. /\ at.branch = best /\ at.height <= height[best]
          /\ Answers(at, TipsFrom(at.height), ask, value)
      BY <2>3 DEF Fresh, OnCourse
    <3>2. CASE reorg
      BY <1>8, <2>1, <3>1, <3>2 DEF EntryOK
    <3>3. CASE ~reorg
      <4>1. /\ TipsFrom(at.height)' = TipsFrom(at.height) \cup {tip}
            /\ at.height <= height'[best'] /\ at.branch = best'
        BY <1>5, <1>9, <2>1, <3>1, <3>3
      <4>2. Answers(at, TipsFrom(at.height)', ask, value)
        BY <3>1, <4>1 DEF Answers
      <4>3. Fresh(at, ask, value)'
        BY <4>1, <4>2 DEF Fresh, OnCourse, Answers
      <4> QED BY <2>1, <4>3 DEF EntryOK
    <3> QED BY <3>2, <3>3
  <2> QED BY <1>11, <2>2, <2>3 DEF EntryOK
<1>12. CacheOK'
  <2>1. ASSUME NEW e \in cache'
        PROVE  \E at, ask, value :
                   e = [key |-> <<at, ask>>, value |-> value] /\ EntryOK(at, ask, value)
    BY <1>1, <2>1 DEF CacheOK
  <2> QED BY <1>11, <2>1 DEF CacheOK
<1>13. PoolOK'
  <2>1. ASSUME NEW c
        PROVE  /\ (PendingOf(c) \ again)' \subseteq PendingOf(c) \ again
               /\ Admitted(c)' \subseteq Admitted(c)
    <3>1. ASSUME NEW w \in Worker, job'[w].op \in Counted
          PROVE  job[w] = job'[w]
      BY <1>1, <1>4, <3>1, WitnessIs DEF Counted, Reading
    <3>2. Admitted(c)' \subseteq Admitted(c)
      BY <3>1 DEF Admitted
    <3> QED BY <1>1, <3>2 DEF PendingOf
  <2>2. IsFiniteSet(pending') /\ submission' \in [Txn -> Client \cup {NoClient}]
    BY <1>1, FS_Subset DEF PoolOK
  <2> QED BY <1>1, <2>1, <2>2, LoadKeeps
<1>14. JobsOK'
  BY <1>6, <1>10 DEF JobsOK
<1> QED BY <1>2, <1>12, <1>13, <1>14 DEF IInv

-----------------------------------------------------------------------------
(* Posts.                                                                    *)

(* A step of a post, or the end of any request, touches no read and no answer.     *)
LEMMA PostStepKeeps ==
    ASSUME IInv, NEW w \in Worker, NEW k, k = NoJob \/ k \in AnyPost, Become(w, k),
           UNCHANGED <<height, best, cache>>
    PROVE  HeightOK' /\ JobsOK' /\ CacheOK'
<1>1. JobOK(k)
  BY DEF JobOK
<1>2. ~Undone(k)
  <2>1. k.op \in Posting \cup {"idle"}
    BY DEF NoJob, AnyPost
  <2> QED BY <2>1 DEF Undone, Reading, Posting
<1>3. \A e \in cache' : e \in cache
  OBVIOUS
<1> QED BY <1>1, <1>2, <1>3, StepKeeps DEF IInv

LEMMA PostFacts ==
    ASSUME IInv, NEW w \in Worker, job[w].op \in Posting
    PROVE  /\ job[w] \in AnyPost
           /\ job[w].client \in Client /\ job[w].txn \in Txn
           /\ \A op \in Posting : [job[w] EXCEPT !.op = op] \in AnyPost
<1>1. job[w] \in AnyPost
  BY ReadOps DEF IInv, JobsOK
<1> QED BY <1>1 DEF AnyPost

LEMMA SendKeeps ==
    ASSUME IInv, NEW w \in Worker, Send(w) \/ Die(w)
    PROVE  IInv'
<1>1. Become(w, NoJob) /\ UNCHANGED <<height, best, pending, submission, cache, again>>
  BY DEF Send, Die
<1>2. NoJob.op \notin Counted
  BY DEF NoJob, Counted
<1>3. HeightOK' /\ JobsOK' /\ CacheOK'
  BY <1>1, PostStepKeeps
<1>4. PoolOK'
  BY <1>1, <1>2, UncountedKeeps DEF IInv
<1> QED BY <1>3, <1>4 DEF IInv

LEMMA ExpireKeeps ==
    ASSUME IInv, NEW t \in Txn, Expire(t)
    PROVE  IInv'
<1>1. pending' = pending \ {t} /\ UNCHANGED <<height, best, submission, cache, job, again>>
  BY DEF Expire
<1>2. HeightOK'
  BY <1>1 DEF IInv, HeightOK
<1>3. ASSUME NEW h PROVE Left(h)' = Left(h)
  BY <1>1 DEF Left, Undone
<1>4. ASSUME NEW j PROVE JobOK(j) => JobOK(j)'
  BY <1>1, <1>3 DEF JobOK, ReadOK, Current, OnCourse, TipsFrom
<1>5. JobsOK'
  BY <1>1, <1>4 DEF IInv, JobsOK
<1>6. ASSUME NEW tip, NEW ask, NEW value
      PROVE  EntryOK(tip, ask, value) => EntryOK(tip, ask, value)'
  BY <1>1, <1>3 DEF EntryOK, Fresh, OnCourse, TipsFrom
<1>7. CacheOK'
  BY <1>1, <1>6 DEF IInv, CacheOK
<1>8. PoolOK'
  <2>1. ASSUME NEW c
        PROVE  /\ (PendingOf(c) \ again)' \subseteq PendingOf(c) \ again
               /\ Admitted(c)' \subseteq Admitted(c)
    BY <1>1 DEF PendingOf, Admitted
  <2>2. IsFiniteSet(pending') /\ submission' \in [Txn -> Client \cup {NoClient}]
    BY <1>1, FS_Subset DEF IInv, PoolOK
  <2> QED BY <2>1, <2>2, LoadKeeps DEF IInv
<1> QED BY <1>2, <1>5, <1>7, <1>8 DEF IInv

(* The quota is counted when the request of a transactor is not admitted yet; others   *)
(* have none.                                                                 *)
LEMMA PostTxnKeeps ==
    ASSUME IInv, NEW w \in Worker, NEW c \in Client, NEW t \in Txn, PostTxn(w, c, t)
    PROVE  IInv'
<1>o. PICK op \in Posting : op = IF RoleOf(c) = Transactor THEN "count" ELSE "check"
  BY DEF Posting
<1>k. PICK k : k = [op |-> op, client |-> c, txn |-> t]
  OBVIOUS
<1>1. /\ job[w] = NoJob /\ Become(w, k)
      /\ UNCHANGED <<height, best, pending, submission, cache, again>>
  BY <1>o, <1>k DEF PostTxn
<1>2. k \in AnyPost /\ k.op = op /\ k.client = c
  BY <1>k DEF AnyPost
<1>3. HeightOK' /\ JobsOK' /\ CacheOK'
  BY <1>1, <1>2, PostStepKeeps
<1>4. PoolOK'
  <2>1. \A v \in Worker : job'[v] = IF v = w THEN k ELSE job[v]
    BY <1>1 DEF Become, IInv, JobsOK
  <2>2. ASSUME NEW d \in Client, RoleOf(d) = Transactor
        PROVE  /\ (PendingOf(d) \ again)' \subseteq PendingOf(d) \ again
               /\ Admitted(d)' \subseteq Admitted(d)
    <3>1. ASSUME d = c PROVE op \notin Counted
      BY <1>o, <2>2, <3>1 DEF Counted
    <3> QED BY <1>1, <1>2, <2>1, <3>1 DEF PendingOf, Admitted
  <2>3. IsFiniteSet(pending') /\ submission' \in [Txn -> Client \cup {NoClient}]
    BY <1>1 DEF IInv, PoolOK
  <2> QED BY <2>2, <2>3, LoadKeeps DEF IInv
<1> QED BY <1>3, <1>4 DEF IInv

(* Who passes the quota had room for one, whatever the other workers have admitted.    *)
LEMMA CheckQuotaKeeps ==
    ASSUME IInv, NEW w \in Worker, CheckQuota(w)
    PROVE  IInv'
<1>1. /\ job[w].op = "count"
      /\ UNCHANGED <<height, best, pending, submission, cache, again>>
  BY DEF CheckQuota
<1>2. job[w].op \in Posting
  BY <1>1 DEF Posting
<1>3. CASE Cardinality(PendingOf(job[w].client)) >= Cap
  <2>1. Become(w, NoJob)
    BY <1>3 DEF CheckQuota
  <2>2. NoJob.op \notin Counted
    BY DEF NoJob, Counted
  <2>3. HeightOK' /\ JobsOK' /\ CacheOK'
    BY <1>1, <2>1, PostStepKeeps
  <2>4. PoolOK'
    BY <1>1, <2>1, <2>2, UncountedKeeps DEF IInv
  <2> QED BY <2>3, <2>4 DEF IInv
<1>4. CASE ~(Cardinality(PendingOf(job[w].client)) >= Cap)
  <2>k. PICK k : k = [job[w] EXCEPT !.op = "check"]
    OBVIOUS
  <2>1. Become(w, k)
    BY <1>4, <2>k DEF CheckQuota
  <2>2. k \in AnyPost /\ k.client = job[w].client
    BY <1>2, <2>k, PostFacts DEF AnyPost, Posting
  <2>3. HeightOK' /\ JobsOK' /\ CacheOK'
    BY <1>1, <2>1, <2>2, PostStepKeeps
  <2>4. \A v \in Worker : job'[v] = IF v = w THEN k ELSE job[v]
    BY <2>1 DEF Become, IInv, JobsOK
  <2>5. ASSUME NEW c \in Client, RoleOf(c) = Transactor
        PROVE  Load(c)' <= Cap + Cardinality(Worker) - 1
    <3>1. PendingOf(c)' = PendingOf(c) /\ (PendingOf(c) \ again)' = PendingOf(c) \ again
      BY <1>1 DEF PendingOf
    <3>2. /\ Cardinality(PendingOf(c) \ again) <= Cardinality(PendingOf(c))
          /\ Cardinality(PendingOf(c) \ again) \in Nat /\ Cardinality(PendingOf(c)) \in Nat
          /\ Cardinality(Worker) \in Nat /\ Cap \in Nat
      BY LoadIsFinite, ApiAssumption DEF IInv, PoolOK
    <3>3. CASE c = job[w].client
      <4>1. IsFiniteSet(Worker) /\ Admitted(c)' \subseteq Worker
        BY ApiAssumption DEF Admitted
      <4>2. /\ Cardinality(Admitted(c)') <= Cardinality(Worker)
            /\ Cardinality(Admitted(c)') \in Nat
        BY <4>1, FS_Subset, FS_CardinalityType
      <4>3. Cardinality(PendingOf(c)) < Cap
        BY <1>4, <3>2, <3>3
      <4>4. Load(c)' = Cardinality(PendingOf(c) \ again) + Cardinality(Admitted(c)')
        BY <3>1 DEF Load
      <4> QED BY <3>2, <4>2, <4>3, <4>4
    <3>4. CASE c # job[w].client
      <4>1. Admitted(c)' = Admitted(c)
        BY <2>2, <2>4, <3>4 DEF Admitted
      <4>2. Load(c)' = Load(c)
        BY <3>1, <4>1 DEF Load
      <4> QED BY <2>5, <4>2 DEF IInv, PoolOK
    <3> QED BY <3>3, <3>4
  <2>6. PoolOK'
    BY <1>1, <2>5 DEF IInv, PoolOK
  <2> QED BY <2>3, <2>6 DEF IInv
<1> QED BY <1>3, <1>4

(* An admitted request that goes on is still one of the admitted.                  *)
LEMMA CheckTxnKeeps ==
    ASSUME IInv, NEW w \in Worker, CheckTxn(w)
    PROVE  IInv'
<1>1. /\ job[w].op = "check"
      /\ UNCHANGED <<height, best, pending, submission, cache, again>>
  BY DEF CheckTxn
<1>2. job[w].op \in Posting /\ job[w].op \in Counted
  BY <1>1 DEF Posting, Counted
<1>3. PICK k : Become(w, k) /\ (k = NoJob \/ k = [job[w] EXCEPT !.op = "add"])
  BY DEF CheckTxn
<1>4. \/ k = NoJob /\ k.op \notin Counted
      \/ k \in AnyPost /\ k.client = job[w].client
  <2>1. CASE k = NoJob
    BY <2>1 DEF NoJob, Counted
  <2>2. CASE k = [job[w] EXCEPT !.op = "add"]
    <3>1. job[w] \in AnyPost
      BY <1>2, PostFacts
    <3> QED BY <2>2, <3>1 DEF AnyPost, Posting
  <2> QED BY <1>3, <2>1, <2>2
<1>5. HeightOK' /\ JobsOK' /\ CacheOK'
  BY <1>1, <1>3, <1>4, PostStepKeeps
<1>6. PoolOK'
  <2>1. \A v \in Worker : job'[v] = IF v = w THEN k ELSE job[v]
    BY <1>3 DEF Become, IInv, JobsOK
  <2>2. ASSUME NEW c
        PROVE  /\ (PendingOf(c) \ again)' \subseteq PendingOf(c) \ again
               /\ Admitted(c)' \subseteq Admitted(c)
    <3>1. Admitted(c)' \subseteq Admitted(c)
      BY <1>2, <1>4, <2>1 DEF Admitted
    <3> QED BY <1>1, <3>1 DEF PendingOf
  <2>3. IsFiniteSet(pending') /\ submission' \in [Txn -> Client \cup {NoClient}]
    BY <1>1 DEF IInv, PoolOK
  <2> QED BY <2>2, <2>3, LoadKeeps DEF IInv
<1> QED BY <1>5, <1>6 DEF IInv

(* A row that is added is charged to nobody yet, or is one that entered again.      *)
LEMMA AddTxnKeeps ==
    ASSUME IInv, NEW w \in Worker, AddTxn(w)
    PROVE  IInv'
<1>k. PICK k : k = [job[w] EXCEPT !.op = "record"]
  OBVIOUS
<1>1. /\ job[w].op = "add" /\ Become(w, k)
      /\ pending' = pending \cup {job[w].txn}
      /\ again' = IF job[w].txn \notin pending /\ submission[job[w].txn] # NoClient
                  THEN again \cup {job[w].txn} ELSE again
      /\ UNCHANGED <<height, best, submission, cache>>
  BY <1>k DEF AddTxn
<1>2. job[w].op \in Posting /\ job[w].op \in Counted
  BY <1>1 DEF Posting, Counted
<1>3. k \in AnyPost /\ k.client = job[w].client
  BY <1>2, <1>k, PostFacts DEF AnyPost, Posting
<1>4. HeightOK' /\ JobsOK' /\ CacheOK'
  BY <1>1, <1>3, PostStepKeeps
<1>5. PoolOK'
  <2>1. \A v \in Worker : job'[v] = IF v = w THEN k ELSE job[v]
    BY <1>1 DEF Become, IInv, JobsOK
  <2>2. ASSUME NEW c \in Client
        PROVE  /\ (PendingOf(c) \ again)' \subseteq PendingOf(c) \ again
               /\ Admitted(c)' \subseteq Admitted(c)
    <3>1. Admitted(c)' \subseteq Admitted(c)
      BY <1>2, <1>3, <2>1 DEF Admitted
    <3>2. ASSUME NEW t, t \in (PendingOf(c) \ again)'
          PROVE  t \in PendingOf(c) \ again
      <4>1. submission[t] = c /\ t \in pending' /\ t \notin again'
        BY <1>1, <3>2 DEF PendingOf
      <4>2. t \notin again
        BY <1>1, <4>1
      <4>3. c # NoClient
        BY ApiAssumption
      <4>4. t \in pending
        BY <1>1, <4>1, <4>3
      <4> QED BY <4>1, <4>2, <4>4 DEF PendingOf
    <3> QED BY <3>1, <3>2
  <2>3. IsFiniteSet(pending)
    BY DEF IInv, PoolOK
  <2>4. IsFiniteSet(pending') /\ submission' \in [Txn -> Client \cup {NoClient}]
    BY <1>1, <2>3, FS_AddElement DEF IInv, PoolOK
  <2> QED BY <2>2, <2>4, LoadKeeps DEF IInv
<1> QED BY <1>4, <1>5 DEF IInv

(* A recorded transaction takes the place of the request that posted it.           *)
LEMMA RecordKeeps ==
    ASSUME IInv, NEW w \in Worker, Record(w)
    PROVE  IInv'
<1> DEFINE t == job[w].txn
           d == job[w].client
<1>1. /\ job[w].op = "record" /\ Become(w, NoJob)
      /\ submission' = [submission EXCEPT ![t] = IF submission[t] = NoClient THEN d
                                                 ELSE submission[t]]
      /\ UNCHANGED <<height, best, pending, cache, again>>
  BY DEF Record
<1>2. job[w].op \in Posting /\ job[w].op \in Counted
  BY <1>1 DEF Posting, Counted
<1>3. d \in Client /\ t \in Txn
  BY <1>2, PostFacts
<1>4. NoJob.op \notin Counted
  BY DEF NoJob, Counted
<1>5. job[w].client = d
  OBVIOUS
<1> HIDE DEF t, d
<1>6. HeightOK' /\ JobsOK' /\ CacheOK'
  BY <1>1, PostStepKeeps
<1>7. PoolOK'
  <2>1. \A v \in Worker : job'[v] = IF v = w THEN NoJob ELSE job[v]
    BY <1>1 DEF Become, IInv, JobsOK
  <2>2. submission \in [Txn -> Client \cup {NoClient}] /\ IsFiniteSet(pending)
    BY DEF IInv, PoolOK
  <2>3. submission' \in [Txn -> Client \cup {NoClient}]
    BY <1>1, <1>3, <2>2
  <2>4. \A u \in Txn : submission'[u] = IF u = t /\ submission[t] = NoClient THEN d
                                       ELSE submission[u]
    BY <1>1, <1>3, <2>2
  <2>5. ASSUME NEW c \in Client, RoleOf(c) = Transactor
        PROVE  Load(c)' <= Cap + Cardinality(Worker) - 1
    <3>1. Admitted(c)' = Admitted(c) \ {w}
      BY <1>4, <2>1 DEF Admitted
    <3>2. (PendingOf(c) \ again)' \subseteq (PendingOf(c) \ again) \cup {t}
      <4>1. ASSUME NEW u, u \in (PendingOf(c) \ again)', u # t
            PROVE  u \in PendingOf(c) \ again
        <5>1. u \in pending /\ submission'[u] = c /\ u \notin again
          BY <1>1, <4>1 DEF PendingOf
        <5>2. submission'[u] = submission[u]
          BY <1>1, <4>1
        <5> QED BY <5>1, <5>2 DEF PendingOf
      <4> QED BY <4>1
    <3>3. c # d => (PendingOf(c) \ again)' \subseteq PendingOf(c) \ again
      <4>1. ASSUME c # d, NEW u, u \in (PendingOf(c) \ again)'
            PROVE  u \in PendingOf(c) \ again
        <5>1. u \in pending /\ submission'[u] = c /\ u \notin again
          BY <1>1, <4>1 DEF PendingOf
        <5>2. submission[u] = c
          BY <1>1, <1>3, <2>4, <4>1, <5>1
        <5> QED BY <5>1, <5>2 DEF PendingOf
      <4> QED BY <4>1
    <3> DEFINE A == PendingOf(c) \ again
               B == Admitted(c)
    <3>4. /\ IsFiniteSet(A) /\ IsFiniteSet(B)
          /\ Cardinality(A) \in Nat /\ Cardinality(B) \in Nat /\ Cardinality(Worker) \in Nat
      BY <2>2, LoadIsFinite
    <3>5. /\ Load(c) = Cardinality(A) + Cardinality(B)
          /\ Load(c)' = Cardinality(A') + Cardinality(B')
          /\ Load(c) <= Cap + Cardinality(Worker) - 1 /\ Cap \in Nat
      BY <2>5, ApiAssumption DEF Load, IInv, PoolOK
    <3>6. CASE c = d
      <4>1. w \in B
        BY <1>2, <1>5, <3>6 DEF Admitted
      <4>2. B' = B \ {w} /\ A' \subseteq A \cup {t}
        BY <3>1, <3>2
      <4> HIDE DEF A, B
      <4>3. Cardinality(B \ {w}) = Cardinality(B) - 1
        BY <3>4, <4>1, FS_RemoveElement
      <4>a. /\ IsFiniteSet(A \cup {t})
            /\ Cardinality(A \cup {t}) = IF t \in A THEN Cardinality(A) ELSE Cardinality(A) + 1
        BY <3>4, FS_AddElement, Zenon
      <4>4. IsFiniteSet(A \cup {t}) /\ Cardinality(A \cup {t}) <= Cardinality(A) + 1
        BY <3>4, <4>a
      <4>5. Cardinality(A \cup {t}) \in Nat
        BY <4>4, FS_CardinalityType
      <4>6. Cardinality(A') <= Cardinality(A \cup {t}) /\ IsFiniteSet(A')
        BY <4>2, <4>4, FS_Subset
      <4>7. Cardinality(A') \in Nat
        BY <4>6, FS_CardinalityType
      <4>8. Cardinality(B') = Cardinality(B) - 1
        BY <4>2, <4>3, Zenon
      <4> QED BY <3>4, <3>5, <4>4, <4>5, <4>6, <4>7, <4>8
    <3>7. CASE c # d
      <4>1. /\ Cardinality(A') <= Cardinality(A) /\ IsFiniteSet(A')
            /\ Cardinality(B') <= Cardinality(B) /\ IsFiniteSet(B')
        BY <3>1, <3>3, <3>4, <3>7, FS_Subset
      <4>2. Cardinality(A') \in Nat /\ Cardinality(B') \in Nat
        BY <4>1, FS_CardinalityType
      <4> HIDE DEF A, B
      <4> QED BY <3>4, <3>5, <4>1, <4>2
    <3> QED BY <3>6, <3>7
  <2> QED BY <1>1, <2>2, <2>3, <2>5 DEF PoolOK
<1> QED BY <1>6, <1>7 DEF IInv

-----------------------------------------------------------------------------
LEMMA InitHolds == Init => IInv
<1> SUFFICES ASSUME Init PROVE IInv
  OBVIOUS
<1>1. HeightOK
  BY DEF Init, HeightOK
<1>2. JobsOK
  BY DEF Init, JobsOK, JobOK
<1>3. CacheOK
  BY DEF Init, CacheOK
<1>4. PoolOK
  <2>1. IsFiniteSet(pending) /\ submission \in [Txn -> Client \cup {NoClient}]
    BY FS_EmptySet DEF Init
  <2>2. ASSUME NEW c PROVE Load(c) <= Cap + Cardinality(Worker) - 1
    <3>1. PendingOf(c) \ again = {} /\ Admitted(c) = {}
      BY DEF Init, PendingOf, Admitted, NoJob, Counted
    <3>2. Cardinality({}) = 0 /\ Cardinality(Worker) \in Nat /\ Cap \in Nat \ {0}
      BY FS_EmptySet, FS_CardinalityType, ApiAssumption
    <3>3. Load(c) = 0 + 0
      BY <3>1, <3>2, Zenon DEF Load
    <3> QED BY <3>2, <3>3
  <2> QED BY <2>1, <2>2 DEF PoolOK
<1> QED BY <1>1, <1>2, <1>3, <1>4 DEF IInv

LEMMA NextKeeps == IInv /\ [Next]_vars => IInv'
<1> SUFFICES ASSUME IInv, [Next]_vars PROVE IInv'
  OBVIOUS
<1>1. CASE UNCHANGED vars
  <2>1. \A h : Left(h)' = Left(h)
    BY <1>1 DEF vars, Left, Undone
  <2>2. ASSUME NEW j PROVE JobOK(j) => JobOK(j)'
    BY <1>1, <2>1 DEF vars, JobOK, ReadOK, Current, OnCourse, TipsFrom
  <2>3. JobsOK'
    BY <1>1, <2>2 DEF vars, IInv, JobsOK
  <2>4. ASSUME NEW tip, NEW ask, NEW value
        PROVE  EntryOK(tip, ask, value) => EntryOK(tip, ask, value)'
    BY <1>1, <2>1 DEF vars, EntryOK, Fresh, OnCourse, TipsFrom
  <2>5. CacheOK'
    BY <1>1, <2>4 DEF vars, IInv, CacheOK
  <2>6. HeightOK'
    BY <1>1 DEF vars, IInv, HeightOK
  <2>7. PoolOK'
    BY <1>1 DEF vars, IInv, PoolOK, Load, PendingOf, Admitted
  <2> QED BY <2>3, <2>5, <2>6, <2>7 DEF IInv
<1>2. ASSUME NEW b \in 1 .. 2, NEW live \in BOOLEAN, AddBlock(b, live) PROVE IInv'
  BY <1>2, AddBlockKeeps
<1>3. ASSUME NEW t \in Txn, Expire(t) PROVE IInv'
  BY <1>3, ExpireKeeps
<1>4. ASSUME NEW w \in Worker, NEW c \in Client, NEW t \in Txn, PostTxn(w, c, t) PROVE IInv'
  BY <1>4, PostTxnKeeps
<1>5. ASSUME NEW w \in Worker,
             CheckQuota(w) \/ CheckTxn(w) \/ AddTxn(w) \/ Record(w) \/ Die(w) \/ Send(w)
      PROVE  IInv'
  BY <1>5, CheckQuotaKeeps, CheckTxnKeeps, AddTxnKeeps, RecordKeeps, SendKeeps
<1>6. ASSUME NEW w \in Worker, NEW question \in Question, Read(w, question) PROVE IInv'
  BY <1>6, ReadKeeps
<1>7. ASSUME NEW w \in Worker,
             Lookup(w) \/ RouteOutflows(w) \/ RouteInflows(w) \/ Execute(w)
      PROVE  IInv'
  BY <1>7, LookupKeeps, RoutesKeep, ExecuteKeeps
<1>8. ASSUME NEW w \in Worker,
             FindAncestry(w) \/ Scan(w) \/ Locate(w) \/ Orphan(w) \/ Pool(w)
      PROVE  IInv'
  BY <1>8, FindAncestryKeeps, ScanKeeps, LocateKeeps, OrphanKeeps, PoolKeeps
<1> QED BY <1>1, <1>2, <1>3, <1>4, <1>5, <1>6, <1>7, <1>8 DEF Next

(* Reads, the cache and the pool of a node, whatever blocks arrive in between.       *)
THEOREM ApiIsInductive == Spec => []IInv
BY InitHolds, NextKeeps, PTL DEF Spec

(* A balance or a search that met no reorganisation is that of one canonical chain,   *)
(* though it takes several statements and may come from the cache (models.py:804-854).  *)
THEOREM AnswersAreOfAChain == Spec => []AnswerIsOfAChain
<1>1. IInv => AnswerIsOfAChain
  <2> SUFFICES ASSUME IInv, NEW w \in Worker, job[w].op = "answered", ~job[w].reorged,
                      job[w].ask \notin Txn
               PROVE  \E tip \in job[w].seen : job[w].got = {ChainOf(tip)}
    BY DEF AnswerIsOfAChain, Undisturbed
  <2>1. ReadOK(job[w])
    BY ReadOps DEF IInv, JobsOK
  <2> QED BY <2>1 DEF ReadOK, Answers
<1> QED BY <1>1, ApiIsInductive, PTL

(* What provenance calls canonical is in the chain of the tip it names, with the right   *)
(* height and confirmations (models.py:1254-1290).                                *)
THEOREM CanonicalAnswersHold == Spec => []CanonicalAnswerHolds
<1>1. IInv => CanonicalAnswerHolds
  <2> SUFFICES ASSUME IInv, NEW w \in Worker, job[w].op = "answered", ~job[w].reorged,
                      job[w].ask \in Txn
               PROVE  HoldsAt(job[w].tip, job[w].ask, job[w].got)
    BY DEF CanonicalAnswerHolds, Undisturbed, HoldsAt
  <2>1. ReadOK(job[w])
    BY ReadOps DEF IInv, JobsOK
  <2> QED BY <2>1 DEF ReadOK, Answers
<1> QED BY <1>1, ApiIsInductive, PTL

(* The quota, checked before the transaction is recorded (api.py:437-450), is         *)
(* overshot by fewer transactions than there are requests at a time.                *)
THEOREM QuotaIsKept == Spec => []QuotaHolds
<1>1. IInv => QuotaHolds
  <2> SUFFICES ASSUME IInv, NEW c \in Client, RoleOf(c) = Transactor
               PROVE  Cardinality(PendingOf(c) \ again) <= Cap + Cardinality(Worker) - 1
    BY DEF QuotaHolds
  <2>1. Load(c) <= Cap + Cardinality(Worker) - 1
    BY DEF IInv, PoolOK
  <2>2. /\ Cardinality(PendingOf(c) \ again) \in Nat /\ Cardinality(Admitted(c)) \in Nat
        /\ Cardinality(Worker) \in Nat /\ Cap \in Nat
    BY LoadIsFinite, ApiAssumption DEF IInv, PoolOK
  <2>3. Load(c) = Cardinality(PendingOf(c) \ again) + Cardinality(Admitted(c))
    BY DEF Load
  <2> QED BY <2>1, <2>2, <2>3
<1> QED BY <1>1, ApiIsInductive, PTL
=============================================================================
