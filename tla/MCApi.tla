-------------------------------- MODULE MCApi --------------------------------
EXTENDS Api
CONSTANTS t1, t2, t3

(* Both branches have t1, at different heights; t2 and t3 stay in the pool.       *)
AtDef == [t \in {t1, t2, t3} |-> IF t = t1 THEN <<2, 1>> ELSE <<0, 0>>]
HeightDef == <<3, 2>>
Ask == {"balance", "search", t1}

(* Anyone may post, m without a quota.                                         *)
Roles == <<{"*"}, {"*"}, {"m"}, {}>>

(* Bound: the three transactions are posted at most one block high; of the pool,  *)
(* reads meet t1 alone, posted by m before the first of them.                    *)
Reads == {w \in Worker : job[w].op \notin Posting \cup {"idle"}}
Charged == {t \in Txn : submission[t] # NoClient}
Small ==
    \/ Reads = {} /\ cache = {} /\ height[1] + height[2] <= 1
    \/ /\ \A w \in Worker : job[w].op \notin Posting
       /\ pending \subseteq {t1} /\ Charged = {t1} /\ again = {} /\ submission[t1] = "m"
Symmetry == Permutations(Worker) \cup Permutations({t2, t3})
=============================================================================
