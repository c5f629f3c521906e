----------------------------- MODULE MCMempool ------------------------------
(* An instance of Mempool for TLC: two transactions that spend the same outflow  *)
(* of the genesis, one of them twice, and one that spends what the first makes.  *)
EXTENDS Mempool, TLC

MCMaker == ("o1" :> "none") @@ ("p1" :> "t1")
MCInflows ==
    LET inflows == ("t1" :> <<"o1">>) @@ ("t2" :> <<"o1", "o1">>) @@ ("t3" :> <<"p1">>)
    IN  [t \in Txn |-> inflows[t]]
MCStamp ==
    LET stamp == ("t1" :> 0) @@ ("t2" :> 0) @@ ("t3" :> 1)
    IN  [t \in Txn |-> stamp[t]]
MCInOrder == SelectSeq(<<"t1", "t2", "t3">>, LAMBDA t : t \in Txn)

(* One block on the first branch, two on the one that displaces it. *)
MCMaxHeight == <<1, 2>>

Sym == Permutations(Worker)
=============================================================================
