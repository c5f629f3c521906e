------------------------------ MODULE MCGossip ------------------------------
(* Instances of Gossip for TLC: a genesis with two competing children, on a line  *)
(* of three nodes and on a pair.                                               *)
EXTENDS Gossip, TLC

MCPrev == [b \in Block |->
    (("g" :> "none") @@ ("b1" :> "g") @@ ("c1" :> "g"))[b]]
MCIdx == [b \in Block |-> (("g" :> 0) @@ ("b1" :> 1) @@ ("c1" :> 1))[b]]
MCRank == [b \in Block |-> (("g" :> 0) @@ ("b1" :> 1) @@ ("c1" :> 2))[b]]

(* A line: the ends are not peers of each other. *)
MCLine == ("x" :> <<"y">>) @@ ("y" :> <<"x", "z">>) @@ ("z" :> <<"y">>)
(* Two nodes. *)
MCPair == ("x" :> <<"y">>) @@ ("y" :> <<"x">>)
=============================================================================
