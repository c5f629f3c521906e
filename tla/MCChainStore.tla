---------------------------- MODULE MCChainStore ----------------------------
(***************************************************************************)
(* Instances of ChainStore for TLC.  The block tree:                        *)
(*                                                                         *)
(*       g --- a1 --- a2            h: a second genesis                     *)
(*        \                         x: child of g whose idx is 2, not 1     *)
(*         --- b1 --- b2 --- b3                                             *)
(*                                                                         *)
(* b1 is older than a1 (it displaces a1 at the same height); a2 and b2 have *)
(* the same timestamp and differ only in their hash.                        *)
(***************************************************************************)
EXTENDS ChainStore, TLC

MCPrev ==
    LET prev == ("g" :> NoBlock) @@ ("h" :> NoBlock) @@ ("x" :> "g")
                @@ ("a1" :> "g") @@ ("a2" :> "a1")
                @@ ("b1" :> "g") @@ ("b2" :> "b1") @@ ("b3" :> "b2")
    IN  [b \in Block |-> prev[b]]

MCIdx ==
    LET idx == ("g" :> 0) @@ ("h" :> 0) @@ ("x" :> 2)
               @@ ("a1" :> 1) @@ ("a2" :> 2)
               @@ ("b1" :> 1) @@ ("b2" :> 2) @@ ("b3" :> 3)
    IN  [b \in Block |-> idx[b]]

MCTime ==
    LET time == ("g" :> 0) @@ ("h" :> 1) @@ ("x" :> 1)
                @@ ("a1" :> 2) @@ ("a2" :> 3)
                @@ ("b1" :> 1) @@ ("b2" :> 3) @@ ("b3" :> 4)
    IN  [b \in Block |-> time[b]]

MCHashRank ==
    LET rank == ("g" :> 1) @@ ("h" :> 2) @@ ("x" :> 3)
                @@ ("a1" :> 4) @@ ("a2" :> 5)
                @@ ("b1" :> 6) @@ ("b2" :> 7) @@ ("b3" :> 8)
    IN  [b \in Block |-> rank[b]]

Sym == Permutations(Worker)
=============================================================================
