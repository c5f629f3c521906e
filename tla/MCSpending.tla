----------------------------- MODULE MCSpending -----------------------------
(***************************************************************************)
(* An instance of Spending for TLC.                                         *)
(*                                                                         *)
(*       g --- a1 --- d2       a1 and b1 hold the same transaction, which    *)
(*       |\                    takes o and makes p; a1 also makes q          *)
(*       | \                                                                 *)
(*       |  -- b1 --- b2       b2: takes p (sound, spent on no other fork)  *)
(*       |      \---- m2       d2: takes o again; m2: takes q of the other   *)
(*       |                     fork                                          *)
(*       |---- e1              e1: takes o and the p it makes itself         *)
(*        ---- c1              c1: takes nothing, and wins over a1 and b1     *)
(***************************************************************************)
EXTENDS Spending, TLC

MCAnc ==
    LET anc == ("g" :> <<"g">>)
               @@ ("a1" :> <<"g", "a1">>) @@ ("b1" :> <<"g", "b1">>) @@ ("e1" :> <<"g", "e1">>)
               @@ ("c1" :> <<"g", "c1">>)
               @@ ("d2" :> <<"g", "a1", "d2">>)
               @@ ("b2" :> <<"g", "b1", "b2">>) @@ ("m2" :> <<"g", "b1", "m2">>)
    IN  [b \in Block |-> anc[b]]

MCRank ==
    LET rank == ("g" :> 0) @@ ("c1" :> 1) @@ ("b1" :> 2) @@ ("a1" :> 3) @@ ("e1" :> 4)
                @@ ("b2" :> 5) @@ ("m2" :> 6) @@ ("d2" :> 8)
    IN  [b \in Block |-> rank[b]]

MCMakes ==
    LET makes == ("g" :> {"o"}) @@ ("a1" :> {"p", "q"}) @@ ("b1" :> {"p"}) @@ ("e1" :> {"p"})
    IN  [b \in Block |-> IF b \in DOMAIN makes THEN makes[b] ELSE {}]

MCTakes ==
    LET takes == ("a1" :> <<"o">>) @@ ("b1" :> <<"o">>) @@ ("e1" :> <<"o", "p">>)
                 @@ ("b2" :> <<"p">>)
                 @@ ("d2" :> <<"o">>) @@ ("m2" :> <<"q">>)
    IN  [b \in Block |-> IF b \in DOMAIN takes THEN takes[b] ELSE <<>>]

Sym == Permutations(Worker)
=============================================================================
