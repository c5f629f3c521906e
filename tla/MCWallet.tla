------------------------------ MODULE MCWallet ------------------------------
(* An instance of Wallet for TLC: an address whose grains are scattered over    *)
(* three coins, and one with a single coin and less to ask.                    *)
EXTENDS Wallet, TLC

MCAsks == ("a" :> {AskTransfer(1, "b"), AskTransfer(3, "b"), AskSupport(2, "s"),
                   AskRescind(1, "s", "support")})
          @@ ("b" :> {AskTransfer(1, "a"), AskOpposition(1, "s"), AskSplit(1, 1), AskSplit(1, 2)})

MCGenesis ==
    [by |-> "none", ins |-> {},
     outs |-> <<Pay("a", 1), Pay("a", 1), Pay("a", 1), Pay("b", 3)>>]
=============================================================================
