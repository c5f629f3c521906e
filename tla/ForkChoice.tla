----------------------------- MODULE ForkChoice -----------------------------
(***************************************************************************)
(* What a node promises about its canonical chain, however it stores it:    *)
(* at any time it is one chain of linked blocks from a genesis, and it is   *)
(* only ever replaced, in one step, by a chain whose tip is strictly better *)
(* (ChainDAO.longest: more blocks, then an older tip, then a lesser hash).  *)
(***************************************************************************)
EXTENDS Integers, Sequences

CONSTANTS Block, NoBlock, Prev, Idx, Time, HashRank

VARIABLE canon              \* the canonical chain, genesis first

IsChain(s) ==
    /\ s \in Seq(Block)
    /\ Len(s) > 0 => Prev[s[1]] = NoBlock
    /\ \A i \in 1 .. Len(s) : Idx[s[i]] = i - 1
    /\ \A i \in 1 .. Len(s) - 1 : Prev[s[i + 1]] = s[i]

Preferred(a, b) ==
    \/ Idx[a] > Idx[b]
    \/ Idx[a] = Idx[b] /\ Time[a] < Time[b]
    \/ Idx[a] = Idx[b] /\ Time[a] = Time[b] /\ HashRank[a] < HashRank[b]

Init == canon = <<>>

(* The chain grows by a block or more, or a better fork displaces it.        *)
Adopt ==
    /\ IsChain(canon')
    /\ canon' # <<>>
    /\ canon # <<>> => Preferred(canon'[Len(canon')], canon[Len(canon)])

Spec == Init /\ [][Adopt]_canon
=============================================================================
