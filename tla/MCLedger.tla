------------------------------ MODULE MCLedger ------------------------------
(* An instance of Ledger for TLC: the subjects are interchangeable.          *)
EXTENDS Ledger

Sym == Permutations(Subject)
=============================================================================
