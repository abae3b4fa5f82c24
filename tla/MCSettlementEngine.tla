-------------------------- MODULE MCSettlementEngine --------------------------
(***************************************************************************)
(* Instances of SettlementEngine for TLC.                                  *)
(***************************************************************************)
EXTENDS SettlementEngine, TLC

\* Wallets and items are interchangeable in the safety runs.
Symmetry == Permutations(Wallet) \cup Permutations(Item)
=============================================================================
