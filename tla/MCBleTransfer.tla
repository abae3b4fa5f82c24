------------------------------ MODULE MCBleTransfer ------------------------------
(* An instance of BleTransfer for TLC: one phone sends two payments to the first   *)
(* of the receiving phone's two wallets, another phone sends one to the second.    *)
EXTENDS BleTransfer, TLC

CONSTANTS d1, d2, p1, p2, p3, w1, w2

MCFrom == p1 :> d1 @@ p2 :> d1 @@ p3 :> d2
MCTo == p1 :> w1 @@ p2 :> w1 @@ p3 :> w2

\* The two payments of the first phone differ in nothing.
Symmetry == Permutations({p1, p2})
==================================================================================
