-------------------------- MODULE MCOfflinePayments --------------------------
(* Small instances of OfflinePayments: which tasks overlap is the run's.    *)
EXTENDS OfflinePayments, TLC

Serial == {}
PayWithSettle == {{"pay", "settle"}}
SettleWithAny == {{"pay", "settle"}, {"sync", "settle"}}
PayWithSync == {{"pay", "sync"}}

Symmetry == Permutations(Pay)
=============================================================================
