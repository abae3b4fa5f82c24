------------------------- MODULE MCSlotProvisioning -------------------------
(* Small instances of SlotProvisioning: which tasks overlap is the run's.   *)
EXTENDS SlotProvisioning, TLC

Serial == {}
PollWithPrepare == {{"poll", "prepare"}}

Symmetry == Permutations(Account)
=============================================================================
