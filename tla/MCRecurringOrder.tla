--------------------------- MODULE MCRecurringOrder ---------------------------
(* Small instances of RecurringOrder, in which drafts and requests are       *)
(* interchangeable.                                                          *)
EXTENDS RecurringOrder, TLC

Symmetry == Permutations(Draft) \cup Permutations(Req)
=============================================================================
