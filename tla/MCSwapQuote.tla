------------------------------ MODULE MCSwapQuote ------------------------------
(* Small instances of SwapQuote, in which the requests, the quotes of Jupiter  *)
(* and those of the fallback are interchangeable.                              *)
EXTENDS SwapQuote, TLC

Symmetry == Permutations(Req) \cup Permutations(Metis) \cup Permutations(Quote \ Metis)
=============================================================================
