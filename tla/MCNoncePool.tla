----------------------------- MODULE MCNoncePool -----------------------------
(* A small instance of NoncePool: three accounts, of which the pool may list *)
(* two, asked for under two keys, one of which is used for two requests.     *)
EXTENDS NoncePool, TLC

CONSTANTS a1, a2, a3, k1, k2

MCAsks ==
  {[key |-> k1, asked |-> {a1, a2}], [key |-> k1, asked |-> {a3}],
   [key |-> k2, asked |-> {a2, a3}]}

\* Requests differ in nothing.
Symmetry == Permutations(Req)
=============================================================================
