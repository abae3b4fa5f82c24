----------------------------- MODULE AccountPool -----------------------------
(***************************************************************************)
(* What the worker promises of a wallet's pool of nonce accounts           *)
(* (workers/api/src/lib/offline.ts), with no request, lock or record in    *)
(* sight: accounts join the pool only while all of it, not only what the   *)
(* request has read of it, fits the maximum; they may be pruned at any     *)
(* time; what is answered under an idempotency key is one answer only, as  *)
(* long as the key is kept; and its creations are of accounts that were    *)
(* asked for and had been listed, so that rent is paid for no other.       *)
(***************************************************************************)
EXTENDS Naturals, FiniteSets

CONSTANTS
  Account,
  Key,      \* idempotency keys
  Max       \* what the pool may list

VARIABLES
  pool,     \* the accounts listed
  listed,   \* those that have ever been
  answers   \* key -> what was answered under it

vars == <<pool, listed, answers>>

Answer == [asked : SUBSET Account, txs : SUBSET Account]

Init == pool = {} /\ listed = {} /\ answers = [k \in Key |-> {}]

Join ==
  \E new \in SUBSET Account :
    /\ Cardinality(pool \cup new) <= Max
    /\ pool' = pool \cup new
    /\ listed' = listed \cup new
    /\ UNCHANGED answers

\* What reads as missing on chain, rightly or not, is taken out.
Prune ==
  /\ pool' \subseteq pool
  /\ UNCHANGED <<listed, answers>>

Reply(k) ==
  \E a \in Answer :
    /\ a.txs \subseteq a.asked /\ a.asked \subseteq listed
    /\ answers[k] \subseteq {a}
    /\ answers' = [answers EXCEPT ![k] = {a}]
    /\ UNCHANGED <<pool, listed>>

Forget(k) ==
  /\ answers' = [answers EXCEPT ![k] = {}]
  /\ UNCHANGED <<pool, listed>>

Next == Join \/ Prune \/ \E k \in Key : Reply(k) \/ Forget(k)

Spec == Init /\ [][Next]_vars
=============================================================================
