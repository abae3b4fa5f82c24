--------------------------- MODULE PaymentLedger ---------------------------
(***************************************************************************)
(* What offline payments promise, with no device, worker or network in     *)
(* sight.  A payment is issued by signing it over one value of one nonce   *)
(* account.  The chain executes at most one payment per nonce value,       *)
(* because executing it, with success or with an error, advances the       *)
(* account.  A device that issued a payment keeps it until the payment has *)
(* landed.                                                                 *)
(***************************************************************************)
EXTENDS Naturals

CONSTANTS Pay,     \* the payments, one per distinct signed transaction
          Slot,    \* the durable nonce accounts ("offline payment slots")
          NoSlot   \* no account: the payment is not signed yet

VARIABLES
  nonce,    \* current value of each nonce account on chain, from 1
  signed,   \* the account and the value each payment is signed over
  landed,   \* payments executed with success
  failed,   \* payments executed with an error: the value is consumed too
  tracked   \* payments the sender's device still holds in its queue

vars == <<nonce, signed, landed, failed, tracked>>

Unsigned == [slot |-> NoSlot, nonce |-> 0]

Decided == landed \cup failed

TypeOK ==
  /\ nonce \in [Slot -> Nat \ {0}]
  /\ signed \in [Pay -> [slot : Slot, nonce : Nat \ {0}] \cup {Unsigned}]
  /\ landed \subseteq Pay /\ failed \subseteq Pay
  /\ tracked \subseteq Pay

Init ==
  /\ nonce = [s \in Slot |-> 1]
  /\ signed = [p \in Pay |-> Unsigned]
  /\ landed = {} /\ failed = {} /\ tracked = {}

(***************************************************************************)
(* The device signs p over a value the account has or had, and keeps it.   *)
(* Signing the same payment over the same value again is the same          *)
(* transaction.                                                            *)
(***************************************************************************)
Issue(p) ==
  /\ \E s \in Slot : \E n \in 1..nonce[s] :
       /\ signed[p] \in {Unsigned, [slot |-> s, nonce |-> n]}
       /\ signed' = [signed EXCEPT ![p] = [slot |-> s, nonce |-> n]]
  /\ tracked' = tracked \cup {p}
  /\ UNCHANGED <<nonce, landed, failed>>

Executable(p) ==
  /\ signed[p] # Unsigned
  /\ p \notin Decided
  /\ signed[p].nonce = nonce[signed[p].slot]

Execute(p) ==
  /\ Executable(p)
  /\ nonce' = [nonce EXCEPT ![signed[p].slot] = @ + 1]
  /\ \/ landed' = landed \cup {p} /\ UNCHANGED failed
     \/ failed' = failed \cup {p} /\ UNCHANGED landed
  /\ UNCHANGED <<signed, tracked>>

Forget(p) ==
  /\ p \in landed
  /\ tracked' = tracked \ {p}
  /\ UNCHANGED <<nonce, signed, landed, failed>>

Next == \E p \in Pay : Issue(p) \/ Execute(p) \/ Forget(p)

Spec == Init /\ [][Next]_vars

(***************************************************************************)
(* Two payments the chain executed never share a nonce value, however many *)
(* were signed over it.                                                    *)
(***************************************************************************)
OnePaymentPerNonce ==
  \A p, q \in Decided : p # q => signed[p] # signed[q]

\* An issued payment the device no longer tracks has landed.
NothingForgotten ==
  \A p \in Pay : signed[p] # Unsigned /\ p \notin tracked => p \in landed
=============================================================================
