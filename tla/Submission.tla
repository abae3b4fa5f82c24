------------------------------ MODULE Submission ------------------------------
(***************************************************************************)
(* What the worker promises of the transactions it submits for a user      *)
(* (executeRecurringOrder and executeSwapQuoteDetailed in workers/api/src/ *)
(* lib/jupiter.ts), however often a call is retried and whatever is lost   *)
(* or killed on the way: an operation is submitted at most once, only      *)
(* after the user asked for it, and never after the user was told that it  *)
(* expired; and what the user is told of it is true and is not taken back. *)
(***************************************************************************)
CONSTANTS
  Op,        \* what a user can ask for once: a key of an order, a quote
  Broadcast  \* those reported as done once their transaction was broadcast

VARIABLES
  asked,  \* operations the user asked for
  fate,   \* operation -> what became of its transaction
  told    \* operation -> the answers given of it, or kept to be given again

vars == <<asked, fate, told>>

Init ==
  /\ asked = {}
  /\ fate = [o \in Op |-> "unsent"]
  /\ told = [o \in Op |-> {}]

Ask(o) ==
  /\ asked' = asked \cup {o}
  /\ UNCHANGED <<fate, told>>

Submit(o) ==
  /\ o \in asked /\ fate[o] = "unsent" /\ "expired" \notin told[o]
  /\ fate' = [fate EXCEPT ![o] = "sent"]
  /\ UNCHANGED <<asked, told>>

\* The transaction lands, or it fails or is dropped.
Settle(o) ==
  /\ fate[o] = "sent"
  /\ \E end \in {"landed", "dead"} : fate' = [fate EXCEPT ![o] = end]
  /\ UNCHANGED <<asked, told>>

TellDone(o) ==
  /\ fate[o] = "landed" \/ (o \in Broadcast /\ fate[o] # "unsent")
  /\ told' = [told EXCEPT ![o] = @ \cup {"done"}]
  /\ UNCHANGED <<asked, fate>>

TellExpired(o) ==
  /\ fate[o] = "unsent"
  /\ told' = [told EXCEPT ![o] = @ \cup {"expired"}]
  /\ UNCHANGED <<asked, fate>>

Next ==
  \E o \in Op : Ask(o) \/ Submit(o) \/ Settle(o) \/ TellDone(o) \/ TellExpired(o)

Spec == Init /\ [][Next]_vars
=============================================================================
