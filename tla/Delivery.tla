------------------------------ MODULE Delivery ------------------------------
(***************************************************************************)
(* What a delivery over Bluetooth promises, whichever chunks mix and       *)
(* whatever is cut, restarted or killed on the way: a payment arrives with *)
(* the last write of its sender or not at all, and as it was sent; it is   *)
(* queued after it arrived, for the wallet it pays and no other; and it is *)
(* shown as received after it was queued.                                  *)
(***************************************************************************)
CONSTANTS
  Payment,
  To,       \* payment -> the wallet it pays
  Content   \* payment -> what is sent of it

VARIABLES
  written,   \* payments of which everything was written
  arrived,   \* what was handed to the receive screen
  queued,    \* the receiving phone's items
  received   \* payments shown as received

vars == <<written, arrived, queued, received>>

Item(p) == [payment |-> p, wallet |-> To[p]]

Init == written = {} /\ arrived = {} /\ queued = {} /\ received = {}

Write(p) ==
  /\ p \notin written
  /\ written' = written \cup {p}
  /\ arrived' \in {arrived, arrived \cup {Content[p]}}
  /\ UNCHANGED <<queued, received>>

Queue(p) ==
  /\ Content[p] \in arrived
  /\ queued' = queued \cup {Item(p)}
  /\ UNCHANGED <<written, arrived, received>>

Receive(p) ==
  /\ Item(p) \in queued
  /\ received' = received \cup {p}
  /\ UNCHANGED <<written, arrived, queued>>

Next == \E p \in Payment : Write(p) \/ Queue(p) \/ Receive(p)

Spec == Init /\ [][Next]_vars
=============================================================================
