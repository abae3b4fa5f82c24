----------------------------- MODULE PaymentBatch -----------------------------
(***************************************************************************)
(* What a batch send promises (store/payrollStore.ts and lib/payroll/      *)
(* payroll-executor.ts), whichever passes overlap, whatever stale rows are *)
(* written back and wherever the app is killed: a row is given to a route  *)
(* submitter at most once, and as it then says; it says so ever after; an  *)
(* outcome is recorded only of a row that was given, and is final; and the *)
(* run reports completion only when every row has one.                     *)
(***************************************************************************)
CONSTANTS
  Row,
  Payment,  \* what a row may say
  Outcome   \* how a submission may end

VARIABLES
  says,     \* row -> the payment it asks for
  given,    \* row -> what was given to the submitter of its route
  outcome,  \* row -> the outcome recorded of it
  complete  \* whether the run reports that it is complete

vars == <<says, given, outcome, complete>>

None == "none"

Init ==
  /\ says \in [Row -> Payment]
  /\ given = [r \in Row |-> <<>>]
  /\ outcome = [r \in Row |-> None]
  /\ complete = FALSE

\* Rows that were not given are edited, or read stale and written back.
Reword ==
  /\ says' \in [Row -> Payment]
  /\ \A r \in Row : given[r] # <<>> => says'[r] = says[r]
  /\ UNCHANGED <<given, outcome, complete>>

Give(r) ==
  /\ ~complete /\ given[r] = <<>>
  /\ given' = [given EXCEPT ![r] = <<says[r]>>]
  /\ UNCHANGED <<says, outcome, complete>>

Record(r) ==
  /\ given[r] # <<>> /\ outcome[r] = None
  /\ \E o \in Outcome : outcome' = [outcome EXCEPT ![r] = o]
  /\ UNCHANGED <<says, given, complete>>

Complete ==
  /\ \A r \in Row : outcome[r] # None
  /\ complete' = TRUE
  /\ UNCHANGED <<says, given, outcome>>

\* A late pass writes another status over it, or the run is deleted.
Reopen ==
  /\ complete' = FALSE
  /\ UNCHANGED <<says, given, outcome>>

Next == Reword \/ Complete \/ Reopen \/ \E r \in Row : Give(r) \/ Record(r)

Spec == Init /\ [][Next]_vars
=============================================================================
