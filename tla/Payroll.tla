------------------------------- MODULE Payroll -------------------------------
(***************************************************************************)
(* One batch send ("run"): its rows in the persisted store                 *)
(* (store/payrollStore.ts), the sequential executor                        *)
(* (lib/payroll/payroll-executor.ts) as hooks/payroll/usePayrollRun.ts     *)
(* drives it, the route computations of usePayrollChatIntake.ts and the    *)
(* edits of the review screen.                                             *)
(*                                                                         *)
(* Every store operation is synchronous and persisted when it returns, so  *)
(* a step here is the code from one await to the next. Two things suspend: *)
(* a pass of the executor, while it submits a row and while it yields to   *)
(* the UI, and a computation of the routes, which writes back the rows it  *)
(* read before it was suspended. A pass outlives the card that started it: *)
(* when the chat screen is left by the app lock and comes back, the pass   *)
(* is told to stop but its submission goes on, next to the new card's.     *)
(***************************************************************************)
EXTENDS Naturals, Sequences

CONSTANTS
  Count,      \* the number of rows
  Content,    \* what a valid row may say: recipient, amount and mint
  Malformed,  \* what a row says that validation rejects
  Pass,       \* passes of the executor in flight at a time (a bound)
  NoPass,
  Routing,    \* computations of the routes in flight at a time (a bound)
  NoRouting,
  Outcomes    \* the successful outcomes of a submission

Rows == 1..Count
Settled == {"submitted", "queued", "deposited_unclaimed"}

ASSUME PayrollAssumption ==
  /\ Count \in Nat
  /\ Malformed \notin Content
  /\ NoPass \notin Pass /\ NoRouting \notin Routing
  /\ Outcomes \subseteq Settled

VARIABLES
  \* --- persisted
  status,    \* PayrollRun.status, or "deleted"
  cursor,    \* PayrollRun.cursor, counted from 1
  dirty,     \* PayrollRun.routesDirty
  row,       \* row -> PayrollRow
  \* --- in memory
  pass,      \* pass of the executor -> where it is suspended
  routing,   \* computation of the routes -> the rows it read
  card,      \* the PayrollChatController on screen: its pass and its refresh
  active,    \* whether the intake still holds the run (activeRunId)
  \* --- history
  sent,      \* row -> what was given to the route submitter, in order
  excluded   \* rows the user's last word on which was "skip"

store == <<status, cursor, dirty, row>>
vars == <<store, pass, routing, card, active, sent, excluded>>

Statuses ==
  {"ready", "running", "paused", "completed", "completed_with_claims_pending",
   "completed_with_errors", "cancelled", "deleted"}

\* routed: route # null; tomb: submissionAttemptId is set; rec:
\* reconciliationRequired; sig: a signature, a tx id or an init signature.
Row ==
  [status : {"ready", "invalid", "skipped", "sending", "failed"} \cup Settled,
   routed : BOOLEAN,
   content : Content \cup {Malformed}, key : Content \cup {Malformed},
   tomb : BOOLEAN, rec : BOOLEAN, sig : BOOLEAN]

\* What the executor uses of a row of its snapshot.
Job == [go : BOOLEAN, key : Content \cup {Malformed}, content : Content \cup {Malformed}]
NoPlan == [r \in Rows |-> [go |-> FALSE, key |-> Malformed, content |-> Malformed]]
IdlePass == [pc |-> "idle", at |-> 1, plan |-> NoPlan, stopped |-> FALSE, cancel |-> FALSE]

\* A row as validation builds it.
Fresh(st, content, routed) ==
  [status |-> st, routed |-> routed, content |-> content, key |-> content,
   tomb |-> FALSE, rec |-> FALSE, sig |-> FALSE]

NoRows == [r \in Rows |-> Fresh("invalid", Malformed, FALSE)]
IdleRouting == [busy |-> FALSE, rows |-> NoRows]

(***************************************************************************)
(* Every row and every suspended pass keeps its shape, and the cursor      *)
(* names a row or the end.                                                 *)
(***************************************************************************)
TypeOK ==
  /\ status \in Statuses /\ cursor \in 1..(Count + 1) /\ dirty \in BOOLEAN
  /\ row \in [Rows -> Row]
  /\ pass \in [Pass -> [pc : {"idle", "sending", "yielding"}, at : 1..(Count + 1),
                        plan : [Rows -> Job], stopped : BOOLEAN, cancel : BOOLEAN]]
  /\ routing \in [Routing -> [busy : BOOLEAN, rows : [Rows -> Row]]]
  /\ card \in [pass : Pass \cup {NoPass}, refresh : Routing \cup {NoRouting}]
  /\ active \in BOOLEAN
  /\ sent \in [Rows -> Seq(Content \cup {Malformed})]
  /\ excluded \subseteq Rows

(***************************************************************************)
(* isPayrollRowSendable, and what may be left of a run an older build      *)
(* persisted: rows without a tombstone, interrupted or failed.             *)
(***************************************************************************)
Evidence(r) == r.sig \/ r.tomb \/ r.rec
Sendable(r) == ~Evidence(r) /\ r.status \in {"ready", "failed"}

\* createRun and replaceRows when a file has been staged and routed.
Staged ==
  /\ status = "ready" /\ dirty = TRUE /\ active = TRUE
  /\ \E c \in Content, bad \in SUBSET Rows, blocked \in SUBSET Rows :
       row = [r \in Rows |->
                IF r \in bad THEN Fresh("invalid", Malformed, FALSE)
                ELSE IF r \in blocked THEN Fresh("invalid", c, FALSE)
                ELSE Fresh("ready", c, TRUE)]

Inherited ==
  /\ status \in {"paused", "completed_with_errors"} /\ dirty = FALSE /\ active = FALSE
  /\ \E c \in Content, st \in [Rows -> {"ready", "sending", "failed"}] :
       row = [r \in Rows |-> Fresh(st[r], c, TRUE)]

Init ==
  /\ Staged \/ Inherited
  /\ cursor = 1
  /\ pass = [p \in Pass |-> IdlePass]
  /\ routing = [q \in Routing |-> IdleRouting]
  /\ card = [pass |-> NoPass, refresh |-> NoRouting]
  /\ sent = [r \in Rows |-> <<>>]
  /\ excluded = {}

Exists == status # "deleted"
Executing == card.pass # NoPass
IsRunning == status = "running" \/ Executing
-----------------------------------------------------------------------------
(***************************************************************************)
(* The store.                                                              *)
(***************************************************************************)
\* Mutant: the replacement decides whether the row is for reconciliation.
PreservedWithoutDoubt(old, new) ==
  IF ~Evidence(old) THEN new
  ELSE [new EXCEPT !.status = old.status, !.key = old.key, !.tomb = old.tomb \/ @,
                   !.sig = old.sig \/ @]

\* Mutant: the replacement decides the status.
PreservedWithoutStatus(old, new) ==
  IF ~Evidence(old) THEN new
  ELSE [new EXCEPT !.key = old.key, !.tomb = old.tomb \/ @,
                   !.rec = old.rec \/ @, !.sig = old.sig \/ @]

\* preserveDurablePaymentEvidence
Preserved(old, new) ==
  IF ~Evidence(old) THEN new
  ELSE [new EXCEPT !.status = old.status, !.key = old.key, !.tomb = old.tomb \/ @,
                   !.rec = old.rec \/ @, !.sig = old.sig \/ @]

Replaced(rows) == [r \in Rows |-> Preserved(row[r], rows[r])]

\* Mutant: an interrupted row is simply sent again.
ReconciledToReady(r) ==
  IF r.status = "sending" /\ ~r.sig THEN [r EXCEPT !.status = "ready", !.tomb = FALSE] ELSE r

\* reconcileSendingRow
Reconciled(r) ==
  IF r.status = "sending" /\ ~r.sig
  THEN [r EXCEPT !.status = "failed", !.tomb = TRUE, !.rec = TRUE] ELSE r

ReconciledRows == [r \in Rows |-> Reconciled(row[r])]

\* claimRowSubmission: whether the row may be claimed, and the claimed row.
Claimable(r, job) ==
  Exists /\ r.routed /\ r.status = "ready" /\ Sendable(r) /\ job.key = r.key

Claimed(r) == [r EXCEPT !.status = "sending", !.tomb = TRUE, !.rec = FALSE]

\* updateRow, which never lowers reconciliationRequired.
Updated(r, st, rec, sig) ==
  [r EXCEPT !.status = st, !.rec = @ \/ rec, !.sig = @ \/ sig]

\* Mutant: a row under way does not count as pending.
CompletedStatusOverSending(rows) ==
  LET now(st) == \E r \in Rows : rows[r].status = st
  IN  IF \E r \in Rows : rows[r].status = "ready" /\ Sendable(rows[r])
      THEN "paused"
      ELSE IF now("failed") \/ now("invalid") \/ now("skipped")
      THEN "completed_with_errors"
      ELSE IF now("deposited_unclaimed") THEN "completed_with_claims_pending"
      ELSE "completed"

\* resolveCompletedRunStatus
CompletedStatus(rows) ==
  LET now(st) == \E r \in Rows : rows[r].status = st
  IN  IF now("sending") \/ \E r \in Rows : rows[r].status = "ready" /\ Sendable(rows[r])
      THEN "paused"
      ELSE IF now("failed") \/ now("invalid") \/ now("skipped")
      THEN "completed_with_errors"
      ELSE IF now("deposited_unclaimed") THEN "completed_with_claims_pending"
      ELSE "completed"
-----------------------------------------------------------------------------
(***************************************************************************)
(* The executor.                                                           *)
(***************************************************************************)
Plan(rows) ==
  [r \in Rows |->
     [go |-> rows[r].routed /\ rows[r].status = "ready" /\ Sendable(rows[r]),
      key |-> rows[r].key, content |-> rows[r].content]]

Ahead(rows, plan, from) ==
  {r \in Rows : r >= from /\ plan[r].go /\ Claimable(rows[r], plan[r])}

\* The rows the pass does not send only advance the cursor; the next one it
\* can claim is marked before its submission begins.
SubmitNext(p, rows, plan, from) ==
  \E r \in Ahead(rows, plan, from) :
    /\ \A q \in Ahead(rows, plan, from) : r <= q
    /\ row' = [rows EXCEPT ![r] = Claimed(@)]
    /\ sent' = [sent EXCEPT ![r] = Append(@, plan[r].content)]
    /\ cursor' = IF r > from THEN r ELSE cursor
    /\ pass' = [pass EXCEPT ![p].pc = "sending", ![p].at = r, ![p].plan = plan]

\* The end of a pass: usePayrollRun writes the run's status.
EndPass(p, st) ==
  /\ status' = IF Exists THEN st ELSE status
  /\ pass' = [pass EXCEPT ![p] = IdlePass]
  /\ card' = IF card.pass = p THEN [card EXCEPT !.pass = NoPass] ELSE card

NothingLeft(p, rows, plan, from) ==
  /\ Ahead(rows, plan, from) = {}
  /\ row' = rows
  /\ cursor' = IF Exists /\ from <= Count THEN Count + 1 ELSE cursor
  /\ EndPass(p, CompletedStatus(rows))
  /\ UNCHANGED sent

\* runExecution, up to its first submission.
Execute(p, rows, from) ==
  /\ pass[p] = IdlePass
  /\ \/ /\ SubmitNext(p, rows, Plan(rows), from)
        /\ status' = "running"
        /\ card' = [card EXCEPT !.pass = p]
     \/ NothingLeft(p, rows, Plan(rows), from)
  /\ UNCHANGED <<dirty, routing, active, excluded>>

\* "Confirm" or "Resume".
Start(p) ==
  /\ ~IsRunning
  /\ status = "paused" \/ (status = "ready" /\ ~dirty)
  /\ Execute(p, ReconciledRows, cursor)

\* prepareRetryFailedRows
FailedBefore == {r \in Rows : row[r].status = "failed" /\ Sendable(row[r])}
RetryRows ==
  [r \in Rows |-> IF r \in FailedBefore THEN [row[r] EXCEPT !.status = "ready"] ELSE row[r]]

\* "Retry failed", from the first row left to send.
Retry(p) ==
  /\ ~IsRunning /\ status = "completed_with_errors"
  /\ FailedBefore # {}
  /\ \E first \in Rows :
       /\ Sendable(RetryRows[first])
       /\ \A r \in Rows : Sendable(RetryRows[r]) => first <= r
       /\ Execute(p, [r \in Rows |-> Reconciled(RetryRows[r])], first)

\* Mutant: the cursor is moved past the next row as well.
RecordAndSkip(p, st, rec, sig) ==
  /\ row' = IF Exists THEN [row EXCEPT ![pass[p].at] = Updated(@, st, rec, sig)] ELSE row
  /\ cursor' = IF Exists THEN pass[p].at + 2 ELSE cursor

\* After each submission: the row's new status, the cursor, a yield.
Record(p, st, rec, sig) ==
  /\ row' = IF Exists THEN [row EXCEPT ![pass[p].at] = Updated(@, st, rec, sig)] ELSE row
  /\ cursor' = IF Exists THEN pass[p].at + 1 ELSE cursor

Yield(p) ==
  /\ pass' = [pass EXCEPT ![p].pc = "yielding", ![p].at = @ + 1]
  /\ UNCHANGED <<status, card>>

Interrupted(p) == IF pass[p].cancel THEN "cancelled" ELSE "paused"

Submitted(p) ==
  /\ pass[p].pc = "sending"
  /\ \E outcome \in Outcomes : Record(p, outcome, FALSE, TRUE)
  /\ Yield(p)
  /\ UNCHANGED <<dirty, routing, active, sent, excluded>>

\* The submitter threw: whether the payment was made is unknown.
Failed(p) ==
  /\ pass[p].pc = "sending"
  /\ Record(p, "failed", TRUE, FALSE)
  /\ Yield(p)
  /\ UNCHANGED <<dirty, routing, active, sent, excluded>>

\* The same with an abort error, which ends the pass.
Aborted(p) ==
  /\ pass[p].pc = "sending"
  /\ Record(p, "failed", TRUE, FALSE)
  /\ EndPass(p, Interrupted(p))
  /\ UNCHANGED <<dirty, routing, active, sent, excluded>>

\* The loop goes on after a yield; past the last row nobody looks at "stopped".
Continue(p) ==
  /\ pass[p].pc = "yielding"
  /\ LET from == pass[p].at
         plan == pass[p].plan
     IN  IF from <= Count /\ pass[p].stopped
         THEN /\ EndPass(p, Interrupted(p))
              /\ UNCHANGED <<cursor, row, sent>>
         ELSE \/ SubmitNext(p, row, plan, from) /\ UNCHANGED <<status, card>>
              \/ NothingLeft(p, row, plan, from)
  /\ UNCHANGED <<dirty, routing, active, excluded>>
-----------------------------------------------------------------------------
(***************************************************************************)
(* The card.                                                               *)
(***************************************************************************)
Stopped(cancel) ==
  pass' = IF Executing
          THEN [pass EXCEPT ![card.pass].stopped = TRUE, ![card.pass].cancel = cancel]
          ELSE pass

Pause ==
  /\ Executing
  /\ Stopped(FALSE)
  /\ UNCHANGED <<store, routing, card, active, sent, excluded>>

\* Without a pass of its own the card writes the status itself.
Cancel ==
  /\ IsRunning
  /\ Stopped(TRUE)
  /\ status' = IF Executing THEN status ELSE "cancelled"
  /\ UNCHANGED <<cursor, dirty, row, routing, card, active, sent, excluded>>

CancelBeforeStart ==
  /\ status = "ready"
  /\ status' = "cancelled"
  /\ UNCHANGED <<cursor, dirty, row, pass, routing, card, active, sent, excluded>>

\* An unmounted card aborts its pass, which keeps the card's cancel intent.
Unmount ==
  /\ pass' = IF Executing THEN [pass EXCEPT ![card.pass].stopped = TRUE] ELSE pass
  /\ card' = [pass |-> NoPass, refresh |-> NoRouting]

\* The card moves to another message, or another chat is opened.
RemountCard ==
  /\ Unmount
  /\ UNCHANGED <<store, routing, active, sent, excluded>>

\* Mutant: the rows are reconciled, the run is not demoted.
RecoverRows ==
  IF status = "running" THEN row' = ReconciledRows /\ UNCHANGED status
  ELSE UNCHANGED <<status, row>>

\* reconcileOrphanedRunsOnLaunch, run whenever the chat screen is mounted.
Recover ==
  IF status = "running"
  THEN status' = "paused" /\ row' = ReconciledRows
  ELSE UNCHANGED <<status, row>>

\* The app lock replaced the screen, and it is back.
RemountScreen ==
  /\ Unmount
  /\ Recover
  /\ active' = FALSE
  /\ UNCHANGED <<cursor, dirty, routing, sent, excluded>>

\* The app is killed and the chat is opened again.
Relaunch ==
  /\ Recover
  /\ pass' = [p \in Pass |-> IdlePass]
  /\ routing' = [q \in Routing |-> IdleRouting]
  /\ card' = [pass |-> NoPass, refresh |-> NoRouting]
  /\ active' = FALSE
  /\ UNCHANGED <<cursor, dirty, sent, excluded>>

\* The conversation is deleted, or the run pruned as the oldest of 25.
DeleteRun ==
  /\ Exists
  /\ Unmount
  /\ status' = "deleted" /\ active' = FALSE
  /\ UNCHANGED <<cursor, dirty, row, routing, sent, excluded>>
-----------------------------------------------------------------------------
(***************************************************************************)
(* Routes and edits.                                                       *)
(***************************************************************************)
\* restoreRouteBlockedRows
Restored(r) ==
  IF r.status = "invalid" /\ r.content # Malformed
  THEN [r EXCEPT !.status = "ready", !.routed = FALSE] ELSE r

ReadRows(q) ==
  /\ ~routing[q].busy
  /\ routing' = [routing EXCEPT ![q] = [busy |-> TRUE, rows |-> [r \in Rows |-> Restored(row[r])]]]

\* refreshRoutes, which the card calls whenever the routes are dirty.
Refresh(q) ==
  /\ active /\ dirty /\ status = "ready" /\ card.refresh = NoRouting
  /\ ReadRows(q)
  /\ card' = [card EXCEPT !.refresh = q]
  /\ UNCHANGED <<store, pass, active, sent, excluded>>

\* updateRoutePolicy
ChangePolicy(q) ==
  /\ active /\ ~dirty /\ status = "ready" /\ ~Executing
  /\ ReadRows(q)
  /\ UNCHANGED <<store, pass, card, active, sent, excluded>>

\* assignPayrollRoutes and applyRouteAssignment
Assigned(r, blocked) ==
  IF r.status # "ready" THEN r
  ELSE IF blocked THEN [r EXCEPT !.status = "invalid", !.routed = FALSE]
  ELSE [r EXCEPT !.routed = TRUE]

EndRouting(q) ==
  /\ routing' = [routing EXCEPT ![q] = IdleRouting]
  /\ card' = IF card.refresh = q THEN [card EXCEPT !.refresh = NoRouting] ELSE card

\* The rows that were read are written back, routed, and are not dirty.
WriteRoutes(q) ==
  /\ routing[q].busy
  /\ EndRouting(q)
  /\ IF Exists
     THEN /\ \E blocked \in SUBSET Rows :
               row' = Replaced([r \in Rows |-> Assigned(routing[q].rows[r], r \in blocked)])
          /\ dirty' = FALSE
     ELSE UNCHANGED <<row, dirty>>
  /\ UNCHANGED <<status, cursor, pass, active, sent, excluded>>

RoutingFails(q) ==
  /\ routing[q].busy
  /\ EndRouting(q)
  /\ UNCHANGED <<store, pass, active, sent, excluded>>

\* setRowSkipped
Skip(r) ==
  /\ Exists /\ row[r].status = "ready"
  /\ row' = [row EXCEPT ![r].status = "skipped"]
  /\ dirty' = TRUE
  /\ excluded' = excluded \cup {r}
  /\ UNCHANGED <<status, cursor, pass, routing, card, active, sent>>

Restore(r) ==
  /\ Exists /\ row[r].status = "skipped"
  /\ row' = [row EXCEPT ![r].status = "ready"]
  /\ dirty' = TRUE
  /\ excluded' = excluded \ {r}
  /\ UNCHANGED <<status, cursor, pass, routing, card, active, sent>>

Editable(r) == r.status \notin Settled \cup {"sending"} /\ ~r.sig

\* revalidateEditableRows: every editable row loses its route.
Revalidated(r, content) ==
  IF ~Editable(r) THEN r
  ELSE [r EXCEPT !.content = content, !.key = content, !.routed = FALSE,
                 !.status = IF content = Malformed THEN "invalid"
                            ELSE IF r.status = "skipped" THEN "skipped" ELSE "ready"]

\* commitRowPatch
Edit(r, content) ==
  /\ status = "ready" /\ Editable(row[r]) /\ content # row[r].content
  /\ row' = Replaced([q \in Rows |->
                        Revalidated(row[q], IF q = r THEN content ELSE row[q].content)])
  /\ dirty' = TRUE
  /\ excluded' = IF row'[r].status = "skipped" THEN excluded ELSE excluded \ {r}
  /\ UNCHANGED <<status, cursor, pass, routing, card, active, sent>>
-----------------------------------------------------------------------------
Executor(p) == Submitted(p) \/ Failed(p) \/ Aborted(p) \/ Continue(p)

Next ==
  \/ \E p \in Pass : Start(p) \/ Retry(p) \/ Submitted(p) \/ Failed(p) \/ Aborted(p)
                     \/ Continue(p)
  \/ Pause \/ Cancel \/ CancelBeforeStart
  \/ RemountCard \/ RemountScreen \/ Relaunch \/ DeleteRun
  \/ \E q \in Routing : Refresh(q) \/ ChangePolicy(q) \/ WriteRoutes(q) \/ RoutingFails(q)
  \/ \E r \in Rows : Skip(r) \/ Restore(r) \/ \E c \in Content \cup {Malformed} : Edit(r, c)

Spec == Init /\ [][Next]_vars
FairSpec == Spec /\ \A p \in Pass : WF_vars(Executor(p))
-----------------------------------------------------------------------------
(***************************************************************************)
(* A row is never given to a route submitter twice, whatever passes        *)
(* overlap, whatever stale rows are written back and wherever the app is   *)
(* killed: nobody is paid twice.                                           *)
(***************************************************************************)
SentOnce == \A r \in Rows : Len(sent[r]) <= 1

(***************************************************************************)
(* A row whose submission began shows it as long as the run exists: it     *)
(* carries the tombstone, and it is under way, settled, or failed and for  *)
(* reconciliation only; it is never offered for editing or sending again.  *)
(***************************************************************************)
SentIsMarked ==
  Exists => \A r \in Rows : sent[r] # <<>> =>
    /\ row[r].tomb
    /\ row[r].status \in {"sending", "failed"} \cup Settled
    /\ row[r].status = "failed" => row[r].rec

(***************************************************************************)
(* What is paid is what the idempotency key of the row in the store says,  *)
(* then and ever after, although the executor pays from a snapshot and     *)
(* rows are edited and written back meanwhile.                             *)
(***************************************************************************)
SentAsKeyed == \A r \in Rows : sent[r] # <<>> => sent[r][Len(sent[r])] = row[r].key

\* A recorded outcome is final: no reconciliation, late pass, retry or write
\* of stale rows takes a settled row back.
SettledStays ==
  [][\A r \in Rows : row[r].status \in Settled => row'[r].status = row[r].status]_vars

(***************************************************************************)
(* A run that reports completion has paid every row, even when the pass    *)
(* that reports it is not the only one: it is never "completed" over a row *)
(* another pass is still submitting.                                       *)
(***************************************************************************)
CompletedIsPaid ==
  status \in {"completed", "completed_with_claims_pending"} =>
    \A r \in Rows : row[r].status \in Settled

(***************************************************************************)
(* The run as PaymentBatch sees it: a row says what its key says.          *)
(***************************************************************************)
OutcomeOf(r) == IF row[r].status \in Settled THEN row[r].status ELSE "none"

Batch ==
  INSTANCE PaymentBatch
    WITH Row <- Rows, Payment <- Content \cup {Malformed}, Outcome <- Settled,
         says <- [r \in Rows |-> row[r].key], given <- sent,
         outcome <- [r \in Rows |-> OutcomeOf(r)],
         complete <- status \in {"completed", "completed_with_claims_pending"}

(***************************************************************************)
(* Store, executor, routes and edits keep the promise of PaymentBatch: a   *)
(* row is paid at most once, as its key says then and ever after; an       *)
(* outcome is recorded of a paid row only, and is final; nothing is paid   *)
(* once the run is complete.                                               *)
(***************************************************************************)
PaidAsABatch == Batch!Spec

\* No run is "running" for ever: some pass ends it, or its recovery after a
\* kill does; a run that stays so offers neither "Resume" nor "Retry".
RunningEnds == (status = "running") ~> (status # "running")

(***************************************************************************)
(* A row the user has skipped is not sent.                                 *)
(***************************************************************************)
SkippedIsNotSent == \A r \in excluded : sent[r] = <<>>
=============================================================================
