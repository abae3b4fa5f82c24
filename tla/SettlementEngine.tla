--------------------------- MODULE SettlementEngine ---------------------------
(***************************************************************************)
(* When the device settles its queued payments: the triggers, the back-off *)
(* and the retry timer of hooks/useSettlementEngine.ts with the status of  *)
(* store/settlementEngineStore.ts that the home screen shows.              *)
(*                                                                         *)
(* One wallet is active at a time and the user may switch; the engine is   *)
(* enabled while the network may be used and the worker offers settlement. *)
(* A run suspends at its awaits: anything may happen between its steps.    *)
(* What one item's settlement does is OfflinePayments; here it is a step   *)
(* with an outcome.                                                        *)
(*                                                                         *)
(* Left out: how long the delays are, wallet reset, and a start of the app *)
(* before its wallet is loaded.                                            *)
(***************************************************************************)
EXTENDS Naturals

CONSTANTS
  Wallet,
  NoWallet,
  Item      \* items a wallet may have in its queue

ASSUME EngineAssumption == NoWallet \notin Wallet

VARIABLES
  wallet,    \* the active wallet (contextRef)
  enabled,   \* canUseNetwork && canSettle
  launch,    \* the work scheduled after paint is still due
  asked,     \* a requested run's effect is still due
  requested, \* requestedRunId # 0
  fore,      \* the foreground timer is set
  timer,     \* the retry timer is set
  due,       \* the back-off's time has passed
  status,    \* of the engine's store
  run,       \* the run in flight
  queue,     \* wallet -> item -> state; "promised": failed, "Settlement will retry"
  away       \* wallets left since their last run started (history)

triggers == <<launch, asked, requested, fore>>
backoff == <<timer, due, status>>
vars == <<wallet, enabled, triggers, backoff, run, queue, away>>

State == {"absent", "queued", "promised", "confirmed"}
NoRun == [pc |-> "idle", wallet |-> NoWallet, batch |-> {}, left |-> FALSE, failed |-> FALSE]
Run ==
  [pc : {"idle", "stats", "upload", "settle", "items", "end"},
   wallet : Wallet \cup {NoWallet}, batch : SUBSET Item, left : BOOLEAN, failed : BOOLEAN]

(***************************************************************************)
(* Every variable keeps its shape, and a run knows whose items it settles. *)
(***************************************************************************)
TypeOK ==
  /\ wallet \in Wallet /\ enabled \in BOOLEAN
  /\ launch \in BOOLEAN /\ asked \in BOOLEAN /\ requested \in BOOLEAN /\ fore \in BOOLEAN
  /\ timer \in BOOLEAN /\ due \in BOOLEAN
  /\ status \in {"idle", "running", "backoff", "settled", "error"}
  /\ run \in Run /\ (run.pc # "idle" => run.wallet \in Wallet)
  /\ queue \in [Wallet -> [Item -> State]]
  /\ away \subseteq Wallet

Init ==
  /\ wallet \in Wallet /\ enabled = FALSE
  /\ launch = FALSE /\ asked = FALSE /\ requested = FALSE /\ fore = FALSE
  /\ timer = FALSE /\ due = FALSE /\ status = "idle"
  /\ run = NoRun
  /\ queue = [w \in Wallet |-> [i \in Item |-> "absent"]]
  /\ away = {}

Queued(w) == {i \in Item : queue[w][i] # "absent"}
Unsettled(w) == {i \in Queued(w) : queue[w][i] # "confirmed"}
-----------------------------------------------------------------------------
(***************************************************************************)
(* The start of a run.                                                     *)
(***************************************************************************)
\* getActiveSettlementBackoffDelayMs > 0
Refused == status = "backoff" /\ ~due

CanBegin(trigger) == enabled /\ run.pc = "idle" /\ (trigger = "retry" \/ ~Refused)

\* The run keeps the wallet it starts for.
Started ==
  /\ run' = [NoRun EXCEPT !.pc = "stats", !.wallet = wallet]
  /\ away' = away \ {wallet}

\* Mutants: the run that starts leaves the retry timer of the last one, ...
BeginKeepingTimer(trigger) ==
  IF CanBegin(trigger) THEN Started /\ UNCHANGED timer ELSE UNCHANGED <<run, timer, away>>
\* ... or settles whatever wallet is active.
BeginUnbound(trigger) ==
  IF CanBegin(trigger)
  THEN run' = [NoRun EXCEPT !.pc = "stats"] /\ timer' = FALSE /\ UNCHANGED away
  ELSE UNCHANGED <<run, timer, away>>

\* runSettlement up to its first await. A trigger that comes while the engine
\* is disabled, a run is in flight or the back-off lasts is dropped.
Begin(trigger) ==
  IF CanBegin(trigger) THEN Started /\ timer' = FALSE ELSE UNCHANGED <<run, timer, away>>

\* The timer is forgotten as it fires.
Retry ==
  /\ timer /\ due
  /\ timer' = FALSE
  /\ IF CanBegin("retry") THEN Started ELSE UNCHANGED <<run, away>>
  /\ UNCHANGED <<wallet, enabled, triggers, due, status, queue>>

Elapse ==
  /\ status = "backoff" /\ ~due
  /\ due' = TRUE
  /\ UNCHANGED <<wallet, enabled, triggers, timer, status, run, queue, away>>

\* scheduleUiWorkAfterFirstPaint
Launch ==
  /\ launch
  /\ launch' = FALSE
  /\ Begin("launch")
  /\ UNCHANGED <<wallet, enabled, asked, requested, fore, due, status, queue>>

\* The effect of a requested run
QueueEffect ==
  /\ asked
  /\ asked' = FALSE
  /\ Begin("queue")
  /\ UNCHANGED <<wallet, enabled, launch, requested, fore, due, status, queue>>

\* NetInfo reports that the device is online.
NetworkEvent ==
  /\ Begin("network")
  /\ UNCHANGED <<wallet, enabled, triggers, due, status, queue>>

\* The app comes to the foreground, or leaves it before the timer fires.
Foreground ==
  /\ fore' = ~fore
  /\ UNCHANGED <<wallet, enabled, launch, asked, requested, backoff, run, queue, away>>

ForegroundTimer ==
  /\ fore
  /\ fore' = FALSE
  /\ Begin("foreground")
  /\ UNCHANGED <<wallet, enabled, launch, asked, requested, due, status, queue>>
-----------------------------------------------------------------------------
(***************************************************************************)
(* The user and the network.                                               *)
(***************************************************************************)
\* Access comes back: the launch work is scheduled, and the effect of earlier
\* requests runs again.
Enable ==
  /\ ~enabled
  /\ enabled' = TRUE /\ launch' = TRUE /\ asked' = requested
  /\ UNCHANGED <<wallet, requested, fore, backoff, run, queue, away>>

\* Mutant: the effect clears the timer and leaves the status.
DisableKeepingStatus ==
  /\ enabled
  /\ enabled' = FALSE /\ launch' = FALSE /\ asked' = FALSE
  /\ timer' = FALSE
  /\ UNCHANGED <<wallet, requested, fore, due, status, run, queue, away>>

\* Access goes: the effects cancel the launch work and clear the timer, and
\* the run in flight goes on.
Disable ==
  /\ enabled
  /\ enabled' = FALSE /\ launch' = FALSE /\ asked' = FALSE
  /\ timer' = FALSE /\ status' = "idle"
  /\ UNCHANGED <<wallet, requested, fore, due, run, queue, away>>

\* Another wallet becomes active: nothing is triggered.
Switch(w) ==
  /\ w # wallet
  /\ away' = away \cup {wallet}
  /\ wallet' = w
  /\ UNCHANGED <<enabled, triggers, backoff, run, queue>>

\* The active wallet signs a payment (offline) or receives one.
Enqueue(i) ==
  /\ queue[wallet][i] = "absent"
  /\ queue' = [queue EXCEPT ![wallet][i] = "queued"]
  /\ \/ ~enabled /\ UNCHANGED <<asked, requested>>
     \/ asked' = enabled /\ requested' = TRUE
  /\ UNCHANGED <<wallet, enabled, launch, fore, backoff, run, away>>
-----------------------------------------------------------------------------
(***************************************************************************)
(* A run.                                                                  *)
(***************************************************************************)
At(pc) == run.pc = pc

\* getPendingBackupQueueStats: nothing queued ends the run.
Stats ==
  /\ At("stats")
  /\ IF Queued(run.wallet) = {}
     THEN status' = "idle" /\ run' = NoRun
     ELSE status' = "running" /\ run' = [run EXCEPT !.pc = "upload"]
  /\ UNCHANGED <<wallet, enabled, triggers, timer, due, queue, away>>

\* syncPendingBackupUploads: an upload that fails asks for another run.
Upload ==
  /\ At("upload")
  /\ \E failed \in BOOLEAN : run' = [run EXCEPT !.pc = "settle", !.left = failed]
  /\ UNCHANGED <<wallet, enabled, triggers, backoff, queue, away>>

\* The items that settleQueuedPendingPayments reads once and then submits
List ==
  /\ At("settle")
  /\ run' = [run EXCEPT !.pc = "items", !.batch = Unsettled(run.wallet)]
  /\ UNCHANGED <<wallet, enabled, triggers, backoff, queue, away>>

Becomes(i, state) == queue' = [queue EXCEPT ![run.wallet][i] = state]
Done(i, left, failed) ==
  run' = [run EXCEPT !.batch = @ \ {i}, !.left = @ \/ left, !.failed = @ \/ failed]

\* Mutant: a failed item does not count as work that is left.
SettleForgetful(i) ==
  /\ At("items") /\ i \in run.batch
  /\ \/ Becomes(i, "absent") /\ Done(i, FALSE, FALSE)
     \/ Becomes(i, "confirmed") /\ Done(i, TRUE, TRUE)
     \/ Becomes(i, "queued") /\ Done(i, TRUE, FALSE)
     \/ Becomes(i, "promised") /\ Done(i, FALSE, FALSE)
  /\ UNCHANGED <<wallet, enabled, triggers, backoff, away>>

\* Confirmed and deleted; confirmed, but its backup's deletion failed; waiting
\* for confirmation; or failed, and the receipt says that it will be retried.
Settle(i) ==
  /\ At("items") /\ i \in run.batch
  /\ \/ Becomes(i, "absent") /\ Done(i, FALSE, FALSE)
     \/ Becomes(i, "confirmed") /\ Done(i, TRUE, TRUE)
     \/ Becomes(i, "queued") /\ Done(i, TRUE, FALSE)
     \/ Becomes(i, "promised") /\ Done(i, TRUE, TRUE)
  /\ UNCHANGED <<wallet, enabled, triggers, backoff, away>>

\* cleanupConfirmedPendingBackups, which may fail for some; setResult
Cleanup ==
  /\ At("items") /\ run.batch = {}
  /\ \E kept \in SUBSET {i \in Item : queue[run.wallet][i] = "confirmed"} :
       /\ queue' = [queue EXCEPT ![run.wallet] =
            [i \in Item |-> IF @[i] = "confirmed" /\ i \notin kept THEN "absent" ELSE @[i]]]
       /\ run' = [run EXCEPT !.pc = "end", !.left = @ \/ kept # {}, !.failed = @ \/ kept # {}]
       /\ status' = IF run.failed \/ kept # {} THEN "error" ELSE "settled"
  /\ UNCHANGED <<wallet, enabled, triggers, timer, due, away>>

\* setBackoff and the retry timer
BackOff == status' = "backoff" /\ due' = FALSE /\ timer' = TRUE

\* The queries are invalidated; the finally clause.
End ==
  /\ At("end")
  /\ IF run.left THEN BackOff ELSE UNCHANGED backoff
  /\ run' = NoRun
  /\ UNCHANGED <<wallet, enabled, triggers, queue, away>>

\* Mutants: the catch clause sets no status, ...
ThrowUnnoticed ==
  /\ ~At("idle")
  /\ run' = NoRun
  /\ UNCHANGED <<wallet, enabled, triggers, backoff, queue, away>>
\* ... or the status only.
ThrowUnarmed ==
  /\ ~At("idle")
  /\ status' = "backoff" /\ due' = FALSE
  /\ run' = NoRun
  /\ UNCHANGED <<wallet, enabled, triggers, timer, queue, away>>

\* Anything in the try block throws.
Throw ==
  /\ ~At("idle")
  /\ BackOff
  /\ run' = NoRun
  /\ UNCHANGED <<wallet, enabled, triggers, queue, away>>
-----------------------------------------------------------------------------
Running == Stats \/ Upload \/ List \/ (\E i \in Item : Settle(i)) \/ Cleanup \/ End

Next ==
  \/ Retry \/ Elapse \/ Launch \/ QueueEffect \/ NetworkEvent \/ Foreground \/ ForegroundTimer
  \/ Enable \/ Disable
  \/ \E w \in Wallet : Switch(w)
  \/ \E i \in Item : Enqueue(i)
  \/ Stats \/ Upload \/ List \/ Cleanup \/ End \/ Throw
  \/ \E i \in Item : Settle(i)

(***************************************************************************)
(* Timers fire, scheduled work is done, and every await ends. Nothing is   *)
(* assumed of the user, the network and the app's way to the foreground.   *)
(***************************************************************************)
Fairness ==
  WF_vars(Running) /\ WF_vars(Retry) /\ WF_vars(Elapse) /\ WF_vars(Launch) /\ WF_vars(QueueEffect)

Spec == Init /\ [][Next]_vars /\ Fairness
-----------------------------------------------------------------------------
(***************************************************************************)
(* The home screen's "Finalizing queued payments." is true: while the      *)
(* status is "running" a run is in flight, whatever threw and whenever     *)
(* access came and went.                                                   *)
(***************************************************************************)
RunningIsRunning == status = "running" => run.pc \in {"upload", "settle", "items"}

(***************************************************************************)
(* Its "Finalization retry is scheduled." too: an engine that is enabled   *)
(* and backs off has its timer set, or a trigger under way that the        *)
(* back-off does not refuse.  So triggers are never refused for nothing.   *)
(***************************************************************************)
BackoffIsPursued ==
  status = "backoff" /\ enabled => timer \/ run.pc # "idle" \/ (launch /\ due)

(***************************************************************************)
(* A retry timer never waits beside a run: it would fire into the run and  *)
(* be dropped, or leave a second timer behind.                             *)
(***************************************************************************)
OneRetry == timer => run.pc = "idle"

(***************************************************************************)
(* A payment whose receipt says "Settlement will retry" is taken up again  *)
(* as long as its wallet stays the active one and the engine enabled: no   *)
(* interleaving of triggers, back-off, access changes and failing runs     *)
(* loses the retry.                                                        *)
(***************************************************************************)
RetryComes ==
  \A w \in Wallet : \A i \in Item :
    (queue[w][i] = "promised" /\ wallet = w /\ w \notin away /\ enabled)
      ~> (queue[w][i] # "promised" \/ run.wallet = w \/ w \in away \/ ~enabled)

(***************************************************************************)
(* useSettlementEngine.ts, on the receipt of a payment that failed:        *)
(* "Settlement will retry".  A payment of the wallet that is and stays     *)
(* active, in an engine that is and stays enabled, is taken up again.      *)
(***************************************************************************)
PromisedIsRetried ==
  \A w \in Wallet : \A i \in Item :
    <>[](wallet = w /\ enabled) => []<>(queue[w][i] # "promised" \/ run.wallet = w)
=============================================================================
