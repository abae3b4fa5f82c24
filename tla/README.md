# OffPay: a verification project

TLA+ models of OffPay's own core logic, the TLC runs that check them on small
instances, and TLAPS proofs of what matters most for every instance. OffPay is a
Solana wallet (React Native) with two Cloudflare workers. Its heart, and the part
where most can go wrong, is **offline payments**: the wallet pays rent for a pool
of durable-nonce accounts ("slots"), signs payments over their nonces without a
network, hands them over by BLE, queues them, and settles them once it is online
again. The models start there and go on to the other places where money can be sent
twice, or lost sight of, by a retry: payrolls, swaps and recurring orders.

All paths below are relative to the repository's root (`lib/...` is
`src/lib/...` in `PROJECT.json`).

## 1. Inventory

Components of the system, the state each keeps and what makes it hard.
`PROJECT.json` lists them with their sources and their status.

| Component | State | Operations | Hard because |
|---|---|---|---|
| Offline payments (`lib/offline/offline-payments.ts`) | the wallet's single `OfflineNonceState` (status, account, value, `lockedTxId`) | build and sign, lock, enqueue, release, mark settling / settled / failed | seven awaits from the choice of a nonce to the lock of its slot; the nonce state is overwritten on the way |
| Slots (`lib/offline/offline-payment-slots.ts`, `hooks/useOfflinePaymentSlots.ts`) | an index of accounts and one `OfflinePaymentSlotRecord` per account, in JSON files | prepare, reclaim rent, refresh from the provider status, lock, mark | the three tasks and payments write the same records from snapshots taken before awaits; nothing is transactional |
| Pending backup queue (`lib/payments/pending-backup-queue.ts`) | encrypted items with `settlementStatus`, `uploadedAt` | enqueue, upload, settle, delete remotely then locally, clean up | every call may fail after it took effect; the app may be killed anywhere |
| Settlement engine (`hooks/useSettlementEngine.ts`, `store/settlementEngineStore.ts`, `store/offlinePaymentStore.ts`) | running flag, backoff timer, receipts | run on launch, foreground, network, queue, manual and retry triggers | dropped triggers, backoff across wallets, callbacks whose errors are swallowed |
| Worker: nonce pool (`workers/api/src/lib/offline.ts`) | a Redis set of accounts per wallet, a lock, idempotency records | prepare (prune, check the cap, list), status (read, prune) | the set is pruned by reads; lock with a TTL; retries |
| Worker: settlement (`workers/api/src/lib/payment.ts`) | none of its own | broadcast, look up verdicts; execute; intents | partial batches, lost answers |
| Worker: RPC reads (`workers/api/src/lib/helius.ts`) | a 5 s account cache | account reads | answers older than the caller's own writes |
| Worker: backups (`workers/api/src/lib/pending-backup.ts`) | an R2 object per payment, 72 h | put, list, delete | expiry while the item is still open |
| BLE (`lib/offline/offline-ble-transport.ts`, `-protocol.ts`, `hooks/useOfflineBleReceiver.ts`) | the receiver's runs, chunks per phone, frames per session, payments handled | write, collect, reassemble, accept, queue; start and stop with the screen and the wallet | a link that cuts within a frame, phones that share a buffer, starts that cross, a wallet switched meanwhile |
| Payroll (`lib/payroll`, `store/payrollStore.ts`, `hooks/payroll/usePayrollRun.ts`) | rows with attempt ids, persisted runs | claim, submit, record, reconcile, pause, cancel, retry, route, skip, edit | a crash between claim and signature; executors that outlive their card and overlap the next; routes computed from rows that change meanwhile |
| Normal swaps (`components/features/swap/SwapScreen.tsx`, `lib/swap`, `workers/api/src/lib/jupiter.ts`) | the quote shown and the one reviewed; on the worker a state and a lock per quote | quote, review, confirm, execute, reconcile, refresh | a retry meets its first attempt, a quote expires under it, an answer comes late or never |
| Recurring orders (`AdvancedSwapScreen.tsx`, `store/advancedSwapStore.ts`, `workers/api/src/lib/jupiter.ts`) | a persisted idempotency key; on the worker a reservation per key, a state per draft, locks | create, sign, execute, reconcile | four records that expire at four times, any of whose writes may be lost |
| AI chat credits (`workers/api/src/lib/ai-chat-credits.ts`, `workers/ai-proxy/src/chat-credits.ts`) | counters in Redis, or Mongo when Redis fails | consume, release | two ledgers, lost answers |
| MagicBlock payments (`lib/magicblock/private-payment.ts`) | stored private payments | prepare, execute, poll | commitment levels |
| Auth and bootstrap (`lib/api/offpay-api-client.ts`, `lib/crypto`, `lib/bootstrap`, `workers/api/src/lib/{auth,bootstrap,attestation,ratelimit,invite-access}.ts`) | session, request nonces, counters | sign, verify, refresh | replay windows, clock skew |
| Faucet, RWA, trigger orders, private swaps, Umbra, Flash trade, agentic payments, wallet custody, app lock, notifications, UI | | | thin or external: see the notes in `PROJECT.json` |

How they interact. The send screen calls *offline payments*, which picks a ready
*slot*, signs, saves and locks the nonce state, enqueues an item in the *queue*
and locks the slot; the screen adds a receipt and hands the transaction to the
receiver over *BLE*. The *engine* uploads each item to the *backup* worker,
submits the batch to the *settlement* worker, marks slot, nonce state and receipt
through callbacks, deletes the backup, then the item. Independently the *slots*
hook polls the provider status (when mounted, and every 4 s while a slot is being
prepared or settled) and
rewrites the slot records from the answer of the *nonce pool*, which in turn
reads the accounts through the *cache* and prunes those it finds missing. A payment
received over BLE is queued on the receiving phone and settled by its engine too.
Swaps and recurring orders are two calls each, device to *worker* to Jupiter; the
worker's store is what makes a second call harmless.

What makes each correct: a payment is never lost (it stays queued until it has
landed); two open payments never share a nonce; nothing is shown settled that is
not; backups do not outlive their items; the rent the wallet pays for accounts
can be found and recovered, within a maximum; an account is never closed under
an open payment; every queued payment is settled or rejected at last; and nobody is
paid twice, nothing swapped that was not reviewed, and no order placed twice, however
often a call is repeated. The
hazards that threaten these are listed one by one, at their lines, in
`PROJECT.json`.

## 2. The modules

`PaymentLedger` — what offline payments promise, with no device in sight: a
payment is *issued* over one value of one nonce account, the chain *executes* at
most one payment per value, the device *forgets* a payment only once it landed.

`OfflinePayments` — the detailed specification: chain, device, settlement worker
and backup store. Three tasks of the device's one thread interleave at every
`await`; what a task holds in local variables across an await is a field of
`pay` (the payment being built), `view` (the refresh) or `batch`, `work`, `item`
(the settlement run), and `pc` says where each is suspended.

| Actions | Code |
|---|---|
| `PayStart` … `PayPublish` | `getReadyOfflineNonceForSigning`, `buildSignedStablecoinOfflinePayment`, `lockOfflineNonceForPayment`, `enqueuePendingPaymentBackup`, `lockOfflinePaymentSlotForTx`, the send screen |
| `SyncFetch`, `SyncLoad`, `SyncWrite` | `refreshOfflinePaymentSlotsFromBackendStatus`, `syncOfflinePaymentSlotsFromBackendStatus`, `upsertSlots` |
| `SettleStart` … `SettleEnd` | `runSettlement`, `syncPendingBackupUploads`, `settleQueuedPendingPayments`, the mark callbacks, `cleanupConfirmedPendingBackups`, `settlePrivatePayments` |
| `Crash` | the app is killed: local variables go, files, worker and chain stay |
| `Land`, `FailOnChain` | the chain executes a durable-nonce transaction somebody holds |

It implements `PaymentLedger` under `tracked <- Queued` (`LedgerSpec`): the chain's
steps execute, `PayEnqueue` issues, the two drops forget, all else stutters.

`SlotProvisioning` — the life of an account: generated, listed by the worker,
created for rent, indexed, offered, used, closed. Three tasks again: `poll`,
`prepare`, `reclaim`; a payment takes and leaves a slot in one step each, because
`OfflinePayments` has the steps in between. A refresh is run by all three tasks,
so its actions (`Read`, `ReadFails`, `SyncIndex`, `SyncLoad`, `SyncUpsert`, `SyncWrite`,
`SyncSave`, `Fallback`) take the task as a parameter and `view[t].next` says where the task
goes on. The two modules divide the slot record: `OfflinePayments` has the nonce
that advances and slots that stay open; `SlotProvisioning` has creation, closing,
the index and the rent, and nonces that do not matter.

`Payroll` — one batch send. Every store operation is synchronous and persisted when
it returns, so a step is the code from one await to the next. Two things suspend: a
pass of the executor (`pass`: where it is, the rows it took at its start, what its
card asked of it) and a computation of the routes (`routing`: the rows it read). There
is a set of each, because both outlive the card that began them: the app lock replaces
the chat screen, the old pass is told to stop but its submission goes on, and the new
card offers "Resume". `sent` and `excluded` are history: what was given to a route
submitter, and what the user last said of a row.

| Actions | Code |
|---|---|
| `Start`, `Retry`, `Submitted`, `Failed`, `Aborted`, `Continue` | `usePayrollRun`, `runPayrollBatch`, `claimRowSubmission`, `updateRow`, `resolveCompletedRunStatus` |
| `Pause`, `Cancel`, `CancelBeforeStart`, `RemountCard` | the card's buttons, its unmount, the review screen's cancel |
| `RemountScreen`, `Relaunch` | `reconcileOrphanedRunsOnLaunch`, after the app lock or a kill |
| `Refresh`, `ChangePolicy`, `WriteRoutes`, `RoutingFails` | `refreshRoutes`, `updateRoutePolicy`, `applyRouteAssignment`, `replaceRows` |
| `Skip`, `Restore`, `Edit`, `DeleteRun` | the review screen, the deletion of a chat, pruning |

`NoncePool` — the worker's side of `SlotProvisioning`: any number of requests, of
several devices or retried, each suspended at a call of the Redis store (`req[r].pc`).
They share the pool, its lock and one record per idempotency key; `handed`, `listed`
and `answers` are history. `Outlives` says whether a request may run longer than its
lock lives.

| Actions | Code |
|---|---|
| `Prepare`, `Lookup`, `Store`, `Reread`, `Forget` | `withOfflineIdempotency` |
| `Acquire`, `ReleaseGet`, `ReleaseDel`, `LockExpires` | `acquireNoncePoolLock`, `releaseNoncePoolLock` |
| `List`, `Read`, `Remove`, `Build`, `Add`; `Poll` | `prepareNoncePool`; `getNoncePoolStatus` |
| `Throw`, `Die`, `Land` | a call fails inside the `try`; the isolate is killed; a creation lands |

`SettlementEngine` — when the device settles. `OfflinePayments` has what a run does to
its items; here a run has outcomes only, and the state is what decides whether there is
a run at all: triggers, running flag, back-off, retry timer, access, the active wallet.

| Actions | Code |
|---|---|
| `Launch`, `QueueEffect`, `NetworkEvent`, `Foreground`, `ForegroundTimer`, `Retry`, `Elapse` | the hook's triggers and `getActiveSettlementBackoffDelayMs` |
| `Enable`, `Disable`, `Switch`, `Enqueue` | the context, its effects, `requestRun` |
| `Stats`, `Upload`, `List`, `Settle`, `Cleanup`, `End`, `Throw` | `runSettlement` from await to await |

`BleTransfer` — sending phones and one receiving phone, chunk by chunk. A frame is two
chunks, its head and its body; a payment is identified with what its checksum and
session digest.

| Actions | Code |
|---|---|
| `Connect`, `WriteHead`, `WriteBody`, `Finish`, `Cut` | the sender's write loop and the link (the writes reach the listener's callback in the same step) |
| `Open`, `Ready`, `Close`, `Elapse`, `ElapseSession` | `useOfflineBleReceiver`'s effect, `startOfflineBleReceiver`, its time-outs |
| `Enqueue`, `Refuse`, `Receive`, `Kill` | `onPayment` from await to await |

`RecurringOrder` — sessions of the device (screens and chats) under persisted keys, and
the worker's `createRecurringOrder` and `executeRecurringOrder` call by call: the lock,
the reservation, the draft, the write-ahead of `submitting`, the reconciliation.

| Actions | Code |
|---|---|
| `Review`, `Cancel`, `Confirm`, `Sign`, `Leave` | the screen, `getOrCreatePersistedRecurringOperationIdentity`, `createAdvancedSwap…`, `executeAdvancedSwap…` |
| `Lookup`, `Redraft`, `Reserve`, `Build`, `Store`, `Drop`, `Expire` | `createRecurringOrder` and the store's expiry |
| `Read`, `Delete`, `Status`, `Ahead`, `Send`, `Answered`, `Keep` | `executeRecurringOrder` |
| `Acquire`, `Release`, `LockExpires`, `Throw`, `Die`, `Settle` | the lock, failures, the chain |

`SwapQuote` — the same for one swap: the screen's quote, review and mutation, and
`executeSwapQuoteDetailed` for quotes of Jupiter and of the Metis fallback.

| Actions | Code |
|---|---|
| `Fetch`, `Review`, `CloseReview`, `Confirm`, `Sign`, `Fresh`, `Fail`, `Relaunch` | `SwapScreen`, `executeNormalSwapWithReviewGate`, `shouldRefreshSwapExecution` |
| `Acquire` … `Keep`, `Release`, `LockExpires`, `Throw`, `Die` | `executeSwapQuoteDetailed` |
| `Expire`, `Evaporate`, `Settle` | time, the store's expiry, the chain |

Four more abstract specifications say what a component promises, in a few steps and
without its requests, locks, passes or records; each is a `PROPERTY` of a run and the
target of a refinement theorem.

| Abstract | Promises | Implemented by |
|---|---|---|
| `Submission` | an operation is submitted at most once, after it was asked for and never after it was reported as expired; what is told of it is true and not taken back | `RecurringOrder` (`SubmittedOnce`): an operation is a key, asked for when a draft is built under it, its fate that of the one draft that was sent. `SwapQuote` (`SubmittedOnce`): an operation is a quote, asked for when it is confirmed; of quotes of the fallback "done" says that they were broadcast |
| `PaymentBatch` | a row is paid at most once, as it says then and ever after; outcomes are of paid rows, and final; nothing is paid once the run is complete | `Payroll` (`PaidAsABatch`): a row says what its idempotency key says, and has an outcome when its status is settled |
| `AccountPool` | accounts join while all of the pool fits the maximum; a key has one answer, whose creations are of accounts that were asked for and had been listed | `NoncePool` (`KeepsThePool`), with `pool`, `listed` and `answers` as they are |
| `Delivery` | a payment arrives with the last write of its sender or not at all, as it was sent; it is queued after that, for the wallet it pays, and shown as received after it was queued | `BleTransfer` (`DeliveredWhole`): written is what is past its last frame, arrived what was handed to `onPayment` |

One specification serves orders and swaps, because the two functions of the worker keep
one discipline: the state is written ahead of the submission, and what is told of it is
what was read back.

`*_proofs` — the theorems about each; those about an abstract specification are in the
module of what implements it. `MC*` — the instances for TLC; `Payroll` needs none, its
constants are given in the `.cfg`.

How the modules meet. `PaymentLedger` is refined by `OfflinePayments`, whose fairness
(runs come again while something is queued) is what `SettlementEngine` is about.
`SlotProvisioning` takes the pool's preparation as one atomic call with a cap;
`NoncePool` shows, through `AccountPool`, the cap for calls that are
not. `BleTransfer` ends where a payment is in the receiving phone's queue, where `OfflinePayments` begins.

Parameters common to the offline models: `Overlap` is the set of sets of tasks that may be
in flight together, so one module gives the serial system and every degree of
interleaving; the theorems hold for every value of it unless section 5 names a condition.

### Abstractions

* *Data.* A payment is its transaction id, which is deterministic: building the
  same payment over the same nonce gives the same transaction. Amounts, keys,
  encryption, wording and UI counts are left out. Nonce values are counted, so that
  "older than the chain's" is a comparison.
* *Steps.* A write of one file is atomic. The load, filter and save of a slot
  snapshot is one step. A read-modify-write between two awaits that touches one
  record is one step in the payment task; in marks and refreshes, where the code
  loads a record and saves it after an await, it is two.
* *`OfflinePayments`.* The settlement batch is one chunk. Marks run one after the
  other; a mark that throws is swallowed, as in the code, under `Faults`. Which ready slot is
  chosen is left open. Recovery of backups from the worker has no caller and is
  left out. An upload of an aborted run that arrives after the item's deletion, and
  a rollback of a `processed` signature, are not modelled.
* *`SlotProvisioning`.* A slot is never `stale` (creation and initialization are one
  transaction) and `queued` is written by no code. Keys are taken from a finite
  supply. The branch "Backend did not return an offline slot" cannot be taken for
  fresh keys. Two runs' closes of one account are told apart by nothing but the
  account. `Interrupted` names the tasks that may be killed or lose the answer to a
  broadcast. `EarlyReads = FALSE` says that accounts are read only when no creation
  is undecided, and that no cached answer predates one; the code does not ensure that, and
  the theorems hold without it.
* *`Payroll`.* Recipient, amount and mint of a row are one value, its `content`, and
  its idempotency key, a digest of them, is that value; a row that validation rejects
  has the content `Malformed`. The tombstone, the reconciliation mark and "any
  signature or transaction id" are one Boolean each; a route is there or not. What a
  submitter does is left open: it returns an outcome, throws, or throws an abort, and
  after the claim the payment counts as sent whatever it does. A run is created whole
  (`Staged`), or comes from an older build that wrote no tombstones (`Inherited`).
  Not modelled: adding and deleting rows, the token of all rows at once, retry counts,
  several runs.
* *`NoncePool`.* One wallet. Reads of the chain may be late by any amount: an account
  that landed may be answered as missing. Building a creation is one step. An answer
  is what it lists and the creations it carries. `prepareNonceAdvance` and the rent
  estimate, which write nothing, are left out.
* *`SettlementEngine`.* Delays have no length: a back-off lasts until `Elapse`. A
  foreground timer may be cancelled at any time. Items of a run are settled in any
  order. The manual trigger (no caller) and the deletion of a wallet are left out.
* *`BleTransfer`.* Checksums do not collide, so a checksum is the payment it was made
  of. Two chunks of different frames may by luck parse as one frame (`lucky`). A write
  while no listener is subscribed succeeds on the sender's side. Two payments of one
  phone may interleave chunk by chunk. A link that stalls is disconnected within
  seconds, sooner than the two minutes after which leftovers go. `InOrder` says that
  the native calls of two starts are answered in the order they were made. Discovery
  and ranking of receivers, native start-up errors and toasts are left out.
* *`RecurringOrder`, `SwapQuote`.* A step is the code between two calls, and each call
  may fail before it acts or lose its answer after. Behaviours last less than the 24 h
  for which identities, reservations and submitted states are kept. Jupiter is taken at
  its word when it reports success, and when it says that it does not know an order
  any more (`gone`, which `LapsedIsUnsent` excepts). Device and worker agree on whether
  a quote is past its time. "Done" for a quote of the fallback means that the worker has
  broadcast it. Quote arithmetic, verification of the transaction, fees, the listing
  and cancelling of orders, private swaps, and the chat's and the RWA screen's way into
  the same execution are left out, as are the checks that wallet and cluster did not
  change.

## 3. The runs

Deadlock is checked in `payroll_overlap`, `pool_retries` and `engine_retry`. Elsewhere
the system may stop: a wallet with nothing queued and nothing to prepare, an order that
was placed, a payment that was handed over.

| Run | Checks | Expect |
|---|---|---|
| `crash` | `TypeOK`, `NoPaymentForgotten`, `SettledIsOnChain`, `BackupOnlyWhileQueued`, `LedgerSpec`: tasks one at a time, a kill or a storage failure at every step, every remote call failing before or after its effect | pass |
| `overlap` | `NoncesExclusive`, `OpenPaymentHoldsItsSlot`, `PendingSlotsPinned`: settlement interleaved with payments and with refreshes, which may read values up to one behind; no faults | pass |
| `live` | `QueueDrains`, `SignedOnCurrentNonce`: payments interleaved with settlement, fresh reads | pass |
| `rent` | `TypeOK`, `RentListed`, `RentBounded`: preparations overlapped by polls, every task interrupted, two keys and a maximum of one slot | pass |
| `offers` | `OfferedIsUsable`, `OwedIsOpen`: three keys and two slots, tasks one at a time, polls and preparations interrupted | pass |
| `payroll_overlap` | `TypeOK`, `SentOnce`, `SentIsMarked`, `CompletedIsPaid`, `PaidAsABatch`, `RunningEnds`: two rows, two passes and a route computation, with kills, remounts and edits between any two steps | pass |
| `pool_retries` | `AnswersAgree`, `OnePreparer`, `PoolWithinMax`, `KeepsThePool`: two requests at a time of three kinds under two keys, polls, failing and half-failing calls, kills | pass |
| `engine_retry` | `BackoffIsPursued`, `OneRetry`, `RetryComes`: two wallets of one item each, every trigger at any time, access and wallet changing under a run | pass |
| `ble_mixed` | `HandedIsWhole`, `CleanIsHanded`, `DeliveredWhole`, `ListenerIsFound`: three payments in two frames each, from two phones, to two wallets; two starts of the receiver, links cut anywhere | pass |
| `recurring_retries` | `OneOrderPerKey`, `SubmittedOnce`, `DoneIsPlaced`, `ExpiredIsNeverSent`: a screen and a chat under one key, two drafts, three requests at once, every call lost or killed | pass |
| `swap_retries` | `SwappedWasReviewed`, `DoneIsSwapped`, `LapsedIsUnsent`, `SubmittedOnce`: one quote of each provider, two requests, expiry, refreshes, kills | pass |
| `swap_refreshed` | `AttemptIsAwaited`, two quotes of Jupiter | violated |

The type invariants of the five newer modules are not checked by a run: TLAPS proves
them (section 5), and each is a conjunct of an invariant that is inductive. The same
holds of `KnownBeforeSent`, `CompletedStays`, `SettledStays`, `AnsweredWasListed`,
`QueuedForItsWallet`, `SentAsKeyed` and `RunningIsRunning`: the modules state them and TLAPS proves them, while
the runs check the abstract specifications and the properties they lead to.

**Bounds.** Two payments on one slot is the smallest instance where a nonce can be
used twice, a slot reused after its nonce advanced, and one item of a batch fail
while the other lands; nonces stop growing by themselves, as a payment executes at
most once. One slot with a maximum of one and two keys is the smallest where a
second preparation, after the index lost the first account, could exceed the
maximum; two slots and three keys where a preparation fails half way and a reclaim
closes two accounts. Payments, and accounts, are symmetric; the liveness runs use
no symmetry. Two rows are the smallest batch with a row behind the cursor and one
ahead of it, and two passes the smallest overlap; a third would have to wait behind
the same claims. Two outcomes are those that end in different run statuses. Two requests
on two keys, of which one is used for two different requests, are the smallest pool in
which a record can answer the wrong one, and three accounts with a maximum of two the
smallest in which two preparations together exceed it. Two wallets are needed for a
timer to fire into the wrong one. Two frames of two chunks each are the smallest payment
that can be mixed with another both within a frame and between frames; with two starts
of the receiver one can be cancelled while the other begins; five pending chunks let a
leftover outlive a whole payment and still overflow. Two drafts under one key are the
smallest duplicate order, and the third request lets a retry meet a creation and an
execution at once. One quote of each provider suffices where quotes do not interact but
through the screen. The proofs carry the most important results beyond these bounds.

**Why these splits.** Overlap, faults and stale reads each break one property that
holds without them (section 4), so a run that allows them all could check only what
survives all. The theorems have no such limit: they allow everything and name the steps
that break each property (section 5). Likewise `pool_retries`, `recurring_retries` and
`swap_retries` have `Outlives = FALSE`, and `ble_mixed` has `InOrder = TRUE`. `crash` is
serial for size only: the theorems cover its safety properties for all overlaps. `offers`
is serial by necessity: a refresh that overlaps another may
write back the answer it cached before a close. `rent` keeps reads late because
early ones lose accounts (`MCSlotProvisioning_forgotten.cfg`). A stored item may fail to
decrypt (`Unreadable`) in `live`, where it must not hold back the other; in `crash` and
`overlap` none does for size only, and the theorems hold for any set of them.

**Fairness** (`OfflinePayments!Fairness`, used by `live` only). A task that was
started runs on (weak fairness): it awaits, but nothing blocks it. Settlement runs are
triggered again and again while something is queued: launch, foreground, network,
queue and manual triggers, and the engine's own backoff timer after every run that
left something undone. Calls that are retried for ever succeed at last
(strong fairness on the successful outcomes of submit, of the verdict and of the
remote delete, which are offered once in every run, not continuously). The chain
executes what it holds. Nothing makes the user start a payment or a refresh.

In `Payroll` (`FairSpec`, for `RunningEnds`) each pass is weakly fair: a submission
returns or throws (requests are aborted after 15 s, `lib/api/offpay-api-client.ts:484`,
and an Umbra computation is awaited for 120 s, `lib/umbra/umbra-execution.ts:191-195`),
and a yield to the UI comes back. Nothing else is fair: a pass that is killed leaves its run
"running", and then the recovery, which is part of the relaunch, must have ended it.

In `SettlementEngine` (part of `Spec`, for `RetryComes`) what is scheduled happens: a
timer fires, work after paint and effects run, a back-off's time passes, and every await
of a run ends, as requests are aborted after 15 s. Nothing is assumed of the user, the
network or the app's way to the foreground, so the retry has to come from the timer
alone.

**Mutants.** Every property of every passing run has an operator next to the
definition it mutates (`... Mutant:` comments) that breaks it the way a plausible
bug would: a refresh that trusts the provider over a lock, a cleanup that visits
every item, a worker that does not count its pool, a reclaim that takes locked
slots, an interrupted row that is simply made ready again, a lock taken with a SET
that lacks its NX, a back-off without its timer, a frame accepted without its checksum,
a draft whose state is written only after it was sent, a refreshed quote executed at once.

## 4. What the runs found

`swap_refreshed` — a retry of a swap whose first attempt is still under way is refused
with "This swap quote is already being executed. Please wait for the current attempt to
finish.", and the device takes that message, because it has the word "quote" in it, for
a stale quote: it fetches another and asks the user to confirm it, while the first may
still swap. The lines are quoted in `PROJECT.json` under `findings`.

The configurations below are kept beside the modules and are not among the runs of
`PROJECT.json`. Each checks one property and TLC finds it violated by what the code does:
the limits of what the passing runs show.

| Configuration | Property | What happens |
|---|---|---|
| `MCOfflinePayments_crash_reuse` | `NoncesExclusive` | the builder overwrites the nonce state as ready whatever it held, so the lock that "a durable nonce is already locked by a pending offline payment" speaks of never refuses; only the slot record protects the nonce, and it is locked after the item was enqueued. A kill in between, or a failing second write of the enqueue, lets the next payment sign over the same nonce |
| `MCOfflinePayments_lost_lock` | `PendingSlotsPinned` | a status refresh that loaded its snapshot before a payment locked a slot writes it back as ready |
| `MCOfflinePayments_stale_read` | `SignedOnCurrentNonce` | the status endpoint answers from a 5 s cache; a refresh right after a settlement makes the slot ready with its consumed nonce, and the next payment can never execute |
| `MCSlotProvisioning_forgotten` | `RentKnown` | a status poll during a preparation prunes accounts that have not landed yet, and the device drops their records; once they land nobody knows them |
| `MCSlotProvisioning_closed_in_use` | `OwedIsOpen` | a reclaim cut short after a broadcast leaves the slot ready, or in error and so ready after the next refresh, while its close is under way |
| `Payroll_skipped` | `SkippedIsNotSent` | a computation of the routes writes back the rows it read: a row the user skipped meanwhile is ready again, the mark that would ask for new routes is cleared, and the confirmed run pays it |
| `MCNoncePool_outlived` | `PoolWithinMax` | a preparation that outlives its 30 s lock, and a second one that began meanwhile, both pass the check of the cap |
| `MCSettlementEngine_switched` | `PromisedIsRetried` | "Settlement will retry" (`hooks/useSettlementEngine.ts:441`): the timer fires for whatever wallet is active then, and nothing is triggered when the user comes back |
| `MCBleTransfer_shared` | `SharedIsHanded` | "Signed payment shared" (`PrivatePaymentSendFlow.tsx:2137-2138`): the chunks of a transfer that was cut stay in the receiver's buffer, and the next payment of the same phone is appended to them and never read |
| `MCBleTransfer_crossed` | `ListenerIsFound` | with `InOrder = FALSE`: a cancelled start that resolves late stops the advertising of the one that replaced it |
| `MCRecurringOrder_cancelled` | `CancelledIsNotSubmitted` | cancelling a review says that nothing was submitted (`AdvancedSwapScreen.tsx:1245-1277`); an earlier attempt under the same key may have been |

`Payroll` also reaches states that no run checks, for want of a line that
speaks of them as clearly; they are listed as hazards: a row restored behind the
cursor of a paused run is never sent, a cancel during the last row is lost, a run
cancelled by a second card keeps its interrupted row.

## 5. What is proved

TLAPS proves the following for every set of payments, slots and accounts, every number
of payroll rows and passes, requests, wallets, phones and quotes, every
`Overlap`, with faults, stale reads and interruptions or without. The assumptions are
the named `ASSUME`s of the modules only:
the null values are no members of the sets, the flags are Booleans, the set of
accounts is finite, the bounds are naturals with the target between them, the number
of rows is a natural, a submission's outcomes are settled ones, a buffer holds at least
one frame.

Some properties the code does violate (section 4 has the behaviours). Their theorems
say exactly how, in one of two ways. The eight about nonces and accounts exclude nothing: they read
`Spec => []P \/ <><<E>>_vars`, where `E` is the step of the code that breaks `P`: an
overwritten lock, a kill between two named lines, a prune of an undecided account. `Spec`
has no fairness, so a behaviour may stop at any state; the theorem therefore says that no
state or step violates `P` before `E` has been taken, whatever else overlaps, fails, lags
or is killed. Eleven others have a hypothesis, named with each: ten need `~Outlives` (no request runs
longer than its lock lives, 30 s or 120 s), one `InOrder`. Neither events nor hypotheses
are there for the proofs' sake: TLC finds the property violated when the hypothesis is
dropped, and, for each kind of step in an event, a property of the group violated by
behaviours in which that kind alone occurs.

`OfflinePayments_proofs`
: About `PaymentLedger`: `LedgerOnePaymentPerNonce`, `LedgerNothingForgotten`. The
  invariant adds that a decided payment's value is consumed, which is why a second one
  over it cannot execute. Through the refinement it holds of the detailed specification
  too: `OnePaymentPerNonce`. About `OfflinePayments`: `TypeCorrect` (`TypeOK`),
  `PaymentsKept` (`NoPaymentForgotten`), `SettlementsTrue` (`SettledIsOnChain`), `NoOrphanBackup` (`BackupOnlyWhileQueued`) and
  `ImplementsLedger` (`LedgerSpec`). The properties are not inductive: a run decides
  on an item at one await and acts on it later ones. The invariant `Inv` says what it
  still knows then. `TypeInv`: a suspended task has at hand what it needs.
  `Settlement`: the item being marked settled, deleted or dropped, and the items the
  cleanup has still to visit, have landed. `Backups`: uploads are of queued items and
  an item is dropped after its backup. `SignedFirst`: only signed payments are queued
  or handed over. `NoncesSeen`: stored and carried values existed on chain. The last
  two give the refinement: `PayEnqueue` signs over a value the account has or had.
: `ExclusiveNonces` (`NoncesExclusive`), `SlotsHeld` (`OpenPaymentHoldsItsSlot`) and
  `SlotsPinned` (`PendingSlotsPinned`), until `LosesLock`: a build ends after its enqueue
  and before its lock (`KilledUnlocked`: a kill, or the failing second write), or a
  refresh or a mark saves a slot from a record it loaded before the slot went to another
  payment (`LostUpdate`). The invariant `Locks` says that a
  payment awaiting settlement holds its slot, but for the steps between its enqueue and
  its lock; that for those steps the build has the slot to itself (`Alone`), because the
  ready nonce state it was built from offers a free one (`Spare`); and that a slot given
  up was of a landed payment, in the refresh's copies too (`Released`).
: `CurrentNonces` (`SignedOnCurrentNonce`), until `LosesLock` or `StaleOffer`: a refresh
  makes a slot ready with a value the chain has overtaken, read early or from the cache.
  The invariant `Current`: what a ready slot, the nonce state or a build at hand offers is
  the value of its account.

`SlotProvisioning_proofs`
: `TypeCorrect` (`TypeOK`, which includes that a preparation knows at every await what
  it has broadcast), and, until `Forgets`, `RentIsListed` (`RentListed`) and `RentIsBounded`
  (`RentBounded`). `Forgets`: a read prunes an account before the chain has decided on its
  creation. The invariant `Listed` adds to
  `RentListed` that the accounts still to be broadcast are in the pool, and bounds the
  pool itself. The proof sorts the steps: those that are `Quiet` (neither change the
  pool nor fund an account) keep it at once, and five remain.
: `OffersUsable` (`OfferedIsUsable`), until `LosesRecord`: a task saves a record over a lock
  or a close noted since it loaded it (`Overwrites`), or a close goes out and its record
  does not say so, because the reclaim is killed, the broadcast's answer is lost, or it is
  marked as failed and may land (`LosesClose`). `OwedStaysOpen` (`OwedIsOpen`), until
  `LosesPayment`, which adds that a close and a payment cross between the reclaim's
  selection and its note (`CrossesClose`). The invariant `Use`: an account whose rent was
  asked back is shown as closing or closed, unless the reclaim is about to note it, and a
  ready slot has an account (`Told`); what a refresh was told is of a created account, and
  a record it will take for refused is of a preparation that was given up (`Answered`); a creation is
  broadcast once (`Own`); a reclaim is at what was reclaimable (`Selected`). With it,
  `Locked`: a slot under a payment is locked; `Noted`: what a reclaim closes is shown so
  until it is marked. In the run `rent` no step `Forgets`, as its reads are late, and in
  `offers`, whose tasks are serial and whose reclaim is not interrupted, no step
  `LosesPayment`: that is why the properties hold there.

`Payroll_proofs`
: `TypeCorrect` (`TypeOK`), `PaidOnce` (`SentOnce`), `SubmissionShows` (`SentIsMarked`),
  `KeyKept` (`SentAsKeyed`, which needs more route computations than the run has),
  `CompletedPaid` (`CompletedIsPaid`), `SettledFinal` (`SettledStays`) and
  `ImplementsBatch` (`PaidAsABatch`), for any number of rows, passes and route computations. The invariant `IInv` says that the evidence on
  a row tells all: a submitted row is `Marked` and was paid as its key says; a row the
  user may still see as ready, invalid or skipped has no evidence (`GoodRow`), and then
  its content is what its key says. So a claim, which asks for a ready row, meets one
  that was never submitted. Passes under way are at rows of their own, and the stale
  rows a route computation holds are good ones, which `preserveDurablePaymentEvidence`
  turns away from marked rows. Steps that submit nothing (`Quiet`) share one lemma;
  `SubmitNextStep` is the one that does.
: The refinement has no hypothesis. It needs one more invariant, `RoutedPaid`: a row that
  a route computation read with a signature had one in the store and has it still, so
  that writing it back is no outcome the store did not have. The steps are of four kinds
  (`Seen`): `Unseen` changes nothing the batch sees but its completion, `Rewording` what
  rows without evidence say, `Giving` is a claim with its submission, `Recording` one
  outcome of a row that was given.

`NoncePool_proofs`
: `TypeCorrect` (`TypeOK`), `Exclusive` (`OnePreparer`, `~Outlives`), `WithinMax`
  (`PoolWithinMax`, `~Outlives`), `Idempotent` (`AnswersAgree`), `ListedFirst`
  (`AnsweredWasListed`) and `ImplementsPool` (`KeepsThePool`, `~Outlives`). Whoever is
  between acquisition and release holds the lock, so from its list to its addition it
  knows all of the pool: polls only take away, and the size it checked bounds what the
  pool becomes. An answer given under a key is the one that is kept. For the refinement
  the invariant also says that an answer, built, stored or given, carries creations only
  of accounts it was asked for. `Add` joins (`AddJoins`), an answer from the code or from
  a record replies (`ReplyAnswers`, `ReplayAnswers`).

`SettlementEngine_proofs`
: `TypeCorrect` (`TypeOK`), `BackoffTrue` (`BackoffIsPursued`), `OneRetryAtMost`
  (`OneRetry`) and `RunningTrue` (`RunningIsRunning`, which no run checks). The
  invariant adds that an idle engine that backs off has its timer or nothing left to
  wait for (`Armed`), and that a run that found something to do has left the back-off
  behind (`Past`).

`BleTransfer_proofs`
: `TypeCorrect` (`TypeOK`), `HandedWhole` (`HandedIsWhole`), `CleanHanded`
  (`CleanIsHanded`), `QueuedRight` (`QueuedForItsWallet`), `ListenerFound`
  (`ListenerIsFound`, `InOrder`) and `ImplementsDelivery` (`DeliveredWhole`). Every frame
  a session holds was written by its sender, whatever `lucky` joins; a transfer that is
  clean so far has exactly its open head in the buffer and the frames before it in its
  session. For the refinement: the frame that completes a text is of the payment handed
  over (`FrameCases`), so it is the writer's own and the last one it writes
  (`BodyDelivers`), and what `onPayment` carries to the queue was handed to it (`Arrived`).

`RecurringOrder_proofs`
: `TypeCorrect` (`TypeOK`), `DonePlaced` (`DoneIsPlaced`), and with `~Outlives` `OneOrder`
  (`OneOrderPerKey`), `Known` (`KnownBeforeSent`), `ExpiredNeverSent`
  (`ExpiredIsNeverSent`) and `ImplementsSubmission` (`SubmittedOnce`). A reservation that
  is dropped is of a draft that no device was given; the one that names a key's draft
  stays as long as that draft could be sent. So at most one draft of a key is ever sent,
  told of, or reported as expired, and the key's fate in `Submission` is that draft's:
  `Send` submits, `Settle` settles, an answer tells, and the rest of the calls stutter.

`SwapQuote_proofs`
: `TypeCorrect` (`TypeOK`), `SwappedReviewed` (`SwappedWasReviewed`), `DoneSwapped`
  (`DoneIsSwapped`), and with `~Outlives` `Lapsed` (`LapsedIsUnsent`), `CompletedFinal`
  (`CompletedStays`) and `ImplementsSubmission` (`SubmittedOnce`). `Reviewed`: whatever a
  request holds was confirmed. `Verdicts`: a request about to answer "done" has seen the
  swap. `Locked`, `Order` and `Lapsing`: the one request that holds a quote's lock knows
  its stored status, which is written ahead of every submission. Hence a quote about to
  be sent was not sent before and was not reported as expired, and no step takes a stored
  result back, which is what `Submission` asks of the steps.

**Only model-checked.** Liveness (`QueueDrains`, `RunningEnds`, `RetryComes`; the prover
does not treat ENABLED). Every safety and action property of a passing run is a theorem,
for every value of the constants, until the events or under the hypotheses named above.

## 6. Plan

Done, each with its proofs: `PaymentLedger` and `OfflinePayments`, `SlotProvisioning`,
`Payroll`, `NoncePool`, `SettlementEngine`, `BleTransfer`, `RecurringOrder`, `SwapQuote`,
and the abstract specifications `Submission`, `PaymentBatch`, `AccountPool` and `Delivery`.

To add, in order of importance:

1. `BackupStore`: the 72 h expiry and listing, uploads that come after the deletion.
2. `ChatCredits`: consume and release over Redis with the Mongo fallback.
3. `PrivatePayment`: execute and intents, commitment levels, a `processed` signature
   that is rolled back.
4. `Payroll`: adding and deleting rows, several runs and the pruning of the oldest.
5. Request authentication, the persistent cache's in-place writes.

**Not modelled.** Components whose state is kept by third parties (trigger orders, Umbra,
Flash trade, Privy), private swaps (their envelope route is paused,
`workers/api/src/routes/swap.ts:635`), quoting and transaction-building arithmetic of
Jupiter, RWA and Umbra, read-only pass-throughs of the RPC, the UI, the language-model
plumbing, build scripts. They make up most of the repository's lines; they keep little
state of their own, or none that two actors share. `PROJECT.json` gives the reason for each.

## 7. Running it

    tlasany OfflinePayments.tla
    tlc -workers 2 -config MCOfflinePayments_crash.cfg MCOfflinePayments
    tlc -workers 2 -config Payroll_overlap.cfg Payroll
    tlc -workers 2 -config MCSwapQuote_refreshed.cfg MCSwapQuote
    tlapm OfflinePayments_proofs.tla
