-------------------------- MODULE OfflinePayments --------------------------
(***************************************************************************)
(* The sender's device, the settlement worker, the remote backup store and *)
(* the chain, from signing an offline payment to dropping it from the      *)
(* local queue (lib/offline/offline-payments.ts, offline-payment-slots.ts, *)
(* lib/payments/pending-backup-queue.ts, hooks/useSettlementEngine.ts,     *)
(* settlePrivatePayments in workers/api/src/lib/payment.ts).               *)
(*                                                                         *)
(* Three asynchronous tasks run on the device's one thread and interleave  *)
(* at every await:                                                         *)
(*   "pay"     buildAndEnqueueOfflineStablecoinPayment and the send screen *)
(*   "sync"    refreshOfflinePaymentSlotsFromBackendStatus                 *)
(*   "settle"  one run of the settlement engine                            *)
(* Everything a task keeps in a local variable across an await is a field  *)
(* of a variable below; what is persisted survives Crash.                  *)
(*                                                                         *)
(* The slots of this module are created and stay open.                     *)
(***************************************************************************)
EXTENDS Naturals

CONSTANTS
  Pay,       \* payments, identified by the transaction they sign (txId)
  Slot,      \* prepared nonce accounts of the wallet
  NoTx,      \* no payment (lockedTxId = null)
  NoSlot,    \* no nonce account
  Overlap,   \* the sets of tasks that may be in flight at the same time
  Faults,    \* whether the app may be killed, or its storage fail, at any step
  LagReads,  \* whether the status worker may answer from its 5 s cache
  Unreadable \* payments whose stored item may fail to decrypt

Tasks == {"pay", "sync", "settle"}

ASSUME OfflineAssumption ==
  /\ NoTx \notin Pay
  /\ NoSlot \notin Slot
  /\ Overlap \subseteq SUBSET Tasks
  /\ Faults \in BOOLEAN /\ LagReads \in BOOLEAN
  /\ Unreadable \subseteq Pay

VARIABLES
  \* --- the chain
  nonce,     \* nonce account -> its current durable nonce, counted from 1
  sent,      \* payments some node or the receiver holds and may submit
  landed,    \* payments executed with success
  failed,    \* payments executed with an error (the nonce advances too)
  \* --- persisted on the device
  signed,    \* payment -> account and nonce its transaction is signed over
  slot,      \* nonce account -> OfflinePaymentSlotRecord
  single,    \* the wallet's OfflineNonceState
  queue,     \* payment -> settlementStatus of its queue item, or "absent"
  uploaded,  \* payments whose item has a non-null uploadedAt
  receipt,   \* payment -> status of its send receipt, or "none"
  \* --- the worker's R2 bucket
  remote,    \* payments with a backup object
  \* --- the tasks
  pc,        \* task -> where it is suspended
  pay,       \* the payment being built: id, account, nonce
  view,      \* the refresh: provider answer, local copy, records to write
  batch,     \* the items of the settlement run
  work,      \* the items its current loop has still to visit
  item       \* the item it is at, and the records a mark has loaded

chain == <<nonce, sent, landed, failed>>
device == <<signed, slot, single, queue, uploaded, receipt>>
tasks == <<pc, pay, view, batch, work, item>>
vars == <<chain, device, remote, tasks>>

Unsigned == [slot |-> NoSlot, nonce |-> 0]
NoPay == [id |-> NoTx, slot |-> NoSlot, nonce |-> 0]
NoNonce == [status |-> "none", slot |-> NoSlot, nonce |-> 0, tx |-> NoTx]
NoItem == [id |-> NoTx, mark |-> "none", slot |-> NoSlot, nonce |-> 0, single |-> NoNonce]
FreshSlots == [s \in Slot |-> [status |-> "ready", nonce |-> 1, tx |-> NoTx]]
NoView == [seen |-> [s \in Slot |-> 1], copy |-> FreshSlots, todo |-> {}]

Nonce == Nat \ {0}
SlotStatus == {"ready", "locked", "settling", "settled"}
SlotRecord == [status : SlotStatus, nonce : Nonce, tx : Pay \cup {NoTx}]
NonceState ==
  [status : SlotStatus, slot : Slot, nonce : Nonce, tx : Pay \cup {NoTx}] \cup {NoNonce}
Payment == [id : Pay, slot : Slot, nonce : Nonce]

QueueStatus == {"absent", "pending", "confirmed", "failed"}
ReceiptStatus == {"none", "queued", "settling", "settled", "failed"}
Views == [seen : [Slot -> Nonce], copy : [Slot -> SlotRecord], todo : SUBSET Slot]
Items == [id : Pay \cup {NoTx}, mark : {"none", "settling", "settled", "locked"},
          slot : Slot \cup {NoSlot}, nonce : Nat, single : NonceState]

PayLabels == {"idle", "signing", "saved", "locked", "queued", "stored", "publish"}
SyncLabels == {"idle", "fetched", "writing"}
SettleLabels ==
  {"idle", "upload", "decrypt", "mark", "saveslot", "savesingle", "result", "reject",
   "forget", "drop", "cleanup", "cleandrop"}

Decided == landed \cup failed
Queued == {p \in Pay : queue[p] # "absent"}

(***************************************************************************)
(* Every record keeps its shape: no interleaving of marks, refreshes and   *)
(* restarts saves a slot without its nonce, shows a receipt in a status    *)
(* only slots have, or leaves a task in a loop over what is no payment.    *)
(***************************************************************************)
TypeOK ==
  /\ nonce \in [Slot -> Nonce]
  /\ sent \subseteq Pay /\ landed \subseteq Pay /\ failed \subseteq Pay
  /\ signed \in [Pay -> [slot : Slot, nonce : Nonce] \cup {Unsigned}]
  /\ slot \in [Slot -> SlotRecord]
  /\ single \in NonceState
  /\ queue \in [Pay -> QueueStatus]
  /\ uploaded \subseteq Pay /\ remote \subseteq Pay
  /\ receipt \in [Pay -> ReceiptStatus]
  /\ DOMAIN pc = Tasks
  /\ pc["pay"] \in PayLabels /\ pc["sync"] \in SyncLabels
  /\ pc["settle"] \in SettleLabels
  /\ pay \in Payment \cup {NoPay}
  /\ view \in Views
  /\ batch \subseteq Pay /\ work \subseteq Pay
  /\ item \in Items

\* A wallet with a freshly prepared pool and nothing pending.
Init ==
  /\ nonce = [s \in Slot |-> 1]
  /\ sent = {} /\ landed = {} /\ failed = {}
  /\ signed = [p \in Pay |-> Unsigned]
  /\ slot = FreshSlots
  /\ single = NoNonce
  /\ queue = [p \in Pay |-> "absent"]
  /\ uploaded = {} /\ remote = {}
  /\ receipt = [p \in Pay |-> "none"]
  /\ pc = [t \in Tasks |-> "idle"]
  /\ pay = NoPay /\ view = NoView /\ batch = {} /\ work = {} /\ item = NoItem

At(t, l) == pc[t] = l
GoTo(t, l) == pc' = [pc EXCEPT ![t] = l]

\* A task starts only when the tasks in flight are ones it may overlap.
MayStart(t) ==
  /\ At(t, "idle")
  /\ LET busy == {u \in Tasks : ~At(u, "idle")}
     IN  busy = {} \/ busy \cup {t} \in Overlap
-----------------------------------------------------------------------------
(***************************************************************************)
(* The chain.  A durable nonce transaction does not expire: whoever holds  *)
(* it may submit it until its nonce value is consumed.                     *)
(***************************************************************************)
Executable(p) ==
  /\ p \in sent
  /\ p \notin Decided
  /\ signed[p].nonce = nonce[signed[p].slot]

Land(p) ==
  /\ Executable(p)
  /\ nonce' = [nonce EXCEPT ![signed[p].slot] = @ + 1]
  /\ landed' = landed \cup {p}
  /\ UNCHANGED <<sent, failed, device, remote, tasks>>

\* For instance the sender no longer holds the amount.
FailOnChain(p) ==
  /\ Executable(p)
  /\ nonce' = [nonce EXCEPT ![signed[p].slot] = @ + 1]
  /\ failed' = failed \cup {p}
  /\ UNCHANGED <<sent, landed, device, remote, tasks>>
-----------------------------------------------------------------------------
(***************************************************************************)
(* "pay": build, sign, queue and publish one payment.                      *)
(***************************************************************************)
ReadySlots == {s \in Slot : slot[s].status = "ready"}

\* A ready slot of the pool, or else the single nonce state if it is ready.
NonceForSigning ==
  IF ReadySlots # {}
  THEN {[slot |-> s, nonce |-> slot[s].nonce] : s \in ReadySlots}
  ELSE IF single.status = "ready"
       THEN {[slot |-> single.slot, nonce |-> single.nonce]}
       ELSE {}

\* The same payment over the same nonce is the same transaction.
PayStart(p) ==
  /\ MayStart("pay")
  /\ \E n \in NonceForSigning :
       /\ signed[p] \in {Unsigned, n}
       /\ pay' = [id |-> p, slot |-> n.slot, nonce |-> n.nonce]
  /\ GoTo("pay", "signing")
  /\ UNCHANGED <<chain, device, remote, view, batch, work, item>>

\* Signed.  The single nonce state is overwritten, whatever it held.
PaySaveNonce ==
  /\ At("pay", "signing")
  /\ single' = [status |-> "ready", slot |-> pay.slot, nonce |-> pay.nonce,
                tx |-> NoTx]
  /\ GoTo("pay", "saved")
  /\ UNCHANGED <<chain, signed, slot, queue, uploaded, receipt, remote,
                 pay, view, batch, work, item>>

CanBeLocked ==
  /\ single.status \notin {"locked", "settling", "settled"}
  /\ single.slot = pay.slot /\ single.nonce = pay.nonce

PayLockNonce ==
  /\ At("pay", "saved")
  /\ IF CanBeLocked
     THEN /\ single' = [single EXCEPT !.status = "locked", !.tx = pay.id]
          /\ GoTo("pay", "locked")
          /\ UNCHANGED pay
     ELSE /\ GoTo("pay", "idle") /\ pay' = NoPay
          /\ UNCHANGED single
  /\ UNCHANGED <<chain, signed, slot, queue, uploaded, receipt, remote,
                 view, batch, work, item>>

\* The item is stored; one that waits for its remote deletion stays so.
PayEnqueue ==
  /\ At("pay", "locked")
  /\ signed' = [signed EXCEPT ![pay.id] = [slot |-> pay.slot, nonce |-> pay.nonce]]
  /\ queue' = [queue EXCEPT ![pay.id] = IF @ = "confirmed" THEN @ ELSE "pending"]
  /\ GoTo("pay", "queued")
  /\ UNCHANGED <<chain, slot, single, uploaded, receipt, remote, pay,
                 view, batch, work, item>>

ReleaseNonce ==
  /\ single' = [status |-> "ready", slot |-> pay.slot, nonce |-> pay.nonce,
                tx |-> NoTx]
  /\ GoTo("pay", "idle") /\ pay' = NoPay

\* Encrypting or storing the item throws: the nonce is released again.
PayEnqueueFails ==
  /\ At("pay", "locked")
  /\ ReleaseNonce
  /\ UNCHANGED <<chain, signed, slot, queue, uploaded, receipt, remote,
                 view, batch, work, item>>

\* The second write of the enqueue: nothing was uploaded.
PayStore ==
  /\ At("pay", "queued")
  /\ uploaded' = uploaded \ {pay.id}
  /\ GoTo("pay", "stored")
  /\ UNCHANGED <<chain, signed, slot, single, queue, receipt, remote, pay,
                 view, batch, work, item>>

\* That write throws: the nonce is released although the item is stored.
PayStoreFails ==
  /\ Faults
  /\ At("pay", "queued")
  /\ ReleaseNonce
  /\ UNCHANGED <<chain, signed, slot, queue, uploaded, receipt, remote,
                 view, batch, work, item>>

PayLockSlot ==
  /\ At("pay", "stored")
  /\ slot' = [slot EXCEPT ![pay.slot].status = "locked", ![pay.slot].tx = pay.id]
  /\ GoTo("pay", "publish")
  /\ UNCHANGED <<chain, signed, single, queue, uploaded, receipt, remote, pay,
                 view, batch, work, item>>

\* The send screen adds the receipt and hands the transaction to the
\* receiver over BLE, which may fail; an unmounted screen does neither.
PayPublish ==
  /\ At("pay", "publish")
  /\ \/ /\ receipt' = [receipt EXCEPT ![pay.id] = "queued"]
        /\ sent' \in {sent, sent \cup {pay.id}}
     \/ UNCHANGED <<receipt, sent>>
  /\ GoTo("pay", "idle") /\ pay' = NoPay
  /\ UNCHANGED <<nonce, landed, failed, signed, slot, single, queue, uploaded,
                 remote, view, batch, work, item>>
-----------------------------------------------------------------------------
(***************************************************************************)
(* "sync": the provider answer, then the local snapshot, then one write    *)
(* per slot, each computed from the snapshot.                              *)
(***************************************************************************)
Readable(s) ==
  {n \in 1..nonce[s] : n = nonce[s] \/ (LagReads /\ n = nonce[s] - 1)}

SyncFetch ==
  /\ MayStart("sync")
  /\ \E seen \in [Slot -> UNION {Readable(s) : s \in Slot}] :
       /\ \A s \in Slot : seen[s] \in Readable(s)
       /\ view' = [NoView EXCEPT !.seen = seen]
  /\ GoTo("sync", "fetched")
  /\ UNCHANGED <<chain, device, remote, pay, batch, work, item>>

SyncLoad ==
  /\ At("sync", "fetched")
  /\ view' = [view EXCEPT !.copy = slot, !.todo = Slot]
  /\ GoTo("sync", "writing")
  /\ UNCHANGED <<chain, device, remote, pay, batch, work, item>>

\* Mutants: a refresh that trusts the provider over a local lock, ...
LocalPendingUnlessLocked(record) == record.status = "settling" /\ record.tx # NoTx
\* ... or over a settlement under way.
LocalPendingUnlessSettling(record) == record.status = "locked"

\* The account exists and is ours, so the provider reports it "ready".
LocalPending(record) ==
  \/ record.status = "locked"
  \/ record.status = "settling" /\ record.tx # NoTx

\* Mutants: a refresh that clears the payment, or keeps the old nonce value.
MergedWithoutTx(record, seen) ==
  [status |-> IF LocalPending(record) THEN record.status ELSE "ready",
   nonce |-> seen, tx |-> NoTx]
MergedWithoutNonce(record, seen) ==
  [record EXCEPT !.status = IF LocalPending(record) THEN @ ELSE "ready"]

Merged(record, seen) ==
  [record EXCEPT !.status = IF LocalPending(record) THEN @ ELSE "ready",
                 !.nonce = seen]

SyncWrite(s) ==
  /\ At("sync", "writing")
  /\ s \in view.todo
  /\ slot' = [slot EXCEPT ![s] = Merged(view.copy[s], view.seen[s])]
  /\ IF view.todo = {s}
     THEN view' = NoView /\ GoTo("sync", "idle")
     ELSE view' = [view EXCEPT !.todo = @ \ {s}] /\ UNCHANGED pc
  /\ UNCHANGED <<chain, signed, single, queue, uploaded, receipt, remote, pay,
                 batch, work, item>>
-----------------------------------------------------------------------------
(***************************************************************************)
(* "settle": one run of the engine.                                        *)
(***************************************************************************)
\* Mutant: a run is worth it only while an item is pending.
SettleStartIfPending ==
  /\ MayStart("settle")
  /\ \E p \in Pay : queue[p] = "pending"
  /\ work' = {p \in Queued : p \notin uploaded /\ queue[p] # "confirmed"}
  /\ batch' = {}
  /\ GoTo("settle", "upload")
  /\ UNCHANGED <<chain, device, remote, pay, view, item>>

SettleStart ==
  /\ MayStart("settle")
  /\ Queued # {}
  /\ work' = {p \in Queued : p \notin uploaded /\ queue[p] # "confirmed"}
  /\ batch' = {}
  /\ GoTo("settle", "upload")
  /\ UNCHANGED <<chain, device, remote, pay, view, item>>

\* The upload succeeds, fails, or succeeds with its answer lost.
SettleUpload(p) ==
  /\ At("settle", "upload")
  /\ p \in work /\ work' = work \ {p}
  /\ \/ /\ remote' = remote \cup {p}
        /\ uploaded' \in {uploaded, uploaded \cup {p}}
     \/ UNCHANGED <<remote, uploaded>>
  /\ UNCHANGED <<chain, signed, slot, single, queue, receipt, pc, pay, view, batch, item>>

SettleSelect ==
  /\ At("settle", "upload") /\ work = {}
  /\ work' = {p \in Queued : queue[p] # "confirmed"}
  /\ GoTo("settle", "decrypt")
  /\ UNCHANGED <<chain, device, remote, pay, view, batch, item>>

\* The items that were decrypted are the ones the run submits.
SettleDecrypted ==
  /\ At("settle", "decrypt")
  /\ batch' = work
  /\ GoTo("settle", "mark")
  /\ UNCHANGED <<chain, device, remote, pay, view, work, item>>

\* The signing material is refused: the run throws before it submits.
SettleNoKey ==
  /\ At("settle", "upload") /\ work = {}
  /\ \E p \in Queued : queue[p] # "confirmed"
  /\ GoTo("settle", "idle")
  /\ UNCHANGED <<chain, device, remote, pay, view, batch, work, item>>

(***************************************************************************)
(* A mark writes the status of the one slot, then of the nonce state, that *)
(* carry the payment's id.  Each is loaded first and saved whole; a mark   *)
(* that throws is swallowed and the run goes on.                           *)
(***************************************************************************)
SlotsOf(p) ==
  LET own == {s \in Slot : slot[s].tx = p} IN IF own = {} THEN {NoSlot} ELSE own

MarkLoad(p, mark) ==
  /\ p \in work /\ work' = work \ {p}
  /\ \E s \in SlotsOf(p) :
       item' = [NoItem EXCEPT !.id = p, !.mark = mark, !.slot = s,
                              !.nonce = IF s = NoSlot THEN 0 ELSE slot[s].nonce]
  /\ GoTo("settle", "saveslot")
  /\ UNCHANGED <<chain, device, remote, pay, view, batch>>

MarkSlot ==
  /\ At("settle", "saveslot")
  /\ \/ slot' = [s \in Slot |->
                   IF s = item.slot
                   THEN [status |-> item.mark, nonce |-> item.nonce, tx |-> item.id]
                   ELSE slot[s]]
     \/ Faults /\ UNCHANGED slot
  /\ item' = [item EXCEPT !.single = single]
  /\ GoTo("settle", "savesingle")
  /\ UNCHANGED <<chain, signed, single, queue, uploaded, receipt, remote, pay,
                 view, batch, work>>

AfterMark == [settling |-> "mark", settled |-> "forget", locked |-> "reject"]
\* Mutant: the receipt takes the slot's status.
ReceiptMarkOfSlot == [settling |-> "settling", settled |-> "settled", locked |-> "locked"]
ReceiptMark == [settling |-> "settling", settled |-> "settled", locked |-> "failed"]

\* Mutant: the nonce state is marked whoever holds it.
MarkSingleOfAnyone ==
  /\ At("settle", "savesingle")
  /\ item.single # NoNonce
  /\ single' = [item.single EXCEPT !.status = item.mark]
  /\ receipt' = [receipt EXCEPT ![item.id] =
                   IF @ = "none" THEN @ ELSE ReceiptMark[item.mark]]
  /\ item' = IF item.mark = "settling" THEN NoItem ELSE [NoItem EXCEPT !.id = item.id]
  /\ GoTo("settle", AfterMark[item.mark])
  /\ UNCHANGED <<chain, signed, slot, queue, uploaded, remote, pay, view,
                 batch, work>>

ReceiptMarked ==
  [receipt EXCEPT ![item.id] = IF @ = "none" THEN @ ELSE ReceiptMark[item.mark]]

\* The receipt, if there is one, follows; what throws skips the rest of it.
MarkSingle ==
  /\ At("settle", "savesingle")
  /\ \/ /\ single' = IF item.single.tx = item.id
                     THEN [item.single EXCEPT !.status = item.mark]
                     ELSE single
        /\ receipt' = ReceiptMarked \/ (Faults /\ UNCHANGED receipt)
     \/ Faults /\ UNCHANGED <<single, receipt>>
  /\ item' = IF item.mark = "settling" THEN NoItem ELSE [NoItem EXCEPT !.id = item.id]
  /\ GoTo("settle", AfterMark[item.mark])
  /\ UNCHANGED <<chain, signed, slot, queue, uploaded, remote, pay, view,
                 batch, work>>

\* A stored item that cannot be decrypted is marked and failed unsubmitted.
SettleUnreadable(p) ==
  /\ At("settle", "decrypt")
  /\ p \in Unreadable
  /\ MarkLoad(p, "locked")

SettleMark(p) == At("settle", "mark") /\ MarkLoad(p, "settling")

\* The worker broadcasts every transaction and answers.
SettleSubmit ==
  /\ At("settle", "mark") /\ work = {}
  /\ sent' = sent \cup batch
  /\ work' = batch
  /\ GoTo("settle", "result")
  /\ UNCHANGED <<nonce, landed, failed, device, remote, pay, view, batch, item>>

\* The call throws, after it broadcast some of them: the run is over.
SettleSubmitFails ==
  /\ At("settle", "mark") /\ work = {} /\ batch # {}
  /\ \E some \in SUBSET batch : sent' = sent \cup some
  /\ GoTo("settle", "idle") /\ batch' = {}
  /\ UNCHANGED <<nonce, landed, failed, device, remote, pay, view, work, item>>

\* The settlement status of a queued item; a dropped item stays dropped.
SetStatus(p, status) ==
  queue' = [queue EXCEPT ![p] = IF @ = "absent" THEN @ ELSE status]

\* Neither the worker nor the client's own query saw a verdict.
SettleUnknown(p) ==
  /\ At("settle", "result")
  /\ p \in work /\ work' = work \ {p}
  /\ SetStatus(p, "pending")
  /\ UNCHANGED <<chain, signed, slot, single, uploaded, receipt, remote,
                 pc, pay, view, batch, item>>

\* The signature is on chain with an error: kept, and retried by later runs.
SettleRejected(p) ==
  /\ At("settle", "result")
  /\ p \in failed
  /\ MarkLoad(p, "locked")

\* Then back to the loop that gave it up: only the later one has a batch.
SettleReject(p) ==
  /\ At("settle", "reject")
  /\ p = item.id /\ item' = NoItem
  /\ SetStatus(p, "failed")
  /\ GoTo("settle", IF p \in batch THEN "result" ELSE "decrypt")
  /\ UNCHANGED <<chain, signed, slot, single, uploaded, receipt, remote,
                 pay, view, batch, work>>

\* Mutant: an accepted broadcast is taken for a confirmation.
SettleConfirmedIfSent(p) ==
  /\ At("settle", "result")
  /\ p \in sent
  /\ MarkLoad(p, "settled")

\* The signature is on chain: bookkeeping first, then the remote delete.
SettleConfirmed(p) ==
  /\ At("settle", "result")
  /\ p \in landed
  /\ MarkLoad(p, "settled")

SettleForget(p) ==
  /\ At("settle", "forget")
  /\ p = item.id
  /\ remote' = remote \ {p}
  /\ GoTo("settle", "drop")
  /\ UNCHANGED <<chain, device, pay, view, batch, work, item>>

\* Mutant: the item is dropped although its backup may still exist.
SettleForgetFailsAndDrops(p) ==
  /\ At("settle", "forget")
  /\ p = item.id /\ item' = NoItem
  /\ remote' \in {remote, remote \ {p}}
  /\ queue' = [queue EXCEPT ![p] = "absent"]
  /\ GoTo("settle", "result")
  /\ UNCHANGED <<chain, signed, slot, single, uploaded, receipt, pay, view,
                 batch, work>>

\* The remote delete throws, possibly after it took effect.
SettleForgetFails(p) ==
  /\ At("settle", "forget")
  /\ p = item.id /\ item' = NoItem
  /\ remote' \in {remote, remote \ {p}}
  /\ SetStatus(p, "confirmed")
  /\ GoTo("settle", "result")
  /\ UNCHANGED <<chain, signed, slot, single, uploaded, receipt, pay, view,
                 batch, work>>

DropItem(p, next) ==
  /\ p = item.id /\ item' = NoItem
  /\ queue' = [queue EXCEPT ![p] = "absent"]
  /\ uploaded' = uploaded \ {p}
  /\ GoTo("settle", next)
  /\ UNCHANGED <<chain, signed, slot, single, receipt, remote, pay, view,
                 batch, work>>

SettleDrop(p) == At("settle", "drop") /\ DropItem(p, "result")

\* Mutant: the cleanup visits every item of the queue.
SettleCleanupAll ==
  /\ At("settle", "result") /\ work = {}
  /\ work' = Queued
  /\ batch' = {}
  /\ GoTo("settle", "cleanup")
  /\ UNCHANGED <<chain, device, remote, pay, view, item>>

\* Items confirmed earlier: their receipts, then their remote backups.
SettleCleanup ==
  /\ At("settle", "result") /\ work = {}
  /\ work' = {p \in Pay : queue[p] = "confirmed"}
  /\ batch' = {}
  /\ receipt' = [p \in Pay |->
                   IF p \in work' /\ receipt[p] # "none" THEN "settled" ELSE receipt[p]]
  /\ GoTo("settle", "cleanup")
  /\ UNCHANGED <<chain, signed, slot, single, queue, uploaded, remote, pay,
                 view, item>>

CleanupForget(p) ==
  /\ At("settle", "cleanup")
  /\ p \in work /\ work' = work \ {p}
  /\ item' = [NoItem EXCEPT !.id = p]
  /\ remote' = remote \ {p}
  /\ GoTo("settle", "cleandrop")
  /\ UNCHANGED <<chain, device, pay, view, batch>>

CleanupForgetFails(p) ==
  /\ At("settle", "cleanup")
  /\ p \in work /\ work' = work \ {p}
  /\ remote' \in {remote, remote \ {p}}
  /\ UNCHANGED <<chain, device, pc, pay, view, batch, item>>

CleanupDrop(p) == At("settle", "cleandrop") /\ DropItem(p, "cleanup")

SettleEnd ==
  /\ At("settle", "cleanup") /\ work = {}
  /\ GoTo("settle", "idle")
  /\ UNCHANGED <<chain, device, remote, pay, view, batch, work, item>>
-----------------------------------------------------------------------------
\* The app is killed: what it persisted, the worker's store and the chain stay.
Crash ==
  /\ Faults
  /\ \E t \in Tasks : ~At(t, "idle")
  /\ pc' = [t \in Tasks |-> "idle"]
  /\ pay' = NoPay /\ view' = NoView
  /\ batch' = {} /\ work' = {} /\ item' = NoItem
  /\ UNCHANGED <<chain, device, remote>>

ChainStep == \E p \in Pay : Land(p) \/ FailOnChain(p)

PayStep ==
  \/ \E p \in Pay : PayStart(p)
  \/ PaySaveNonce \/ PayLockNonce \/ PayEnqueue \/ PayEnqueueFails
  \/ PayStore \/ PayStoreFails \/ PayLockSlot \/ PayPublish

SyncStep == SyncFetch \/ SyncLoad \/ \E s \in Slot : SyncWrite(s)

SettleStep ==
  \/ SettleStart \/ SettleSelect \/ SettleNoKey \/ SettleDecrypted
  \/ SettleSubmit \/ SettleSubmitFails \/ MarkSlot \/ MarkSingle \/ SettleCleanup \/ SettleEnd
  \/ \E p \in Pay :
       \/ SettleUpload(p) \/ SettleUnreadable(p) \/ SettleMark(p)
       \/ SettleUnknown(p) \/ SettleRejected(p) \/ SettleReject(p)
       \/ SettleConfirmed(p)
       \/ SettleForget(p) \/ SettleForgetFails(p) \/ SettleDrop(p)
       \/ CleanupForget(p) \/ CleanupForgetFails(p) \/ CleanupDrop(p)

Next == ChainStep \/ PayStep \/ SyncStep \/ SettleStep \/ Crash

Spec == Init /\ [][Next]_vars
(***************************************************************************)
(* Fairness.  A task that was started runs on; a settlement run is always  *)
(* triggered again while the queue is not empty (launch, foreground,       *)
(* network and queue triggers, and the engine's own backoff timer); the    *)
(* network and the worker answer again and again, so a call that is        *)
(* retried for ever succeeds at last; the chain executes what it holds.    *)
(***************************************************************************)
PayProgress ==
  PaySaveNonce \/ PayLockNonce \/ PayEnqueue \/ PayStore \/ PayLockSlot \/ PayPublish
SyncProgress == SyncLoad \/ \E s \in Slot : SyncWrite(s)

Fairness ==
  /\ WF_vars(ChainStep)
  /\ WF_vars(PayProgress) /\ WF_vars(SyncProgress)
  /\ WF_vars(SettleStep /\ ~At("settle", "idle"))
  /\ SF_vars(SettleStart) /\ SF_vars(SettleSelect) /\ SF_vars(SettleSubmit)
  /\ SF_vars(\E p \in Pay : SettleConfirmed(p))
  /\ SF_vars(\E p \in Pay : SettleForget(p) \/ CleanupForget(p))

LiveSpec == Spec /\ Fairness
-----------------------------------------------------------------------------
(***************************************************************************)
(* A payment whose signed transaction left the builder stays in the local  *)
(* queue until the chain executed it: the delete of the backup, the drop   *)
(* of the item and every failure between them never lose it (the settle    *)
(* loop of settleQueuedPendingPayments and cleanupConfirmedPendingBackups).*)
(***************************************************************************)
NoPaymentForgotten ==
  \A p \in Pay : signed[p] # Unsigned /\ queue[p] = "absent" => p \in landed

(***************************************************************************)
(* The device never believes in a settlement the chain does not know: a    *)
(* settled slot or nonce state carries a landed payment, and a receipt     *)
(* shown as settled, or an item that only awaits its remote delete, is of  *)
(* a landed payment.  Marks write records loaded before other tasks ran.   *)
(***************************************************************************)
SettledIsOnChain ==
  /\ \A s \in Slot : slot[s].status = "settled" => slot[s].tx \in landed
  /\ single.status = "settled" => single.tx \in landed
  /\ \A p \in Pay : receipt[p] = "settled" \/ queue[p] = "confirmed" => p \in landed

(***************************************************************************)
(* The worker holds a backup only of items the device still queues: no     *)
(* upload, repeated upload or lost answer leaves an orphan behind.         *)
(***************************************************************************)
BackupOnlyWhileQueued == remote \subseteq Queued

(***************************************************************************)
(* Device, worker and chain together implement the abstract ledger.        *)
(***************************************************************************)
Ledger == INSTANCE PaymentLedger WITH tracked <- Queued
LedgerSpec == Ledger!Spec

Open(p) == queue[p] # "absent" /\ p \notin Decided

(***************************************************************************)
(* Two payments that both await settlement never share a nonce value: the  *)
(* chain would execute only one of them.                                   *)
(***************************************************************************)
NoncesExclusive ==
  \A p, q \in Pay : p # q /\ Open(p) /\ Open(q) => signed[p] # signed[q]

(***************************************************************************)
(* Once its build is over, a payment that awaits settlement holds the slot *)
(* it is signed over, so that the slot is not offered to another payment   *)
(* whatever refreshes and marks do.                                        *)
(***************************************************************************)
OpenPaymentHoldsItsSlot ==
  \A p \in Pay :
    Open(p) /\ pay.id # p =>
      LET record == slot[signed[p].slot]
      IN  record.tx = p /\ record.status \in {"locked", "settling"}

(***************************************************************************)
(* No step gives back a slot whose payment awaits settlement (the          *)
(* localPending rule of syncOfflinePaymentSlotsFromBackendStatus).         *)
(***************************************************************************)
PinnedSlots ==
  {s \in Slot : slot[s].tx # NoTx /\ Open(slot[s].tx)
                /\ slot[s].status \in {"locked", "settling"}}

PendingSlotsPinned ==
  [][\A s \in PinnedSlots : slot'[s].tx = slot[s].tx /\ slot'[s].status # "ready"]_vars

(***************************************************************************)
(* A payment is queued only over the value its nonce account has at that   *)
(* moment: a consumed value is refreshed before the slot is offered again  *)
(* (the readiness rule of getOfflineNonceReadiness).                       *)
(***************************************************************************)
SignedOnCurrentNonce ==
  [][\A p \in Pay : signed'[p] # signed[p] =>
       signed'[p].nonce = nonce[signed'[p].slot]]_vars

(***************************************************************************)
(* Every queued payment leaves the queue or is rejected by the chain,      *)
(* whatever call of the settlement runs fails in between (the retries of   *)
(* useSettlementEngine, cleanupConfirmedPendingBackups), and whichever     *)
(* other items of the batch cannot be read.                                *)
(***************************************************************************)
QueueDrains ==
  \A p \in Pay \ Unreadable : queue[p] # "absent" ~> queue[p] = "absent" \/ p \in failed
=============================================================================
