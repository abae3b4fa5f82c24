-------------------------- MODULE SlotProvisioning --------------------------
(***************************************************************************)
(* The life of the wallet's nonce accounts ("slots"): created for rent,    *)
(* listed by the worker's pool, indexed on the device, used by payments,   *)
(* closed to recover the rent (prepareOfflinePaymentSlots,                 *)
(* reclaimOfflinePaymentSlotRent and the status refresh of                 *)
(* lib/offline/offline-payment-slots.ts; prepareNoncePool and              *)
(* getNoncePoolStatus of workers/api/src/lib/offline.ts).                  *)
(*                                                                         *)
(* Three tasks of the device interleave at their awaits:                   *)
(*   "poll"     the provider status query of useOfflinePaymentSlots        *)
(*   "prepare"  its prepare mutation                                       *)
(*   "reclaim"  its reclaim mutation                                       *)
(* A payment takes and leaves a slot in one step each (OfflinePayments     *)
(* has the steps in between); an account key is generated once and lives   *)
(* in memory only.                                                         *)
(***************************************************************************)
EXTENDS Naturals, FiniteSets

CONSTANTS
  Account,     \* the nonce account keys the device may ever generate
  NoAccount,
  MinSlots, MaxSlots,  \* OFFLINE_SLOT_MIN_COUNT and OFFLINE_SLOT_MAX_COUNT
  Target,      \* the user's targetSlotCount
  Overlap,     \* sets of tasks, and "pay", that may be in flight together
  Interrupted, \* tasks that may be killed, or lose the answer to a broadcast
  EarlyReads   \* whether accounts are read while a creation is undecided

Tasks == {"poll", "prepare", "reclaim"}

ASSUME SlotAssumption ==
  /\ NoAccount \notin Account /\ IsFiniteSet(Account)
  /\ MinSlots \in Nat /\ MaxSlots \in Nat /\ Target \in MinSlots..MaxSlots
  /\ Interrupted \subseteq Tasks
  /\ EarlyReads \in BOOLEAN

VARIABLES
  \* --- the chain
  create,    \* account -> its creation: "none", "sent", "landed" or "lost"
  close,     \* account -> its last close, likewise, or "failed"
  \* --- the worker's Redis set
  pool,      \* the accounts the worker knows
  \* --- persisted on the device
  index,     \* OfflinePaymentSlotIndex.nonceAccounts
  record,    \* account -> OfflinePaymentSlotRecord
  owed,      \* accounts a payment that awaits settlement is signed over
  \* --- the tasks
  pc,        \* task -> where it is suspended
  view,      \* task -> what it has read and has still to visit
  fresh,     \* accounts the preparation generated
  submitted, \* those of them whose creation was broadcast with an answer
  closes,    \* accounts whose close the reclaim broadcast with an answer
  hand       \* the account a task has broadcast for, with the status to save

chain == <<create, close>>
device == <<index, record, owed>>
locals == <<fresh, submitted, closes, hand>>
vars == <<chain, pool, device, pc, view, locals>>

\* legible: nonceAuthority is a string, without which a record does not load;
\* lamports: "null", "rent", or "zero" once closed;
\* tx: lockedTxId # null; sig: what pendingSignature is the signature of.
Record ==
  [status : {"none", "preparing", "settling", "ready", "locked", "settled",
             "closing", "closed", "error"},
   legible : BOOLEAN, lamports : {"null", "rent", "zero"}, tx : BOOLEAN,
   sig : {"none", "create", "close"}]

NoRecord == [status |-> "none", legible |-> FALSE, lamports |-> "null",
             tx |-> FALSE, sig |-> "none"]
NoView == [seen |-> [a \in Account |-> "unlisted"], known |-> {},
           copy |-> [a \in Account |-> NoRecord], names |-> {}, todo |-> {},
           next |-> "idle"]
NoHand == [account |-> NoAccount, status |-> "none"]

View == [seen : [Account -> {"unlisted", "missing", "ready"}],
         known : SUBSET Account, copy : [Account -> Record],
         names : SUBSET Account, todo : SUBSET Account,
         next : {"idle", "decide", "select"}]

Refreshing == {"idle", "read", "answered", "indexed", "loaded", "writing"}
Labels ==
  [poll |-> Refreshing,
   prepare |-> Refreshing \cup {"fallback", "decide", "indexing", "request",
                                "broadcast", "note", "undo", "undoing"},
   reclaim |-> Refreshing \cup {"fallback", "select", "broadcast", "note",
                                "closed", "error"}]
AfterRefresh ==
  [poll |-> {"idle"}, prepare |-> {"idle", "decide"}, reclaim |-> {"idle", "select"}]

Shapes ==
  /\ create \in [Account -> {"none", "sent", "landed", "lost"}]
  /\ close \in [Account -> {"none", "sent", "landed", "lost", "failed"}]
  /\ pool \subseteq Account
  /\ index \subseteq Account
  /\ record \in [Account -> Record]
  /\ owed \subseteq Account
  /\ DOMAIN pc = Tasks /\ \A t \in Tasks : pc[t] \in Labels[t]
  /\ view \in [Tasks -> View]
  /\ \A t \in Tasks : view[t].next \in AfterRefresh[t]
  /\ fresh \subseteq Account /\ submitted \subseteq Account
  /\ closes \subseteq Account
  /\ hand \in [Tasks -> [account : Account \cup {NoAccount},
                         status : {"none", "settling", "closing", "error"}]]

\* The preparation broadcasts the creations of accounts it generated, once.
Preparing ==
  /\ submitted \subseteq fresh
  /\ pc["prepare"] \in {"broadcast", "note"} =>
       view["prepare"].todo \subseteq fresh \ submitted
  /\ pc["prepare"] \in {"indexing", "request"} => submitted = {}

(***************************************************************************)
(* Every record keeps its shape and every task holds what it was given; a  *)
(* preparation knows at every await which of the accounts it generated     *)
(* were broadcast: those it may not take back.                             *)
(***************************************************************************)
TypeOK == Shapes /\ Preparing

\* A wallet that has never prepared a slot.
Init ==
  /\ create = [a \in Account |-> "none"]
  /\ close = [a \in Account |-> "none"]
  /\ pool = {}
  /\ index = {} /\ record = [a \in Account |-> NoRecord] /\ owed = {}
  /\ pc = [t \in Tasks |-> "idle"]
  /\ view = [t \in Tasks |-> NoView]
  /\ fresh = {} /\ submitted = {} /\ closes = {}
  /\ hand = [t \in Tasks |-> NoHand]

At(t, l) == pc[t] = l
GoTo(t, l) == pc' = [pc EXCEPT ![t] = l]
Busy == {t \in Tasks : ~At(t, "idle")}
MayStart(t) == t \notin Busy /\ (Busy = {} \/ Busy \cup {t} \in Overlap)

\* Nobody has heard of the key yet.
Unused ==
  {a \in Account :
     /\ create[a] = "none"
     /\ a \notin pool \cup index \cup fresh
     /\ record[a] = NoRecord
     /\ \A t \in Tasks : view[t].seen[a] = "unlisted" /\ a \notin view[t].names}
-----------------------------------------------------------------------------
(***************************************************************************)
(* The chain.                                                              *)
(***************************************************************************)
OnChain(a) == create[a] = "landed" /\ close[a] # "landed"

\* The wallet pays the account's rent; or the transaction fails or expires.
CreateDecided(a) ==
  /\ create[a] = "sent"
  /\ \E verdict \in {"landed", "lost"} : create' = [create EXCEPT ![a] = verdict]
  /\ UNCHANGED <<close, pool, device, pc, view, locals>>

\* The rent returns to the wallet; or the close expires.
CloseDecided(a) ==
  /\ close[a] = "sent"
  /\ \E verdict \in {"landed", "lost"} : close' = [close EXCEPT ![a] = verdict]
  /\ UNCHANGED <<create, pool, device, pc, view, locals>>

\* The close is executed with an error.
CloseFails(a) ==
  /\ "reclaim" \in Interrupted
  /\ close[a] = "sent"
  /\ close' = [close EXCEPT ![a] = "failed"]
  /\ UNCHANGED <<create, pool, device, pc, view, locals>>
-----------------------------------------------------------------------------
(***************************************************************************)
(* Loading the snapshot drops the illegible and the ephemeral records from *)
(* the index, and deletes the latter.                                      *)
(***************************************************************************)
Ephemeral(r) ==
  r.status = "error" /\ r.lamports = "null" /\ r.sig = "none" /\ ~r.tx

Kept(accounts, records) ==
  {a \in accounts : records[a].legible /\ ~Ephemeral(records[a])}

Load(accounts, records) ==
  /\ index' = Kept(accounts, records)
  /\ record' = [a \in Account |->
                  IF a \in accounts /\ records[a].legible /\ Ephemeral(records[a])
                  THEN NoRecord ELSE records[a]]

(***************************************************************************)
(* refreshOfflinePaymentSlotsFromBackendStatus, run by every task.         *)
(***************************************************************************)
\* The first load; "next" is where the task goes on after the refresh.
Refresh(t, next) ==
  /\ Load(index, record)
  /\ view' = [view EXCEPT ![t] = [NoView EXCEPT !.next = next]]
  /\ GoTo(t, "read")

Start(t, next) ==
  /\ MayStart(t)
  /\ Refresh(t, next)
  /\ UNCHANGED <<chain, pool, owed, locals>>

\* Accounts the chain has still to decide on, or to hear of.
Undecided ==
  {a \in pool : create[a] = "sent"}
    \cup (IF pc["prepare"] \in {"broadcast", "note"} THEN fresh \ submitted ELSE {})

\* An account read less than 5 seconds ago may be answered from the cache.
Answers(a) ==
  IF OnChain(a) THEN {"ready"}
  ELSE IF close[a] = "landed" THEN {"missing", "ready"} ELSE {"missing"}

\* What may be left of the pool when the missing accounts are forgotten.
Pruned ==
  {kept \in SUBSET pool :
     \A a \in pool : (IF a \in kept THEN "ready" ELSE "missing") \in Answers(a)}

\* The worker reads every account of the pool and forgets the missing ones.
Read(t) ==
  /\ At(t, "read")
  /\ EarlyReads \/ Undecided = {}
  /\ \E seen \in [Account -> {"unlisted", "missing", "ready"}] :
       /\ \A a \in Account :
            IF a \in pool THEN seen[a] \in Answers(a) ELSE seen[a] = "unlisted"
       /\ pool' = {a \in pool : seen[a] = "ready"}
       /\ view' = [view EXCEPT ![t].seen = seen]
  /\ GoTo(t, "answered")
  /\ UNCHANGED <<chain, device, locals>>

\* No answer arrives, although the worker may have forgotten some.
ReadFails(t) ==
  /\ At(t, "read")
  /\ \/ UNCHANGED pool
     \/ (EarlyReads \/ Undecided = {}) /\ pool' \in Pruned
  /\ IF t = "poll"
     THEN GoTo(t, "idle") /\ view' = [view EXCEPT ![t] = NoView]
     ELSE GoTo(t, "fallback") /\ UNCHANGED view
  /\ UNCHANGED <<chain, device, locals>>

\* The local snapshot: first the index, ...
SyncIndex(t) ==
  /\ At(t, "answered")
  /\ view' = [view EXCEPT ![t].known = index]
  /\ GoTo(t, "indexed")
  /\ UNCHANGED <<chain, pool, device, locals>>

\* A preparation nobody runs any more is given up after ten minutes.
Abandoned(known) == {a \in known \ fresh : record[a].status = "preparing"}

\* ... then the records it names; the index is saved only if some were dropped.
SyncLoad(t) ==
  /\ At(t, "indexed")
  /\ LET named == view[t].known
         known == Kept(named, record)
         listed == {a \in Account : view[t].seen[a] # "unlisted"}
     IN  /\ IF known = named THEN UNCHANGED <<index, record>> ELSE Load(named, record)
         /\ \E expired \in SUBSET Abandoned(known) :
              view' = [view EXCEPT
                ![t].known = {}, ![t].todo = listed \cup expired,
                ![t].copy = [a \in Account |->
                  IF a \in known \cap (listed \cup expired) THEN record[a] ELSE NoRecord]]
  /\ GoTo(t, "loaded")
  /\ UNCHANGED <<chain, pool, owed, locals>>

\* The index the merged records will be added to.
SyncUpsert(t) ==
  /\ At(t, "loaded")
  /\ view' = [view EXCEPT ![t].names = index]
  /\ GoTo(t, "writing")
  /\ UNCHANGED <<chain, pool, device, locals>>

\* Mutant: a slot being closed takes the provider's status.
LocalPendingUnlessClosing(r, seen) ==
  \/ r.status \in {"locked", "closed"}
  \/ r.status = "settling" /\ (r.tx \/ seen # "ready")

\* The statuses a provider answer does not overrule.
LocalPending(r, seen) ==
  \/ r.status \in {"locked", "closing", "closed"}
  \/ r.status = "settling" /\ (r.tx \/ seen # "ready")
  \/ r.status = "preparing" /\ seen # "ready"

\* The worker has no authority to report for an account it does not find.
Merged(r, seen) ==
  IF seen = "unlisted" THEN [r EXCEPT !.status = "error"]
  ELSE [status |-> IF LocalPending(r, seen) THEN r.status
                   ELSE IF seen = "ready" THEN "ready" ELSE "error",
        legible |-> seen = "ready",
        lamports |-> IF seen = "ready" THEN "rent" ELSE "null",
        tx |-> r.tx, sig |-> r.sig]

SyncWrite(t, a) ==
  /\ At(t, "writing")
  /\ a \in view[t].todo
  /\ record' = [record EXCEPT ![a] = Merged(view[t].copy[a], view[t].seen[a])]
  /\ view' = [view EXCEPT ![t].todo = @ \ {a}, ![t].names = @ \cup {a}]
  /\ UNCHANGED <<chain, pool, index, owed, pc, locals>>

\* Where a task goes on with the snapshot it has just loaded.
GoOn(t, accounts) ==
  /\ GoTo(t, view[t].next)
  /\ view' = [view EXCEPT ![t] =
                IF view[t].next = "idle" THEN NoView
                ELSE [NoView EXCEPT !.known = Kept(accounts, record), !.copy = record]]

SyncSave(t) ==
  /\ At(t, "writing") /\ view[t].todo = {}
  /\ Load(view[t].names, record)
  /\ GoOn(t, view[t].names)
  /\ UNCHANGED <<chain, pool, owed, locals>>

\* The refresh threw: the task goes on with the local snapshot.
Fallback(t) ==
  /\ At(t, "fallback")
  /\ Load(index, record)
  /\ GoOn(t, index)
  /\ UNCHANGED <<chain, pool, owed, locals>>
-----------------------------------------------------------------------------
(***************************************************************************)
(* "prepare": generate keys, announce them, broadcast their creations.     *)
(***************************************************************************)
Active(v) ==
  {a \in v.known :
     v.copy[a].status \in {"ready", "locked", "settling", "preparing", "closing"}}

\* All known accounts but the unfunded failures: the closed ones count too.
CapacityUsed(v) ==
  {a \in v.known : v.copy[a].lamports # "null" \/ v.copy[a].status # "error"}

RequestCount(v) ==
  IF v.known = {} THEN Target
  ELSE IF Cardinality(Active(v)) < Target THEN Target - Cardinality(Active(v)) ELSE 0

Save(a, r) == record' = [record EXCEPT ![a] = r]

Created(status, sig) ==
  [status |-> status, legible |-> TRUE, lamports |-> "null", tx |-> FALSE, sig |-> sig]

EndPrepare ==
  /\ GoTo("prepare", "idle")
  /\ view' = [view EXCEPT !["prepare"] = NoView]
  /\ fresh' = {} /\ submitted' = {}
  /\ hand' = [hand EXCEPT !["prepare"] = NoHand]

\* Nothing to request, a full pool, or (a bound of the model) no keys left.
PrepareNothing ==
  /\ At("prepare", "decide")
  /\ LET v == view["prepare"]
     IN  \/ RequestCount(v) = 0
         \/ Cardinality(CapacityUsed(v)) >= MaxSlots
         \/ RequestCount(v) > Cardinality(Unused)
  /\ EndPrepare
  /\ UNCHANGED <<chain, pool, device, closes>>

\* The records of the new accounts are saved before the index.
PrepareGenerate ==
  /\ At("prepare", "decide")
  /\ LET v == view["prepare"]
     IN  /\ RequestCount(v) > 0
         /\ Cardinality(CapacityUsed(v)) < MaxSlots
         /\ \E keys \in SUBSET Unused :
              /\ Cardinality(keys) = RequestCount(v)
              /\ fresh' = keys /\ submitted' = {}
              /\ record' = [a \in Account |->
                   IF a \in keys THEN Created("preparing", "none") ELSE record[a]]
              /\ view' = [view EXCEPT !["prepare"] = [NoView EXCEPT !.names = index \cup keys]]
  /\ GoTo("prepare", "indexing")
  /\ UNCHANGED <<chain, pool, index, owed, closes, hand>>

PrepareIndex ==
  /\ At("prepare", "indexing")
  /\ Load(view["prepare"].names, record)
  /\ GoTo("prepare", "request")
  /\ UNCHANGED <<chain, pool, owed, view, locals>>

\* Mutant: the worker does not count what the pool holds already.
PoolFitsAlone(accounts) == Cardinality(fresh) \in MinSlots..MaxSlots

PoolFits(accounts) == Cardinality(accounts \cup fresh) \in MinSlots..MaxSlots

\* Mutant: the worker answers without listing the new accounts.
PrepareRequestUnlisted ==
  /\ At("prepare", "request")
  /\ EarlyReads \/ Undecided = {}
  /\ \E kept \in Pruned : PoolFits(kept) /\ pool' = kept
  /\ view' = [view EXCEPT !["prepare"] = [NoView EXCEPT !.todo = fresh]]
  /\ GoTo("prepare", "broadcast")
  /\ UNCHANGED <<chain, device, locals>>

\* The worker forgets the missing accounts, checks the bounds and lists the new.
PrepareRequest ==
  /\ At("prepare", "request")
  /\ EarlyReads \/ Undecided = {}
  /\ \E existing \in Pruned : PoolFits(existing) /\ pool' = existing \cup fresh
  /\ view' = [view EXCEPT !["prepare"] = [NoView EXCEPT !.todo = fresh]]
  /\ GoTo("prepare", "broadcast")
  /\ UNCHANGED <<chain, device, locals>>

\* The worker refuses, or its answer is lost.
PrepareRefused ==
  /\ At("prepare", "request")
  /\ \/ UNCHANGED pool
     \/ /\ EarlyReads \/ Undecided = {}
        /\ \E existing \in Pruned :
             \/ pool' = existing
             \/ PoolFits(existing) /\ pool' = existing \cup fresh
  /\ GoTo("prepare", "undo")
  /\ UNCHANGED <<chain, device, view, locals>>

PrepareBroadcast(a) ==
  /\ At("prepare", "broadcast")
  /\ a \in view["prepare"].todo
  /\ view' = [view EXCEPT !["prepare"].todo = @ \ {a}]
  /\ create' = [create EXCEPT ![a] = "sent"]
  /\ submitted' = submitted \cup {a}
  /\ hand' = [hand EXCEPT !["prepare"] = [account |-> a, status |-> "settling"]]
  /\ GoTo("prepare", "note")
  /\ UNCHANGED <<close, pool, device, fresh, closes>>

PrepareNote ==
  /\ At("prepare", "note")
  /\ Save(hand["prepare"].account, Created("settling", "create"))
  /\ hand' = [hand EXCEPT !["prepare"] = NoHand]
  /\ GoTo("prepare", "broadcast")
  /\ UNCHANGED <<chain, pool, index, owed, view, fresh, submitted, closes>>

\* A signature is refused, or a broadcast throws, possibly after it went out.
PrepareThrows ==
  /\ At("prepare", "broadcast")
  /\ \E a \in view["prepare"].todo :
       \/ UNCHANGED create
       \/ /\ "prepare" \in Interrupted
          /\ create' = [create EXCEPT ![a] = "sent"]
  /\ GoTo("prepare", "undo")
  /\ UNCHANGED <<close, pool, device, view, locals>>

\* Mutant: the set of submitted accounts is kept.
PrepareWaitedKeeping ==
  /\ At("prepare", "broadcast") /\ view["prepare"].todo = {}
  /\ Refresh("prepare", "idle")
  /\ fresh' = {}
  /\ UNCHANGED <<chain, pool, owed, submitted, closes, hand>>

\* All were broadcast; the wait for confirmations may end with any outcome.
PrepareWaited ==
  /\ At("prepare", "broadcast") /\ view["prepare"].todo = {}
  /\ Refresh("prepare", "idle")
  /\ fresh' = {} /\ submitted' = {}
  /\ UNCHANGED <<chain, pool, owed, closes, hand>>

\* removeSlots for what was not broadcast: the records, then the index.
PrepareUndo ==
  /\ At("prepare", "undo")
  /\ record' = [a \in Account |->
                  IF a \in fresh \ submitted THEN NoRecord ELSE record[a]]
  /\ view' = [view EXCEPT !["prepare"] = [NoView EXCEPT !.names = index]]
  /\ GoTo("prepare", "undoing")
  /\ UNCHANGED <<chain, pool, index, owed, locals>>

PrepareUndone ==
  /\ At("prepare", "undoing")
  /\ Load(view["prepare"].names \ (fresh \ submitted), record)
  /\ EndPrepare
  /\ UNCHANGED <<chain, pool, owed, closes>>
-----------------------------------------------------------------------------
(***************************************************************************)
(* "reclaim": close the accounts no payment uses.                          *)
(***************************************************************************)
\* Mutant: a locked slot is reclaimable.
ReclaimableOrLocked(r) ==
  /\ r.status \in {"ready", "settled", "error", "locked"}
  /\ r.lamports = "rent"

Reclaimable(r) ==
  /\ r.status \in {"ready", "settled", "error"}
  /\ r.lamports = "rent"

EndReclaim ==
  /\ GoTo("reclaim", "idle")
  /\ view' = [view EXCEPT !["reclaim"] = NoView]
  /\ closes' = {}
  /\ hand' = [hand EXCEPT !["reclaim"] = NoHand]

\* There is nothing to close, or no blockhash for it.
ReclaimNothing ==
  /\ At("reclaim", "select")
  /\ EndReclaim
  /\ UNCHANGED <<chain, pool, device, fresh, submitted>>

ReclaimSelect ==
  /\ At("reclaim", "select")
  /\ LET v == view["reclaim"]
         chosen == {a \in v.known : Reclaimable(v.copy[a])}
     IN  /\ chosen # {}
         /\ view' = [view EXCEPT !["reclaim"].todo = chosen]
  /\ GoTo("reclaim", "broadcast")
  /\ UNCHANGED <<chain, pool, device, locals>>

ReclaimBroadcast(a) ==
  /\ At("reclaim", "broadcast")
  /\ a \in view["reclaim"].todo
  /\ OnChain(a)
  /\ view' = [view EXCEPT !["reclaim"].todo = @ \ {a}]
  /\ close' = [close EXCEPT ![a] = "sent"]
  /\ closes' = closes \cup {a}
  /\ hand' = [hand EXCEPT !["reclaim"] = [account |-> a, status |-> "closing"]]
  /\ GoTo("reclaim", "note")
  /\ UNCHANGED <<create, pool, device, fresh, submitted>>

\* A signature is refused, or a broadcast throws, possibly after it went out.
ReclaimThrows(a) ==
  /\ At("reclaim", "broadcast")
  /\ a \in view["reclaim"].todo
  /\ view' = [view EXCEPT !["reclaim"].todo = @ \ {a}]
  /\ \/ UNCHANGED close
     \/ /\ "reclaim" \in Interrupted /\ OnChain(a)
        /\ close' = [close EXCEPT ![a] = "sent"]
  /\ hand' = [hand EXCEPT !["reclaim"] = [account |-> a, status |-> "error"]]
  /\ GoTo("reclaim", "note")
  /\ UNCHANGED <<create, pool, device, closes, fresh, submitted>>

\* The record is the one selected, with the new status.
ReclaimNote ==
  /\ At("reclaim", "note")
  /\ LET a == hand["reclaim"].account
         r == view["reclaim"].copy[a]
     IN  Save(a, [r EXCEPT !.status = hand["reclaim"].status,
                           !.sig = IF a \in closes THEN "close" ELSE @])
  /\ hand' = [hand EXCEPT !["reclaim"] = NoHand]
  /\ GoTo("reclaim", "broadcast")
  /\ UNCHANGED <<chain, pool, index, owed, view, closes, fresh, submitted>>

\* Nothing was broadcast: the last refresh.
ReclaimWithout ==
  /\ At("reclaim", "broadcast")
  /\ view["reclaim"].todo = {} /\ closes = {}
  /\ Refresh("reclaim", "idle")
  /\ UNCHANGED <<chain, pool, owed, locals>>

\* The records that carry a signature of this run are loaded to be marked.
Marked(status) ==
  /\ view' = [view EXCEPT !["reclaim"] =
                [NoView EXCEPT !.copy = record,
                   !.todo = {a \in closes : record[a].legible /\ record[a].sig = "close"}]]
  /\ GoTo("reclaim", status)
  /\ UNCHANGED <<chain, pool, device, locals>>

Waiting ==
  At("reclaim", "broadcast") /\ view["reclaim"].todo = {} /\ closes # {}

ReclaimConfirmed ==
  /\ Waiting
  /\ \A a \in closes : close[a] = "landed"
  /\ Marked("closed")

\* Six attempts saw neither all confirmations nor an error.
ReclaimUnconfirmed ==
  /\ Waiting
  /\ Load(index, record)
  /\ EndReclaim
  /\ UNCHANGED <<chain, pool, owed, fresh, submitted>>

\* A close failed on chain, or the query of the signatures threw.
ReclaimRejected ==
  /\ Waiting
  /\ "reclaim" \in Interrupted
  /\ Marked("error")

ReclaimMark(a) ==
  /\ pc["reclaim"] \in {"closed", "error"}
  /\ a \in view["reclaim"].todo
  /\ view' = [view EXCEPT !["reclaim"].todo = @ \ {a}]
  /\ LET r == view["reclaim"].copy[a]
     IN  Save(a, IF At("reclaim", "error") THEN [r EXCEPT !.status = "error"]
                 ELSE [r EXCEPT !.status = "closed", !.lamports = "zero",
                                !.tx = FALSE, !.sig = "none"])
  /\ UNCHANGED <<chain, pool, index, owed, pc, locals>>

ReclaimMarked ==
  /\ view["reclaim"].todo = {}
  /\ \/ /\ At("reclaim", "closed")
        /\ Refresh("reclaim", "idle")
        /\ closes' = {}
        /\ UNCHANGED <<owed, hand>>
     \/ /\ At("reclaim", "error")
        /\ EndReclaim
        /\ UNCHANGED device
  /\ UNCHANGED <<chain, pool, fresh, submitted>>
-----------------------------------------------------------------------------
(***************************************************************************)
(* Payments, as OfflinePayments details them.                              *)
(***************************************************************************)
Offered(a) == a \in index /\ record[a].status = "ready" /\ record[a].legible

MayPay == Busy = {} \/ Busy \cup {"pay"} \in Overlap

\* A payment is queued over a's nonce, and a is locked for it.
PayLock(a) ==
  /\ MayPay
  /\ Offered(a)
  /\ Save(a, [record[a] EXCEPT !.status = "locked", !.tx = TRUE])
  /\ owed' = owed \cup {a}
  /\ UNCHANGED <<chain, pool, index, pc, view, locals>>

\* It executes, which takes an account that exists, and its slot is marked.
PaySettled(a) ==
  /\ MayPay
  /\ a \in owed /\ OnChain(a)
  /\ record' = [record EXCEPT ![a].status =
                  IF a \in index /\ record[a].legible /\ record[a].tx THEN "settled" ELSE @]
  /\ owed' = owed \ {a}
  /\ UNCHANGED <<chain, pool, index, pc, view, locals>>
-----------------------------------------------------------------------------
\* The app is killed: what it persisted, the pool and the chain stay.
Crash ==
  /\ Busy # {} /\ Busy \subseteq Interrupted
  /\ pc' = [t \in Tasks |-> "idle"]
  /\ view' = [t \in Tasks |-> NoView]
  /\ fresh' = {} /\ submitted' = {} /\ closes' = {}
  /\ hand' = [t \in Tasks |-> NoHand]
  /\ UNCHANGED <<chain, pool, device>>

ChainStep == \E a \in Account : CreateDecided(a) \/ CloseDecided(a) \/ CloseFails(a)

RefreshStep(t) ==
  \/ Read(t) \/ ReadFails(t) \/ Fallback(t)
  \/ SyncIndex(t) \/ SyncLoad(t) \/ SyncUpsert(t) \/ SyncSave(t)
  \/ \E a \in Account : SyncWrite(t, a)

PrepareStep ==
  \/ PrepareNothing \/ PrepareGenerate \/ PrepareIndex \/ PrepareRequest
  \/ PrepareRefused \/ PrepareNote \/ PrepareThrows \/ PrepareWaited
  \/ PrepareUndo \/ PrepareUndone
  \/ \E a \in Account : PrepareBroadcast(a)

ReclaimStep ==
  \/ ReclaimNothing \/ ReclaimSelect \/ ReclaimNote \/ ReclaimWithout
  \/ ReclaimConfirmed \/ ReclaimUnconfirmed \/ ReclaimRejected \/ ReclaimMarked
  \/ \E a \in Account : ReclaimBroadcast(a) \/ ReclaimThrows(a) \/ ReclaimMark(a)

PayStep == \E a \in Account : PayLock(a) \/ PaySettled(a)

Next ==
  \/ ChainStep
  \/ Start("poll", "idle") \/ Start("prepare", "decide") \/ Start("reclaim", "select")
  \/ \E t \in Tasks : RefreshStep(t)
  \/ PrepareStep \/ ReclaimStep \/ PayStep \/ Crash

Spec == Init /\ [][Next]_vars
-----------------------------------------------------------------------------
\* The accounts that hold, or may come to hold, rent of the wallet.
Funded == {a \in Account : create[a] = "sent" \/ OnChain(a)}

(***************************************************************************)
(* The worker lists every account whose creation went out and that is not  *)
(* closed, so that a status refresh finds the rent again after a reinstall *)
(* or a crash, whatever the device's index has lost (the comment of        *)
(* useOfflinePaymentSlotsAutoSync).                                        *)
(***************************************************************************)
RentListed == Funded \subseteq pool

(***************************************************************************)
(* An account on chain is in the worker's pool or in the device's index:   *)
(* someone can still use it, or close it and recover the rent.             *)
(***************************************************************************)
RentKnown == \A a \in Account : OnChain(a) => a \in pool \cup index

(***************************************************************************)
(* However index and pool drift apart, the wallet never pays rent for more *)
(* accounts than the maximum (the cap of prepareNoncePool).                *)
(***************************************************************************)
RentBounded == Cardinality(Funded) <= MaxSlots

(***************************************************************************)
(* A slot is offered to payments only if its account exists and no close   *)
(* of it is under way.                                                     *)
(***************************************************************************)
OfferedIsUsable ==
  At("reclaim", "idle") =>
    \A a \in Account : Offered(a) => OnChain(a) /\ close[a] # "sent"

(***************************************************************************)
(* The account under a payment that awaits settlement is never closed: its *)
(* transaction could never execute.                                        *)
(***************************************************************************)
OwedIsOpen == \A a \in owed : OnChain(a) /\ close[a] # "sent"
=============================================================================
